---------------------------- MODULE PlatformEngine ----------------------------
(***************************************************************************)
(* One request to a platform engine (src/platform/engine.rs) while others  *)
(* edit its source.  Requests share nothing but the source, so that one is *)
(* enough.  Roles are expanded by RoleHierarchy: its walk is a local of    *)
(* the request.  Every read of the source is an await.                     *)
(***************************************************************************)
EXTENDS PlatformScopes

CONSTANTS
  Principals, Roles, Tenants, ScopePaths,
  Engines,         \* PlatformEngineConfig but for the depth, one per engine
  MaxDepth,        \* max_role_depth
  Requests,
  InitialSources,
  AssignmentPool, PermissionPool,   \* what edits add and remove
  MaxEdits         \* bound on the edits of the source

ASSUME BoundsAssumption == MaxDepth \in Nat /\ MaxEdits \in Nat
ASSUME EnginesAssumption == Engines \subseteq [role_hierarchy : BOOLEAN, wildcard : BOOLEAN]
ASSUME PathsAssumption == ScopePaths \subseteq Seq(UNION {Range(path) : path \in ScopePaths})

VARIABLES
  source,                        \* the four maps of the source
  engine, request,               \* the engine asked, and what for
  at,                            \* where the request is
  todo, scope, roles, grants,    \* its locals
  root, walk, outcome, blamed,   \* the expansion it is in (RoleHierarchy)
  answer,
  edits,                         \* how many edits there have been
  ever, always                   \* history: what the source has held at some
                                 \* moment, at every moment, of the request
expansion == <<root, walk, outcome, blamed>>
vars == <<source, engine, request, at, todo, scope, roles, grants, root, walk, outcome,
          blamed, answer, edits, ever, always>>

Expansion == INSTANCE RoleHierarchy WITH parents <- source.parents, EditableRoles <- {}

Permissions == PermissionPool \cup {r.permission : r \in Requests}
GrantScopes == PlatformScopeType(Tenants, ScopePaths)
Assignment == [role : Roles, scope : GrantScopes]
Grant == [permission : Permissions, scope : GrantScopes]
SourceType ==
  [principals : [Principals -> BOOLEAN], assignments : [Principals -> SUBSET Assignment],
   permissions : [Roles -> SUBSET Permissions], parents : [Roles -> SUBSET Roles]]
RequestType ==
  [op : {"can_platform", "can_access_tenant", "can_access_tenant_scope"},
   principal : Principals, permission : Permissions, tenant : Tenants, target : ScopePaths]

ASSUME RequestsAssumption == Requests \subseteq RequestType
ASSUME SourcesAssumption == InitialSources \subseteq SourceType
ASSUME PoolAssumption == AssignmentPool \subseteq Assignment

Stages == {"status", "assignments", "assignment_loop", "expand", "permissions", "answered"}
Errors == Expansion!Errors \cup {"mixed"}
NoAnswer == "none"

TypeOK ==
  /\ source \in SourceType /\ ever \in SourceType /\ always \in SourceType
  /\ engine \in Engines /\ request \in RequestType
  /\ at \in Stages
  /\ todo \subseteq Assignment /\ scope \in GrantScopes
  /\ roles \in Seq(Roles) /\ grants \subseteq Grant
  /\ at = "permissions" => roles # << >>
  /\ at = "expand" => Expansion!TypeOK
  /\ answer \in {NoAnswer, "Allow", "Deny"} \cup Errors
  /\ at = "answered" <=> answer # NoAnswer
  /\ edits \in 0 .. MaxEdits

NoWalk == [stack |-> << >>, visiting |-> {}, visited |-> {}, output |-> << >>]

Init ==
  /\ source \in InitialSources
  /\ engine \in Engines /\ request \in Requests
  /\ at = "status"
  /\ todo = {} /\ scope = Platform /\ roles = << >> /\ grants = {}
  /\ root \in {CHOOSE r \in Roles : TRUE}
  /\ walk = NoWalk /\ outcome = "ok" /\ blamed = root
  /\ answer = NoAnswer
  /\ edits = 0 /\ ever = source /\ always = source

-------------------------------------------------------------------------------
(* The request.                                                             *)

Unedited == UNCHANGED <<source, engine, request, edits, ever, always>>

Answer(a) ==
  /\ at' = "answered" /\ answer' = a
  /\ UNCHANGED <<todo, scope, roles, grants>>

decision(allowed) == IF allowed THEN "Allow" ELSE "Deny"

(* From the matching grants' scopes on; can_platform merges nothing.        *)
Decide(scopes) ==
  LET accessible == merge_tenant_data(scopes) IN
  IF request.op = "can_platform" THEN decision(Platform \in scopes)
  ELSE IF accessible = Mixed THEN "mixed"
  ELSE IF request.op = "can_access_tenant"
       THEN decision(allows_tenant(accessible, request.tenant))
       ELSE decision(allows_tenant_path(accessible, request.tenant, request.target))

(* An inactive principal has no grants, and the request goes on with none.  *)
ReadPrincipalStatus ==
  /\ at = "status"
  /\ IF source.principals[request.principal]
     THEN at' = "assignments" /\ UNCHANGED <<todo, scope, roles, grants, answer>>
     ELSE Answer(Decide({}))
  /\ Unedited /\ UNCHANGED expansion

ReadAssignments ==
  /\ at = "assignments"
  /\ at' = "assignment_loop" /\ todo' = source.assignments[request.principal]
  /\ Unedited /\ UNCHANGED <<scope, roles, grants, answer, root, walk, outcome, blamed>>

TakeAssignment(a) ==
  /\ at = "assignment_loop" /\ a \in todo
  /\ todo' = todo \ {a} /\ scope' = a.scope
  /\ IF engine.role_hierarchy
     THEN /\ at' = "expand" /\ roles' = roles
          /\ root' = a.role /\ blamed' = a.role /\ outcome' = "entering"
          /\ walk' = [NoWalk EXCEPT !.visiting = {a.role}, !.output = <<a.role>>]
     ELSE at' = "permissions" /\ roles' = <<a.role>> /\ UNCHANGED expansion
  /\ Unedited /\ UNCHANGED <<grants, answer>>

Expand ==
  /\ at = "expand"
  /\ Unedited /\ UNCHANGED <<at, todo, scope, roles, grants, answer>>
  /\ Expansion!Step

ExpansionReturns ==
  /\ at = "expand" /\ outcome = "ok"
  /\ at' = "permissions" /\ roles' = walk.output /\ walk' = NoWalk
  /\ Unedited /\ UNCHANGED <<todo, scope, grants, answer, root, outcome, blamed>>

ExpansionFails ==
  /\ at = "expand" /\ outcome \in Expansion!Errors
  /\ Answer(outcome)
  /\ Unedited /\ UNCHANGED expansion

(* Variant: the loop over the roles does not stop at the last one.          *)
ReadPermissions_endless ==
  /\ at = "permissions" /\ roles # << >>
  /\ roles' = Tail(roles)
  /\ Unedited /\ UNCHANGED <<at, todo, scope, grants, answer, root, walk, outcome, blamed>>

ReadPermissions ==
  /\ at = "permissions"
  /\ grants' = grants \cup
       {[permission |-> p, scope |-> scope] : p \in source.permissions[Head(roles)]}
  /\ roles' = Tail(roles)
  /\ at' = IF Tail(roles) = << >> THEN "assignment_loop" ELSE "permissions"
  /\ Unedited /\ UNCHANGED <<todo, scope, answer, root, walk, outcome, blamed>>

FinishAssignments ==
  /\ at = "assignment_loop" /\ todo = {}
  /\ Answer(Decide({g.scope : g \in {x \in grants : matches(x.permission, request.permission,
                                                            engine.wildcard)}}))
  /\ Unedited /\ UNCHANGED expansion

(* A read fails (those of the expansion fail in RoleHierarchy).             *)
SourceFails ==
  /\ at \in {"status", "assignments", "permissions"}
  /\ Answer("source_error")
  /\ Unedited /\ UNCHANGED expansion

-------------------------------------------------------------------------------
(* Edits while the request runs; those after it concern nobody.             *)

Join(s, t) ==
  [principals  |-> [p \in Principals |-> s.principals[p] \/ t.principals[p]],
   assignments |-> [p \in Principals |-> s.assignments[p] \cup t.assignments[p]],
   permissions |-> [r \in Roles |-> s.permissions[r] \cup t.permissions[r]],
   parents     |-> [r \in Roles |-> s.parents[r] \cup t.parents[r]]]
Meet(s, t) ==
  [principals  |-> [p \in Principals |-> s.principals[p] /\ t.principals[p]],
   assignments |-> [p \in Principals |-> s.assignments[p] \cap t.assignments[p]],
   permissions |-> [r \in Roles |-> s.permissions[r] \cap t.permissions[r]],
   parents     |-> [r \in Roles |-> s.parents[r] \cap t.parents[r]]]

Edit(edited) ==
  /\ at # "answered"
  /\ edits < MaxEdits /\ edits' = edits + 1
  /\ source' = edited
  /\ ever' = Join(ever, edited) /\ always' = Meet(always, edited)
  /\ UNCHANGED <<engine, request, at, todo, scope, roles, grants, root, walk, outcome,
                 blamed, answer>>

Toggle(S, x) == IF x \in S THEN S \ {x} ELSE S \cup {x}

set_principal_status(p) == Edit([source EXCEPT !.principals[p] = ~ @])
edit_role_assignment(p, a) == Edit([source EXCEPT !.assignments[p] = Toggle(@, a)])
edit_role_permission(r, p) == Edit([source EXCEPT !.permissions[r] = Toggle(@, p)])
edit_parent_role(r, p) == Edit([source EXCEPT !.parents[r] = Toggle(@, p)])

Next ==
  \/ ReadPrincipalStatus \/ ReadAssignments \/ \E a \in todo : TakeAssignment(a)
  \/ Expand \/ ExpansionReturns \/ ExpansionFails
  \/ ReadPermissions \/ FinishAssignments \/ SourceFails
  \/ \E p \in Principals : set_principal_status(p)
  \/ \E p \in Principals, a \in AssignmentPool : edit_role_assignment(p, a)
  \/ \E r \in Roles, p \in PermissionPool : edit_role_permission(r, p)
  \/ \E r, p \in Roles : edit_parent_role(r, p)

Spec == Init /\ [][Next]_vars

-------------------------------------------------------------------------------
(* What a source s grants the principal, all at once.                       *)

Ancestors(s, role) ==
  {x \in Roles : \A S \in SUBSET Roles :
     role \in S /\ (\A r \in S : s.parents[r] \subseteq S) => x \in S}
RolesGiven(s, role) == IF engine.role_hierarchy THEN Ancestors(s, role) ELSE {role}

Granted(s) ==
  {a.scope : a \in {x \in s.assignments[request.principal] :
     /\ s.principals[request.principal]
     /\ \E r \in RolesGiven(s, x.role) : \E p \in s.permissions[r] :
          matches(p, request.permission, engine.wildcard)}}

(* Some one scope permits what is requested.                                *)
Permitted(scopes) ==
  \E s \in scopes :
    CASE request.op = "can_platform" -> s.kind = "platform"
      [] request.op = "can_access_tenant" ->
           s.kind = "all_tenants" \/ (s.kind = "tenants" /\ request.tenant \in s.tenants)
      [] request.op = "can_access_tenant_scope" ->
           \/ s.kind = "all_tenants"
           \/ (s.kind = "tenants" /\ request.tenant \in s.tenants)
           \/ /\ s.kind = "tenant_paths" /\ request.tenant \in DOMAIN s.entries
              /\ \E path \in s.entries[request.tenant] : allows(path, request.target)

Kinds(scopes) == {s.kind : s \in scopes}
MixedKinds == {"tenants", "tenant_paths"}

-------------------------------------------------------------------------------
(* Properties.  A request reads its source bit by bit while it is edited.   *)

(* Nothing is allowed that no combination of what each map has held since   *)
(* the request began would grant.  An assignment of one moment may count    *)
(* together with a permission of another: no atomic read is promised.       *)
NothingInvented == answer = "Allow" => Permitted(Granted(ever))

(* Nothing is denied that rests on assignments, parents and permissions     *)
(* which stood all the while: edits of other things lose no grant.          *)
NothingLost == answer = "Deny" => ~ Permitted(Granted(always))

(* Tenant sets and paths for one permission are an error exactly when both  *)
(* are held, and all tenants are not: no other order of assignments, and no *)
(* query that needs no tenants, makes a difference.                         *)
MixedGrantsRefused ==
  /\ answer = "mixed" =>
       /\ request.op # "can_platform"
       /\ MixedKinds \subseteq Kinds(Granted(ever))
       /\ "all_tenants" \notin Kinds(Granted(always))
  /\ answer \in {"Allow", "Deny"} /\ request.op # "can_platform" =>
       \/ ~ MixedKinds \subseteq Kinds(Granted(always))
       \/ "all_tenants" \in Kinds(Granted(ever))
===============================================================================
