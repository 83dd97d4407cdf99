----------------------------- MODULE TenantEngine -----------------------------
(***************************************************************************)
(* The tenant engine (src/engine.rs) at work: tasks that each await one    *)
(* decision after the other, on engines that share a cache and a source;   *)
(* administrators that invalidate; a source that others edit.  The cache   *)
(* is any that keeps the contract of LossyCache, MemoryCache being one.    *)
(* Every read of the source is an await: a step of a task is the code from *)
(* one await to the next, or one turn of a loop that awaits nothing.       *)
(***************************************************************************)
EXTENDS AccessScopes, ExpandRoles

CONSTANTS
  Tasks, Admins,
  Tenants, Principals, Roles,
  Engines, Config,      \* each engine's EngineConfig
  Requests,             \* the requests made
  Miss,                 \* Option::None answered by the cache
  InitialSources,       \* what the source may hold at first
  AssignmentPool, PermissionPool,   \* what edits add and remove
  MaxEdits              \* bound on the edits of the source

Configs == [role_hierarchy : BOOLEAN, wildcard : BOOLEAN, max_depth : Nat]

(* Variant: the flags are left out.                                         *)
signature_short(config) == <<config.max_depth>>

(* The configuration's text: its three fields, flags as digits.             *)
signature(config) ==
  LET Digit(flag) == IF flag THEN 1 ELSE 0 IN
  <<Digit(config.role_hierarchy), Digit(config.wildcard), config.max_depth>>

Subjects == [tenant : Tenants, principal : Principals]
Keys == [tenant : Tenants, principal : Principals,
         config_signature : {signature(Config[e]) : e \in Engines}]
PathPool == {r.target : r \in Requests} \ {WholeTenant}
Permissions == PermissionPool \cup {r.permission : r \in Requests}
Scope == [whole : BOOLEAN, roots : SUBSET Seq(STRING)]
Grant == [role : Roles, permission : Permissions, scope : Scope]

ASSUME ConfigAssumption == Config \in [Engines -> Configs]
ASSUME TasksAssumption == Tasks \cap Admins = {}

VARIABLES
  source,     \* the five maps of the source
  task,       \* where each task is, with its locals
  stored, pending, returned, owed,   \* the cache (LossyCache)
  edits,      \* how many edits there have been
  armed,      \* history: what each running invalidation will have cleared
  cleared,    \* history: keys with an invalidation, called after the last edit,
              \* that has returned
  fenced      \* history: those for which no older computation was then running

cacheVars == <<stored, pending, returned, owed>>
history == <<edits, armed, cleared, fenced>>
vars == <<source, task, stored, pending, returned, owed, edits, armed, cleared, fenced>>

Cache == INSTANCE LossyCache WITH
  Clients <- Tasks \cup Admins, Grants <- SUBSET Grant

-------------------------------------------------------------------------------
(* Tasks.                                                                   *)

KeyOf(request) ==
  [tenant |-> request.subject.tenant, principal |-> request.subject.principal,
   config_signature |-> signature(Config[request.engine])]
ConfigOf(request) == Config[request.engine]

NoWalk == [stack |-> << >>, visiting |-> {}, visited |-> {}, output |-> << >>]
(* expand_from before its first read.                                       *)
NotEntered(role) ==
  [stack |-> << >>, visiting |-> {role}, visited |-> {}, output |-> <<role>>]

Idle == [at |-> "idle"]
NewTask(request) ==
  [at |-> "tenant_status", request |-> request, todo |-> {}, scope |-> NoScope,
   walk |-> NoWalk, roles |-> << >>, grants |-> {}, changed |-> {}]
Answered(reason, scope) == [at |-> "answered", reason |-> reason, scope |-> scope]

Errors == {"source_error", "cycle", "depth"}
Denials == {"TenantInactive", "PrincipalInactive", "PermissionMissing",
            "TargetScopeRequired", "ScopeDenied"}

InFlight(c) == task[c].at \notin {"idle", "answered"}
(* Past its first read of what grants are computed from.                    *)
Computing(c) ==
  task[c].at \in {"assignment_loop", "expand", "walk", "permissions", "cache_set"}

FrameType == [role : Roles, depth : Nat, rest : SUBSET Roles]
WalkType == [stack : Seq(FrameType), visiting : SUBSET Roles, visited : SUBSET Roles,
             output : Seq(Roles)]
Assignment == [role : Roles, scope : Scope]
RequestType == [engine : Engines, subject : Subjects, permission : Permissions,
                target : Seq(STRING)]
Busy ==
  [at : {"tenant_status", "membership_status", "cache_get", "assignments",
         "assignment_loop", "expand", "walk", "permissions", "cache_set"},
   request : RequestType, todo : SUBSET Assignment, scope : Scope, walk : WalkType,
   roles : Seq(Roles), grants : SUBSET Grant, changed : SUBSET {"status", "reads"}]
Done == [at : {"answered"}, reason : {"Allow"} \cup Denials \cup Errors, scope : Scope]

SourceType ==
  [tenants : [Tenants -> BOOLEAN], members : [Subjects -> BOOLEAN],
   assignments : [Subjects -> SUBSET Assignment],
   permissions : [Tenants -> [Roles -> SUBSET Permissions]],
   parents : [Tenants -> [Roles -> SUBSET Roles]]]

ASSUME RequestsAssumption == Requests \subseteq RequestType
ASSUME SourcesAssumption == InitialSources \subseteq SourceType
ASSUME PoolAssumption == AssignmentPool \subseteq Assignment
ASSUME BoundsAssumption == MaxEdits \in Nat

TypeOK ==
  /\ source \in SourceType
  /\ task \in [Tasks -> {Idle} \cup Busy \cup Done]
  /\ \A c \in Tasks : task[c].at = "permissions" => task[c].roles # << >>
  /\ stored \in [Keys -> (SUBSET Grant) \cup {Miss}]
  /\ edits \in 0 .. MaxEdits
  /\ armed \in [Admins -> [cleared : SUBSET Keys, fenced : SUBSET Keys]]
  /\ fenced \subseteq cleared /\ cleared \subseteq Keys

Init ==
  /\ source \in InitialSources
  /\ task = [c \in Tasks |-> Idle]
  /\ Cache!Init
  /\ edits = 0
  /\ armed = [a \in Admins |-> [cleared |-> {}, fenced |-> {}]]
  /\ cleared = Keys
  /\ fenced = Keys

-------------------------------------------------------------------------------
(* A request, up to the cache.                                              *)

Goto(c, t) == task' = [task EXCEPT ![c] = t]
Answer(c, reason, scope) == Goto(c, Answered(reason, scope))
ReadsOnly == UNCHANGED <<source, stored, pending, returned, owed, edits, armed, cleared, fenced>>
UsesCache == UNCHANGED <<source, edits, armed, cleared, fenced>>

(* What the cache may have lost by the time it answers.                     *)
Losses == SUBSET {k \in Keys : stored[k] # Miss}

explain(c, request) ==
  /\ ~ InFlight(c)
  /\ Goto(c, NewTask(request))
  /\ ReadsOnly

(* Variant: the cache is asked before the membership.                       *)
ReadTenantStatus_to_cache(c) ==
  /\ task[c].at = "tenant_status" /\ source.tenants[task[c].request.subject.tenant]
  /\ Goto(c, [task[c] EXCEPT !.at = "cache_get"])
  /\ Cache!Call(c, [op |-> "get", key |-> KeyOf(task[c].request)])
  /\ UsesCache

ReadTenantStatus(c) ==
  /\ task[c].at = "tenant_status"
  /\ IF source.tenants[task[c].request.subject.tenant]
     THEN Goto(c, [task[c] EXCEPT !.at = "membership_status"])
     ELSE Answer(c, "TenantInactive", NoScope)
  /\ ReadsOnly

ReadMembershipStatus(c) ==
  /\ task[c].at = "membership_status"
  /\ IF source.members[task[c].request.subject]
     THEN /\ Goto(c, [task[c] EXCEPT !.at = "cache_get"])
          /\ Cache!Call(c, [op |-> "get", key |-> KeyOf(task[c].request)])
     ELSE /\ Answer(c, "PrincipalInactive", NoScope)
          /\ UNCHANGED cacheVars
  /\ UsesCache

(* resolve_scope from the effective grants on, and the explanation.         *)
Decide(c, grants) ==
  LET request == task[c].request
      matched == {g \in grants : matches(g.permission, request.permission,
                                         ConfigOf(request).wildcard)}
      scope == merge({g.scope : g \in matched})
  IN  Answer(c, Decision(scope, request.target), scope)

CacheAnswers(c) ==
  /\ task[c].at = "cache_get"
  /\ \E lost \in Losses : Cache!Answer(c, lost)
  /\ IF returned'[c] # Miss
     THEN Decide(c, returned'[c])
     ELSE Goto(c, [task[c] EXCEPT !.at = "assignments"])
  /\ UsesCache

-------------------------------------------------------------------------------
(* The effective grants, computed.                                          *)

ReadAssignments(c) ==
  /\ task[c].at = "assignments"
  /\ Goto(c, [task[c] EXCEPT !.at = "assignment_loop",
                             !.todo = source.assignments[task[c].request.subject]])
  /\ ReadsOnly

(* The source lists assignments in no particular order.                     *)
TakeAssignment(c) ==
  /\ task[c].at = "assignment_loop"
  /\ \E a \in task[c].todo :
       LET taken == [task[c] EXCEPT !.todo = @ \ {a}, !.scope = a.scope] IN
       IF ConfigOf(task[c].request).role_hierarchy
       THEN Goto(c, [taken EXCEPT !.at = "expand", !.walk = NotEntered(a.role)])
       ELSE Goto(c, [taken EXCEPT !.at = "permissions", !.roles = <<a.role>>])
  /\ ReadsOnly

ParentsOf(c, role) == source.parents[task[c].request.subject.tenant][role]

EnterRole(c) ==
  /\ task[c].at = "expand"
  /\ LET role == task[c].walk.output[1] IN
     Goto(c, [task[c] EXCEPT !.at = "walk", !.walk = NewWalk(role, ParentsOf(c, role))])
  /\ ReadsOnly

(* What the top frame's iterator may deliver.                               *)
Drawable(c) ==
  IF task[c].at = "walk" /\ task[c].walk.stack # << >> THEN Top(task[c].walk).rest ELSE {}
Deep(c) == TooDeep(task[c].walk, ConfigOf(task[c].request).max_depth)
Fresh(c, p) ==
  /\ p \in Drawable(c)
  /\ ~ Deep(c) /\ ~ InProgress(task[c].walk, p) /\ ~ Visited(task[c].walk, p)

ExpansionFails(c) ==
  /\ \E p \in Drawable(c) :
       \/ Deep(c) /\ Answer(c, "depth", NoScope)
       \/ ~ Deep(c) /\ InProgress(task[c].walk, p) /\ Answer(c, "cycle", NoScope)
  /\ ReadsOnly

SkipVisited(c) ==
  /\ \E p \in Drawable(c) :
       /\ ~ Deep(c) /\ ~ InProgress(task[c].walk, p) /\ Visited(task[c].walk, p)
       /\ Goto(c, [task[c] EXCEPT !.walk = Skip(@, p)])
  /\ ReadsOnly

VisitParent(c) ==
  /\ \E p \in Drawable(c) :
       /\ Fresh(c, p)
       /\ Goto(c, [task[c] EXCEPT !.walk = Descend(@, p, ParentsOf(c, p))])
  /\ ReadsOnly

LeaveRole(c) ==
  /\ task[c].at = "walk" /\ task[c].walk.stack # << >> /\ Drawable(c) = {}
  /\ Goto(c, [task[c] EXCEPT !.walk = Leave(@)])
  /\ ReadsOnly

(* Variant: the expansion ends with the first role that is left.            *)
FinishExpansion_early(c) ==
  /\ task[c].at = "walk" /\ Drawable(c) = {}
  /\ Goto(c, [task[c] EXCEPT !.at = "permissions", !.walk = NoWalk,
                             !.roles = <<task[c].walk.output[1]>>])
  /\ ReadsOnly

FinishExpansion(c) ==
  /\ task[c].at = "walk" /\ task[c].walk.stack = << >>
  /\ Goto(c, [task[c] EXCEPT !.at = "permissions", !.walk = NoWalk,
                             !.roles = task[c].walk.output])
  /\ ReadsOnly

(* Variant: the loop over the roles does not stop at the last one.          *)
ReadPermissions_endless(c) ==
  /\ task[c].at = "permissions" /\ task[c].roles # << >>
  /\ Goto(c, [task[c] EXCEPT !.roles = Tail(@)])
  /\ ReadsOnly

ReadPermissions(c) ==
  /\ task[c].at = "permissions"
  /\ LET role == Head(task[c].roles)
         granted == {[role |-> role, permission |-> p, scope |-> task[c].scope] :
                       p \in source.permissions[task[c].request.subject.tenant][role]}
         left == Tail(task[c].roles)
     IN Goto(c, [task[c] EXCEPT
                   !.at = IF left = << >> THEN "assignment_loop" ELSE "permissions",
                   !.roles = left, !.grants = @ \cup granted,
                   !.scope = IF left = << >> THEN NoScope ELSE @])
  /\ ReadsOnly

FinishAssignments(c) ==
  /\ task[c].at = "assignment_loop" /\ task[c].todo = {}
  /\ Goto(c, [task[c] EXCEPT !.at = "cache_set"])
  /\ Cache!Call(c, [op |-> "set", key |-> KeyOf(task[c].request), grants |-> task[c].grants])
  /\ UsesCache

CacheStores(c) ==
  /\ task[c].at = "cache_set"
  /\ \E lost \in Losses : Cache!Fill(c, lost)
  /\ Decide(c, task[c].grants)
  /\ UsesCache

-------------------------------------------------------------------------------
(* At any read the source may fail, which ends the request with its error,  *)
(* and the request may be dropped.  The caches of src/ never suspend.       *)

Suspended(c) ==
  \/ task[c].at \in {"tenant_status", "membership_status", "assignments", "expand",
                     "permissions"}
  \/ \E p \in Drawable(c) : Fresh(c, p)

(* Variants: a failed read counts as a denial; what was computed before it  *)
(* is stored.                                                               *)
SourceFails_denied(c) ==
  Suspended(c) /\ Answer(c, "PermissionMissing", NoScope) /\ ReadsOnly
SourceFails_stored(c) ==
  /\ task[c].at = "permissions"
  /\ Goto(c, [task[c] EXCEPT !.at = "cache_set"])
  /\ Cache!Call(c, [op |-> "set", key |-> KeyOf(task[c].request), grants |-> task[c].grants])
  /\ UsesCache

SourceFails(c) == Suspended(c) /\ Answer(c, "source_error", NoScope) /\ ReadsOnly
Dropped(c) == Suspended(c) /\ Goto(c, Idle) /\ ReadsOnly

-------------------------------------------------------------------------------
(* Invalidations.  One fences the keys for which no task then holds reads   *)
(* that are out of date.                                                    *)

Outdated(k) ==
  \E c \in Tasks : InFlight(c) /\ KeyOf(task[c].request) = k /\ "reads" \in task[c].changed

Invalidate(a, target) ==
  /\ Cache!CallInvalidate(a, target)
  /\ armed' = [armed EXCEPT ![a] = [cleared |-> target,
                                    fenced  |-> {k \in target : ~ Outdated(k)}]]
  /\ UNCHANGED <<source, task, edits, cleared, fenced>>

PrincipalKeys(t, p) == {k \in Keys : k.tenant = t /\ k.principal = p}
TenantKeys(t) == {k \in Keys : k.tenant = t}

invalidate_principal(a, t, p) == Invalidate(a, PrincipalKeys(t, p))
invalidate_tenant(a, t) == Invalidate(a, TenantKeys(t))
invalidate_role(a, t) == invalidate_tenant(a, t)
invalidate_all(a) == Invalidate(a, Keys)

CacheClears(a) ==
  /\ \E lost \in Losses \ {{}} : Cache!Clear(a, lost)
  /\ UNCHANGED <<source, task, edits, armed, cleared, fenced>>

InvalidationReturns(a) ==
  /\ \E lost \in Losses : Cache!Finish(a, lost)
  /\ cleared' = cleared \cup armed[a].cleared
  /\ fenced' = fenced \cup armed[a].fenced
  /\ armed' = [armed EXCEPT ![a] = [cleared |-> {}, fenced |-> {}]]
  /\ UNCHANGED <<source, task, edits>>

-------------------------------------------------------------------------------
(* Edits of the source: statuses, and what grants are computed from.        *)

Changed(t, changed) == [t EXCEPT !.changed = @ \cup changed]

EditStatus(keys, edited) ==
  /\ edits < MaxEdits /\ edits' = edits + 1
  /\ source' = edited
  /\ task' = [c \in Tasks |->
                IF InFlight(c) /\ KeyOf(task[c].request) \in keys
                THEN Changed(task[c], {"status"}) ELSE task[c]]
  /\ UNCHANGED <<stored, pending, returned, owed, armed, cleared, fenced>>

EditGrants(keys, edited) ==
  /\ edits < MaxEdits /\ edits' = edits + 1
  /\ source' = edited
  /\ task' = [c \in Tasks |->
                IF Computing(c) /\ KeyOf(task[c].request) \in keys
                THEN Changed(task[c], {"reads"}) ELSE task[c]]
  /\ armed' = [a \in Admins |-> [cleared |-> armed[a].cleared \ keys,
                                 fenced  |-> armed[a].fenced \ keys]]
  /\ cleared' = cleared \ keys
  /\ fenced' = fenced \ keys
  /\ UNCHANGED <<stored, pending, returned, owed>>

Toggle(S, x) == IF x \in S THEN S \ {x} ELSE S \cup {x}

set_tenant_status(t) ==
  EditStatus(TenantKeys(t), [source EXCEPT !.tenants[t] = ~ @])
set_membership_status(s) ==
  EditStatus(PrincipalKeys(s.tenant, s.principal), [source EXCEPT !.members[s] = ~ @])
edit_role_assignment(s, a) ==
  EditGrants(PrincipalKeys(s.tenant, s.principal),
             [source EXCEPT !.assignments[s] = Toggle(@, a)])
edit_role_permission(t, r, p) ==
  EditGrants(TenantKeys(t), [source EXCEPT !.permissions[t][r] = Toggle(@, p)])
edit_parent_role(t, r, p) ==
  EditGrants(TenantKeys(t), [source EXCEPT !.parents[t][r] = Toggle(@, p)])

-------------------------------------------------------------------------------

(* What a task does of its own accord once a request is made.               *)
Progress(c) ==
  \/ ReadTenantStatus(c) \/ ReadMembershipStatus(c) \/ CacheAnswers(c)
  \/ ReadAssignments(c) \/ TakeAssignment(c)
  \/ EnterRole(c) \/ ExpansionFails(c) \/ SkipVisited(c) \/ VisitParent(c)
  \/ LeaveRole(c) \/ FinishExpansion(c)
  \/ ReadPermissions(c) \/ FinishAssignments(c) \/ CacheStores(c)
  \/ SourceFails(c)

AdminStep(a) ==
  \/ \E t \in Tenants, p \in Principals : invalidate_principal(a, t, p)
  \/ \E t \in Tenants : invalidate_role(a, t) \/ invalidate_tenant(a, t)
  \/ invalidate_all(a)
  \/ CacheClears(a) \/ InvalidationReturns(a)

Edit ==
  \/ \E t \in Tenants : set_tenant_status(t)
  \/ \E s \in Subjects : set_membership_status(s)
  \/ \E s \in Subjects, a \in AssignmentPool : edit_role_assignment(s, a)
  \/ \E t \in Tenants, r \in Roles, p \in PermissionPool : edit_role_permission(t, r, p)
  \/ \E t \in Tenants, r \in Roles, p \in Roles : edit_parent_role(t, r, p)

Next ==
  \/ \E c \in Tasks : Progress(c) \/ Dropped(c) \/ \E r \in Requests : explain(c, r)
  \/ \E a \in Admins : AdminStep(a)
  \/ Edit

Spec == Init /\ [][Next]_vars

(* The runtime polls every task again and every read of the source ends.    *)
FairSpec == Spec /\ \A c \in Tasks : WF_vars(Progress(c))

-------------------------------------------------------------------------------
(* What the source says, all at once.                                       *)

Ancestors(t, role) ==
  {x \in Roles : \A S \in SUBSET Roles :
     role \in S /\ (\A r \in S : source.parents[t][r] \subseteq S) => x \in S}
RolesGiven(config, t, role) == IF config.role_hierarchy THEN Ancestors(t, role) ELSE {role}

GrantsOf(subject, config) ==
  UNION {UNION {{[role |-> r, permission |-> p, scope |-> a.scope] :
                   p \in source.permissions[subject.tenant][r]} :
                r \in RolesGiven(config, subject.tenant, a.role)} :
         a \in source.assignments[subject]}

Allowed(request) ==
  /\ source.tenants[request.subject.tenant]
  /\ source.members[request.subject]
  /\ \E g \in GrantsOf(request.subject, ConfigOf(request)) :
       /\ matches(g.permission, request.permission, ConfigOf(request).wildcard)
       /\ g.scope.whole \/ \E root \in g.scope.roots :
                             request.target # WholeTenant /\ allows(root, request.target)

-------------------------------------------------------------------------------
(* Properties.                                                              *)

(* Whatever requests fail halfway, are dropped or run side by side, for     *)
(* whichever subjects, tenants and configurations, and whatever the cache   *)
(* loses: an entry whose key was invalidated after the last edit, with no   *)
(* older computation of it still running, holds exactly the grants of that  *)
(* subject under that configuration.  Nothing partial, nothing of another   *)
(* tenant, subject or configuration is ever left there.                     *)
FencedEntriesExact ==
  \A k \in fenced : \A e \in Engines :
    stored[k] # Miss /\ k.config_signature = signature(Config[e]) =>
      stored[k] = GrantsOf([tenant |-> k.tenant, principal |-> k.principal], Config[e])

Answers(c) == InFlight(c) /\ task'[c].at = "answered" /\ task'[c].reason \notin Errors
Right(c) == task'[c].reason = "Allow" <=> Allowed(task[c].request)
FromCache(c) == task[c].at = "cache_get"

(* A request that no edit overtook is answered as the source says, from the *)
(* cache too once its key is fenced.                                        *)
Undisturbed(c) ==
  /\ task[c].changed = {}
  /\ FromCache(c) => KeyOf(task[c].request) \in fenced
AnswersExact == [][\A c \in Tasks : Answers(c) /\ Undisturbed(c) => Right(c)]_vars

(* However stale the cache, a request that begins after its tenant or its   *)
(* membership was deactivated is not allowed.                               *)
InactiveDenied ==
  [][\A c \in Tasks :
       Answers(c) /\ task'[c].reason = "Allow" /\ "status" \notin task[c].changed =>
         /\ source.tenants[task[c].request.subject.tenant]
         /\ source.members[task[c].request.subject]]_vars

(* Every request is answered unless it is dropped.                          *)
RequestsEnd == \A c \in Tasks : InFlight(c) ~> ~ InFlight(c)

(* docs/05-integration-production.md:212: once an invalidation has returned *)
(* no authorization that was withdrawn before it is hit.                    *)
HitAfterInvalidation(c) ==
  FromCache(c) /\ task[c].changed = {} /\ KeyOf(task[c].request) \in cleared
InvalidationTakesEffect ==
  [][\A c \in Tasks : Answers(c) /\ HitAfterInvalidation(c) /\ task'[c].reason = "Allow"
                     => Allowed(task[c].request)]_vars
===============================================================================
