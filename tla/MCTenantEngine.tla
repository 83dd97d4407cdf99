---------------------------- MODULE MCTenantEngine ----------------------------
(* Instances of TenantEngine for TLC.                                       *)
EXTENDS TenantEngine

CONSTANTS c1, c2, a1, t1, t2, p1, r1, r2, r3, flat, deep

(* An engine without and one with inheritance and wildcards.                *)
MCConfig ==
  [e \in Engines |-> [role_hierarchy |-> e = deep, wildcard |-> e = deep, max_depth |-> 2]]

Subject(t) == [tenant |-> t, principal |-> p1]
Permission(resource, action) == [resource |-> resource, action |-> action]
Read == Permission("doc", "read")
Anything == Permission("doc", Star)
Shop == <<"shop">>
Desk == <<"shop", "desk">>
Request(e, t, target) ==
  [engine |-> e, subject |-> Subject(t), permission |-> Read, target |-> target]
Assigned(role, scope) == [role |-> role, scope |-> scope]

TaskSymmetry == Permutations(Tasks)

-------------------------------------------------------------------------------
(* A source nobody edits: two tenants whose roles have the same names but   *)
(* other permissions, a principal that is a member of both; graphs with and *)
(* without a cycle; overlapping scopes.                                     *)

QuietRequests ==
  {Request(flat, t1, WholeTenant), Request(deep, t1, Desk), Request(deep, t2, WholeTenant)}
QuietPermissions == {Read, Anything}

Each(of_r1, of_r2, of_r3) ==
  [r \in Roles |-> IF r = r1 THEN of_r1 ELSE IF r = r2 THEN of_r2 ELSE of_r3]
Diamond == Each({r2, r3}, {r3}, {})
Loop == Each({r2}, {r1}, {})
QuietSources ==
  {[tenants |-> (t1 :> TRUE) @@ (t2 :> active),
    members |-> (Subject(t1) :> active) @@ (Subject(t2) :> TRUE),
    assignments |-> (Subject(t1) :> held) @@ (Subject(t2) :> {Assigned(r1, TenantScope)}),
    permissions |-> (t1 :> Each({}, {}, {Read})) @@ (t2 :> Each({Anything}, {}, {})),
    parents |-> (t1 :> graph) @@ (t2 :> Each({}, {}, {}))] :
     active \in BOOLEAN, graph \in {Diamond, Loop},
     held \in {{Assigned(r1, Paths({Shop}))},
               {Assigned(r1, Paths({Desk})), Assigned(r3, Paths({Shop}))}}}

-------------------------------------------------------------------------------
(* One tenant, edited while requests run and invalidations return.          *)

EditedRequests == {Request(deep, t1, Shop)}
EditedAssignments == {Assigned(r1, Paths({Shop}))}
EditedPermissions == {Read}
EditedSources ==
  {[tenants |-> (t1 :> TRUE), members |-> (Subject(t1) :> TRUE),
    assignments |-> (Subject(t1) :> EditedAssignments),
    permissions |-> (t1 :> Each({}, {Read}, {})),
    parents |-> (t1 :> Each({r2}, {}, {}))]}
===============================================================================
