--------------------------- MODULE MCPlatformEngine ---------------------------
(* An instance of PlatformEngine for TLC.                                   *)
EXTENDS PlatformEngine, TLC

CONSTANTS t1, t2, p1, r1, r2

Permission(resource, action) == [resource |-> resource, action |-> action]
Read == Permission("doc", "read")
Shop == <<"shop">>
Desk == <<"shop", "desk">>
Till == <<"shop", "till">>
MCScopePaths == {Shop, Desk, Till}

MCEngines ==
  {[role_hierarchy |-> FALSE, wildcard |-> FALSE], [role_hierarchy |-> TRUE, wildcard |-> TRUE]}

MCRequests ==
  {[op |-> op, principal |-> p1, permission |-> Read, tenant |-> t1, target |-> Desk] :
     op \in {"can_platform", "can_access_tenant"}}
  \cup
  {[op |-> "can_access_tenant_scope", principal |-> p1, permission |-> Read, tenant |-> t1,
    target |-> target] : target \in {Desk, Till}}

Assigned(role, granted) == [role |-> role, scope |-> granted]
OfDesk == Assigned(r1, TenantPaths(t1 :> {Desk}))
OfTill == Assigned(r2, TenantPaths((t1 :> {Till}) @@ (t2 :> {Shop})))
OfTenant == Assigned(r2, TenantSet({t1}))
OfAll == Assigned(r1, AllTenants)
OfPlatform == Assigned(r1, Platform)

MCAssignmentPool == {OfTenant}

Held(assignments, of_r1, of_r2, parents_of_r1) ==
  [principals |-> (p1 :> TRUE), assignments |-> (p1 :> assignments),
   permissions |-> (r1 :> of_r1) @@ (r2 :> of_r2),
   parents |-> (r1 :> parents_of_r1) @@ (r2 :> {})]
ReadAny == Permission(Star, "read")

(* Roles that hold the permission, inherit it or match by wildcard; scopes  *)
(* of each kind alone and with another.                                     *)
MCSources ==
  {Held({OfDesk, OfTill}, {Read}, {Read}, {}),
   Held({OfDesk, OfTill}, {}, {Read}, {r2}),
   Held({OfDesk, OfTenant}, {Read}, {Read}, {}),
   Held({OfPlatform, OfTenant}, {ReadAny}, {Read}, {r2}),
   Held({OfDesk, OfAll}, {ReadAny}, {}, {})}
MCPermissionPool == {Read, ReadAny}
===============================================================================
