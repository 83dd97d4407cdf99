---------------------------- MODULE PlatformScopes ----------------------------
(***************************************************************************)
(* What a platform role assignment grants and what a query adds up to      *)
(* (src/platform/scope.rs).  A scope has a kind, the tenants of a tenant   *)
(* set, and the entries of tenant paths: a set of roots per tenant.        *)
(***************************************************************************)
EXTENDS AccessScopes

NoEntries == [t \in {} |-> {}]
ScopeOf(kind, tenants, entries) == [kind |-> kind, tenants |-> tenants, entries |-> entries]

Platform == ScopeOf("platform", {}, NoEntries)
AllTenants == ScopeOf("all_tenants", {}, NoEntries)
TenantSet(tenants) == ScopeOf("tenants", tenants, NoEntries)
TenantPaths(entries) == ScopeOf("tenant_paths", {}, entries)
NoTenants == ScopeOf("none", {}, NoEntries)
Mixed == ScopeOf("mixed", {}, NoEntries)   \* the error of merge_tenant_data

(* No tenant set, no entries and no roots of a tenant are empty; roots that *)
(* another one covers have been dropped.                                    *)
RootSets(ScopePaths) == {roots \in (SUBSET ScopePaths) \ {{}} : compact_paths(roots) = roots}
PlatformScopeType(Tenants, ScopePaths) ==
  LET some == (SUBSET Tenants) \ {{}} IN
  {Platform, AllTenants}
  \cup {TenantSet(tenants) : tenants \in some}
  \cup {TenantPaths(entries) : entries \in UNION {[T -> RootSets(ScopePaths)] : T \in some}}

(* Variant: a later entry of a tenant replaces an earlier one.              *)
TenantScopeRoots_last(all) ==
  [t \in UNION {DOMAIN e : e \in all} |->
     (CHOOSE e \in all : t \in DOMAIN e)[t]]

(* The entries of one tenant become one, without covered roots.             *)
TenantScopeRoots(all) ==
  [t \in UNION {DOMAIN e : e \in all} |->
     compact_paths(UNION {e[t] : e \in {x \in all : t \in DOMAIN x}})]

(* Variant: tenant sets win over paths.                                     *)
merge_unmixed(scopes) ==
  LET tenants == UNION {s.tenants : s \in scopes}
      entries == TenantScopeRoots({s.entries : s \in scopes})
  IN  IF AllTenants \in scopes THEN AllTenants
      ELSE IF tenants # {} THEN TenantSet(tenants)
      ELSE IF DOMAIN entries = {} THEN NoTenants ELSE TenantPaths(entries)

(* TenantDataAccessScope::merge: all tenants end the loop at once, wherever *)
(* they come; only then tenant sets and paths are found to be mixed.        *)
merge_tenant_data(scopes) ==
  LET tenants == UNION {s.tenants : s \in scopes}
      entries == TenantScopeRoots({s.entries : s \in scopes})
  IN  IF AllTenants \in scopes THEN AllTenants
      ELSE IF tenants # {} /\ DOMAIN entries # {} THEN Mixed
      ELSE IF tenants # {} THEN TenantSet(tenants)
      ELSE IF DOMAIN entries = {} THEN NoTenants ELSE TenantPaths(entries)

(* Variant: a tenant some of whose paths are granted counts as granted.     *)
allows_tenant_by_path(scope, tenant) ==
  scope.kind = "all_tenants" \/ tenant \in scope.tenants \/ tenant \in DOMAIN scope.entries

allows_tenant(scope, tenant) ==
  scope.kind = "all_tenants" \/ tenant \in scope.tenants

allows_tenant_path(scope, tenant, target) ==
  \/ scope.kind = "all_tenants"
  \/ tenant \in scope.tenants
  \/ /\ tenant \in DOMAIN scope.entries
     /\ \E path \in scope.entries[tenant] : allows(path, target)
===============================================================================
