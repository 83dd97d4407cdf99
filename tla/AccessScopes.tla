----------------------------- MODULE AccessScopes -----------------------------
(***************************************************************************)
(* The data that decisions are made of (src/permission.rs, src/scope.rs,   *)
(* src/engine.rs): a permission is a resource and an action, each perhaps  *)
(* the wildcard; a scope path is the sequence of its segments; a scope is  *)
(* the whole tenant or a set of root paths, none of them if empty.         *)
(***************************************************************************)
EXTENDS Naturals, Sequences, SequencesExt

CONSTANT Star   \* the part of a permission that matches any other

TenantScope == [whole |-> TRUE, roots |-> {}]
NoScope == [whole |-> FALSE, roots |-> {}]
Paths(roots) == [whole |-> FALSE, roots |-> roots]

has_wildcard(p) == p.resource = Star \/ p.action = Star

matches(granted, required, enable_wildcard) ==
  \/ ~ enable_wildcard /\ ~ has_wildcard(granted) /\ granted = required
  \/ /\ enable_wildcard
     /\ granted.resource \in {Star, required.resource}
     /\ granted.action \in {Star, required.action}

(* A path allows itself and what lies below it.                             *)
allows(path, target) == IsPrefix(path, target)

(* Without the paths that another one covers: sorted paths are kept unless  *)
(* a kept one allows them, and a path sorts after its ancestors.            *)
compact_paths(paths) == {p \in paths : \A q \in paths : allows(q, p) => q = p}

merge(scopes) ==
  IF \E s \in scopes : s.whole
  THEN TenantScope
  ELSE Paths(compact_paths(UNION {s.roots : s \in scopes}))

IsNone(scope) == ~ scope.whole /\ scope.roots = {}
allows_path(scope, target) == scope.whole \/ \E root \in scope.roots : allows(root, target)

(* The decision on a request for target; a request for the whole tenant     *)
(* names no path.                                                           *)
WholeTenant == << >>

explain_tenant(scope) ==
  IF scope.whole THEN "Allow"
  ELSE IF IsNone(scope) THEN "PermissionMissing" ELSE "TargetScopeRequired"

explain_access_scope(scope, target) ==
  IF IsNone(scope) THEN "PermissionMissing"
  ELSE IF allows_path(scope, target) THEN "Allow" ELSE "ScopeDenied"

Decision(scope, target) ==
  IF target = WholeTenant THEN explain_tenant(scope)
  ELSE explain_access_scope(scope, target)
===============================================================================
