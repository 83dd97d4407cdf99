------------------------------ MODULE ScopePaths ------------------------------
(***************************************************************************)
(* Scope paths as the texts that they are (src/scope.rs): how they are     *)
(* parsed and compared, and the loop of compact_paths, as grants are made, *)
(* stored and read back, and merged into the scope of a query.  A text is  *)
(* the sequence of its bytes.  AccessScopes gives the same scopes as sets  *)
(* of segment sequences.                                                   *)
(***************************************************************************)
EXTENDS Naturals, Sequences, FiniteSets, SequencesExt

CONSTANTS
  Texts,           \* the texts that are given as paths
  Inputs,          \* the lists of grants that are made and merged
  MaxScopePathLen,
  MaxLoads         \* bound on the grants read back

(* The ASCII characters that str::trim takes off.                          *)
WhiteSpace == 9 .. 13 \cup {32}
Slash == 47
(* Digits, letters, and '-', '.' and '_': two of these sort before '/'.     *)
AllowedChars == 48 .. 57 \cup 65 .. 90 \cup 97 .. 122 \cup {45, 46, 95}

(* Texts are ASCII: of others, str::trim also takes off longer white space. *)
ASSUME TextsAssumption ==
  Texts \subseteq Seq(Nat) /\ \A text \in Texts : Range(text) \subseteq 0 .. 127
ASSUME InputsAssumption == Inputs \subseteq Seq([whole : BOOLEAN, texts : SUBSET Texts])

VARIABLES
  grants,     \* what is to be granted
  made,       \* the grants made so far: the whole tenant, or a list of roots
  todo,       \* the paths compact_paths has not come to
  compacted,  \* the paths it has kept, in their order
  phase, result, loads
vars == <<grants, made, todo, compacted, phase, result, loads>>

Pending == [kind |-> "pending", roots |-> << >>]
Error == [kind |-> "error", roots |-> << >>]
NoneScope == [kind |-> "none", roots |-> << >>]
TenantScope == [kind |-> "tenant", roots |-> << >>]
PathsScope(roots) == [kind |-> "paths", roots |-> roots]

-------------------------------------------------------------------------------
(* Texts.                                                                   *)

Trim(text) ==
  LET kept == {i \in 1 .. Len(text) : text[i] \notin WhiteSpace}
  IN  IF kept = {} THEN << >> ELSE SubSeq(text, Min(kept), Max(kept))

(* The segments of a text that goes on with a byte.                         *)
Extended(segments, byte) ==
  IF byte = Slash THEN Append(segments, << >>)
  ELSE [segments EXCEPT ![Len(segments)] = Append(@, byte)]

Split(text) ==
  LET segments[i \in 0 .. Len(text)] ==
        IF i = 0 THEN << << >> >> ELSE Extended(segments[i - 1], text[i])
  IN  segments[Len(text)]

InvalidScope == << >>

parse(value) ==
  LET trimmed == Trim(value)
      segments == Split(trimmed)
  IN  IF \/ trimmed = << >> \/ Len(trimmed) > MaxScopePathLen
         \/ \E i \in DOMAIN segments :
              segments[i] = << >> \/ ~ (Range(segments[i]) \subseteq AllowedChars)
      THEN InvalidScope ELSE trimmed

starts_with(text, prefix) ==
  Len(prefix) <= Len(text) /\ \A i \in 1 .. Len(prefix) : text[i] = prefix[i]

(* Variant: the slash is forgotten.                                         *)
is_ancestor_of_any_prefix(path, other) == path # other /\ starts_with(other, path)

is_ancestor_of(path, other) == path # other /\ starts_with(other, Append(path, Slash))

allows(path, target) == path = target \/ is_ancestor_of(path, target)

(* The order of strings, by their bytes.                                    *)
Less(p, q) ==
  \E i \in 1 .. Len(q) :
    /\ \A j \in 1 .. i - 1 : j <= Len(p) /\ p[j] = q[j]
    /\ i = Len(p) + 1 \/ (i <= Len(p) /\ p[i] < q[i])

-------------------------------------------------------------------------------
(* Making, storing and merging grants.                                      *)

Init ==
  /\ grants \in Inputs
  /\ made = << >> /\ todo = {} /\ compacted = << >>
  /\ phase = "grant" /\ result = Pending /\ loads = 0

More == phase = "grant" /\ Len(made) < Len(grants)
Current == grants[Len(made) + 1]
Parsed(texts) == {parse(text) : text \in texts}
LastRoots == Range(made[Len(made)].roots)
AllRoots == UNION {Range(made[i].roots) : i \in DOMAIN made}

End(scope) ==
  /\ phase' = "done" /\ result' = scope
  /\ UNCHANGED <<grants, made, todo, compacted, loads>>

(* ScopeRoots::new of paths that were parsed one by one.                    *)
Compact(texts, purpose) ==
  IF texts = {} \/ InvalidScope \in Parsed(texts)
  THEN End(Error)
  ELSE /\ phase' = purpose /\ todo' = Parsed(texts) /\ compacted' = << >>
       /\ UNCHANGED <<grants, made, result>>

GrantTenant ==
  /\ More /\ Current.whole
  /\ made' = Append(made, [whole |-> TRUE, roots |-> << >>])
  /\ UNCHANGED <<grants, todo, compacted, phase, result, loads>>

GrantPaths ==
  /\ More /\ ~ Current.whole
  /\ Compact(Current.texts, "new") /\ UNCHANGED loads

(* Variant: in no order, as from a HashSet.                                 *)
Least_any(p) == p \in todo

(* What a BTreeSet yields first.                                            *)
Least(p) == \A q \in todo : ~ Less(q, p)

Take(p) ==
  /\ phase \in {"new", "load", "merge"} /\ Least(p)
  /\ todo' = todo \ {p}
  /\ compacted' = IF \E root \in Range(compacted) : allows(root, p)
                  THEN compacted ELSE Append(compacted, p)
  /\ UNCHANGED <<grants, made, phase, result, loads>>

GrantMade ==
  /\ phase = "new" /\ todo = {}
  /\ made' = Append(made, [whole |-> FALSE, roots |-> compacted])
  /\ phase' = "grant" /\ compacted' = << >>
  /\ UNCHANGED <<grants, todo, result, loads>>

(* A grant that was written by serde is read back, before the next is made. *)
Deserialize ==
  /\ phase = "grant" /\ made # << >> /\ ~ made[Len(made)].whole /\ loads < MaxLoads
  /\ loads' = loads + 1
  /\ Compact(LastRoots, "load")

Deserialized ==
  /\ phase = "load" /\ todo = {}
  /\ made' = [made EXCEPT ![Len(made)].roots = compacted]
  /\ phase' = "grant" /\ compacted' = << >>
  /\ UNCHANGED <<grants, todo, result, loads>>

(* Variant: what was gathered is returned as it is.                         *)
Merge_uncompacted ==
  /\ phase = "grant" /\ Len(made) = Len(grants)
  /\ End(IF \E i \in DOMAIN made : made[i].whole THEN TenantScope
         ELSE IF AllRoots = {} THEN NoneScope
         ELSE PathsScope(FlattenSeq([i \in DOMAIN made |-> made[i].roots])))

(* AccessScope::merge.                                                      *)
Merge ==
  /\ phase = "grant" /\ Len(made) = Len(grants)
  /\ IF \E i \in DOMAIN made : made[i].whole THEN End(TenantScope)
     ELSE IF AllRoots = {} THEN End(NoneScope)
     ELSE /\ phase' = "merge" /\ todo' = AllRoots /\ compacted' = << >>
          /\ UNCHANGED <<grants, made, result, loads>>

Merged == phase = "merge" /\ todo = {} /\ End(PathsScope(compacted))

Next ==
  \/ GrantTenant \/ GrantPaths \/ GrantMade \/ Deserialize \/ Deserialized
  \/ Merge \/ Merged \/ \E p \in todo : Take(p)

Spec == Init /\ [][Next]_vars

allows_path(scope, target) ==
  \/ scope.kind = "tenant"
  \/ \E root \in Range(scope.roots) : allows(root, target)

-------------------------------------------------------------------------------
(* Properties.                                                              *)

(* A path lies below another if it goes on after it with a slash.           *)
Below(target, root) ==
  \/ target = root
  \/ /\ Len(target) > Len(root) /\ target[Len(root) + 1] = Slash
     /\ \A i \in 1 .. Len(root) : target[i] = root[i]

ValidPaths == {text \in Texts : parse(text) = text /\ text # InvalidScope}
GrantCovers(grant, target) ==
  grant.whole \/ \E root \in Parsed(grant.texts) : Below(target, root)

(* Compacting, storing and merging lose nothing and add nothing: a grant    *)
(* allows the paths below the roots that it was given, and the merged scope *)
(* those that one of the grants allows.                                     *)
CoverageKept ==
  \A target \in ValidPaths :
    /\ \A i \in DOMAIN made :
         (made[i].whole \/ \E root \in Range(made[i].roots) : allows(root, target))
           <=> GrantCovers(grants[i], target)
    /\ phase = "done" /\ result # Error =>
         (allows_path(result, target) <=> \E i \in DOMAIN grants : GrantCovers(grants[i], target))

(* No root that is kept lies below another one, although paths that are not *)
(* below it may sort between a path and its descendants.                    *)
NoneBelow(roots) ==
  \A i, j \in DOMAIN roots : Below(roots[i], roots[j]) => i = j

NothingRedundant ==
  /\ \A i \in DOMAIN made : NoneBelow(made[i].roots)
  /\ NoneBelow(result.roots)

(* By segments, the scopes are those of AccessScopes; and their roots are   *)
(* sorted, so equal scopes are equal values and a grant that is read back   *)
(* is the grant that was written.                                           *)
Scopes == INSTANCE AccessScopes WITH Star <- "*"
Segments(paths) == {Split(path) : path \in paths}
Granted(grant) ==
  IF grant.whole THEN Scopes!TenantScope
  ELSE Scopes!Paths(Scopes!compact_paths(Segments(Parsed(grant.texts))))
Sorted(roots) == \A i, j \in DOMAIN roots : i < j => Less(roots[i], roots[j])
Agrees(whole, roots, scope) ==
  Sorted(roots) /\ scope = [whole |-> whole, roots |-> Segments(Range(roots))]

ScopesAgree ==
  /\ \A i \in DOMAIN made : Agrees(made[i].whole, made[i].roots, Granted(grants[i]))
  /\ phase = "done" /\ result # Error =>
       Agrees(result = TenantScope, result.roots,
              Scopes!merge({Granted(grants[i]) : i \in DOMAIN grants}))
===============================================================================
