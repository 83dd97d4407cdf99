----------------------------- MODULE RoleHierarchy -----------------------------
(***************************************************************************)
(* One expansion of a role (expand_roles in src/role_hierarchy.rs) against *)
(* a source whose inheritance graph may be edited between any two of the   *)
(* walk's reads.  Each read of parent_roles is an await; a step is what    *)
(* runs up to the next read, or one turn of the loop that reads nothing.   *)
(***************************************************************************)
EXTENDS ExpandRoles

CONSTANTS
  MaxDepth,       \* EngineConfig::max_role_depth
  Roles,
  EditableRoles   \* the roles whose parents are edited while the walk runs

ASSUME MaxDepthAssumption == MaxDepth \in Nat
ASSUME EditableAssumption == EditableRoles \subseteq Roles

VARIABLES
  parents,   \* the source: the direct parents of each role
  root,      \* the role to expand
  walk,      \* the local variables of expand_from
  outcome,   \* where the call is: before the first read, in the loop, returned
  blamed     \* the role the error names (root if none)

vars == <<parents, root, walk, outcome, blamed>>

Errors == {"cycle", "depth", "source_error"}
Outcomes == {"entering", "walking", "ok"} \cup Errors

FrameType == [role : Roles, depth : 0 .. MaxDepth, rest : SUBSET Roles]
Walks == [stack : Seq(FrameType), visiting : SUBSET Roles, visited : SUBSET Roles,
          output : Seq(Roles)]

TypeOK ==
  /\ parents \in [Roles -> SUBSET Roles]
  /\ root \in Roles
  /\ walk \in Walks
  /\ outcome \in Outcomes
  /\ blamed \in Roles

(* Before the first read: visiting and output hold the root, no frame yet.  *)
Init ==
  /\ parents \in [Roles -> SUBSET Roles]
  /\ root \in Roles
  /\ walk = [stack |-> << >>, visiting |-> {root}, visited |-> {}, output |-> <<root>>]
  /\ outcome = "entering"
  /\ blamed = root

Enter ==
  /\ outcome = "entering"
  /\ walk' = NewWalk(root, parents[root])
  /\ outcome' = "walking"
  /\ UNCHANGED <<parents, root, blamed>>

Drawing(p) == outcome = "walking" /\ walk.stack # << >> /\ p \in Top(walk).rest

Fail(error, role) ==
  /\ outcome' = error
  /\ blamed' = role
  /\ UNCHANGED <<parents, root, walk>>

DepthExceeded(p) == Drawing(p) /\ TooDeep(walk, MaxDepth) /\ Fail("depth", p)

CycleDetected(p) ==
  Drawing(p) /\ ~ TooDeep(walk, MaxDepth) /\ InProgress(walk, p) /\ Fail("cycle", p)

SkipVisited(p) ==
  /\ Drawing(p) /\ ~ TooDeep(walk, MaxDepth) /\ ~ InProgress(walk, p) /\ Visited(walk, p)
  /\ walk' = Skip(walk, p)
  /\ UNCHANGED <<parents, root, outcome, blamed>>

Fresh(p) ==
  Drawing(p) /\ ~ TooDeep(walk, MaxDepth) /\ ~ InProgress(walk, p) /\ ~ Visited(walk, p)

Visit(p) ==
  /\ Fresh(p)
  /\ walk' = Descend(walk, p, parents[p])
  /\ UNCHANGED <<parents, root, outcome, blamed>>

LeaveRole ==
  /\ outcome = "walking" /\ walk.stack # << >> /\ Top(walk).rest = {}
  /\ walk' = Leave(walk)
  /\ UNCHANGED <<parents, root, outcome, blamed>>

Finish ==
  /\ outcome = "walking" /\ walk.stack = << >>
  /\ outcome' = "ok"
  /\ UNCHANGED <<parents, root, walk, blamed>>

(* A read of parent_roles may fail; the error is returned at once.          *)
ReadFails ==
  /\ outcome = "entering" \/ \E p \in Roles : Fresh(p)
  /\ Fail("source_error", root)

Step ==
  \/ Enter \/ LeaveRole \/ Finish \/ ReadFails
  \/ \E p \in Roles : DepthExceeded(p) \/ CycleDetected(p) \/ SkipVisited(p) \/ Visit(p)

(* Someone else replaces the parents of a role.                             *)
Edit ==
  \E r \in EditableRoles : \E ps \in SUBSET Roles :
    /\ ps # parents[r]
    /\ parents' = [parents EXCEPT ![r] = ps]
    /\ UNCHANGED <<root, walk, outcome, blamed>>

Next == Step \/ Edit

Spec == Init /\ [][Next]_vars

(* The task that awaits the expansion is polled until it is done.           *)
FairSpec == Spec /\ WF_vars(Step)

-------------------------------------------------------------------------------
(* The graph.                                                               *)

Closed(S) == \A r \in S : parents[r] \subseteq S
(* The roles r inherits from, r included: what every closed set has.        *)
Ancestors(r) == {x \in Roles : \A S \in SUBSET Roles : r \in S /\ Closed(S) => x \in S}
OnCycle(r) == \E p \in parents[r] : r \in Ancestors(p)

(* The roles that inheritance chains of exactly n steps from r end in.      *)
ChainEnds(r, n) ==
  LET ends[i \in 0 .. n] ==
        IF i = 0 THEN {r} ELSE UNION {parents[x] : x \in ends[i - 1]}
  IN  ends[n]

-------------------------------------------------------------------------------
(* Properties.                                                              *)

StackRoles == {walk.stack[i].role : i \in 1 .. Len(walk.stack)}

(* However the graph changes under the walk: visiting is exactly the chain  *)
(* of roles on the stack, without repetition and each one deeper than the   *)
(* last; the chain never exceeds the depth limit; and the output lists each *)
(* role entered exactly once, so no role's permissions are collected twice. *)
StackIsChain ==
  outcome = "walking" =>
    /\ walk.visiting = StackRoles
    /\ \A i, j \in 1 .. Len(walk.stack) :
         walk.stack[i].role = walk.stack[j].role => i = j
    /\ \A i \in 1 .. Len(walk.stack) : walk.stack[i].depth = i - 1
    /\ Len(walk.stack) <= MaxDepth + 1

OutputIsVisited ==
  /\ IsInjective(walk.output)
  /\ Range(walk.output) = walk.visiting \cup walk.visited
  /\ walk.visiting \cap walk.visited = {}

(* A successful expansion of an unchanging graph is complete and exact: the *)
(* role and everything it inherits from, whatever order the source lists    *)
(* parents in and although visited roles are skipped.                       *)
ExpandsToAncestors ==
  outcome = "ok" => Range(walk.output) = Ancestors(root)

(* No cycle above the role goes unnoticed.                                  *)
AcceptedIsAcyclic ==
  outcome = "ok" => \A r \in Ancestors(root) : ~ OnCycle(r)

(* A cycle error tells the truth: it names a role on a cycle above the      *)
(* root, not one that is merely reached along two paths.                    *)
CycleErrorIsReal == outcome = "cycle" => blamed \in Ancestors(root) /\ OnCycle(blamed)

(* A depth error names a role that a chain longer than the limit ends in.   *)
DepthErrorIsReal == outcome = "depth" => blamed \in ChainEnds(root, MaxDepth + 1)

(* No role is inherited from farther away than the depth limit.             *)
InheritedWithinDepth ==
  outcome = "ok" =>
    \A r \in Range(walk.output) : \E n \in 0 .. MaxDepth : r \in ChainEnds(root, n)

(* The expansion ends, even of a graph that is edited all the time.         *)
Terminates == <>(outcome \in {"ok"} \cup Errors)

(* docs/08-testing-benchmark.md:83: a chain longer than max_role_depth is   *)
(* an error.                                                                *)
DepthLimitEnforced == outcome = "ok" => ChainEnds(root, MaxDepth + 1) = {}
===============================================================================
