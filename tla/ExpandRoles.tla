------------------------------ MODULE ExpandRoles ------------------------------
(***************************************************************************)
(* The local state of expand_from (src/role_hierarchy.rs), the iterative   *)
(* depth-first walk up the role inheritance graph, and its steps.  A frame *)
(* is a role, its depth and the parents its iterator has yet to deliver;   *)
(* the source lists them in no particular order, so they are a set and the *)
(* next one is any of them.                                                *)
(***************************************************************************)
EXTENDS Naturals, Sequences, FiniteSets, Functions

Frame(role, depth, parents) == [role |-> role, depth |-> depth, rest |-> parents]

NewWalk(root, parents) ==
  [stack |-> <<Frame(root, 0, parents)>>, visiting |-> {root}, visited |-> {},
   output |-> <<root>>]

Top(w) == w.stack[Len(w.stack)]
Below(w) == SubSeq(w.stack, 1, Len(w.stack) - 1)

(* The top frame's iterator delivers p and the frame goes back on the stack.*)
Drawn(w, p) == Append(Below(w), Frame(Top(w).role, Top(w).depth, Top(w).rest \ {p}))

(* Variants: the limit is off by one, either way.                           *)
TooDeep_late(w, max_depth) == Top(w).depth > max_depth
TooDeep_early(w, max_depth) == Top(w).depth + 1 >= max_depth

TooDeep(w, max_depth) == Top(w).depth + 1 > max_depth
InProgress(w, p) == p \in w.visiting

(* Variant: visited roles are entered again.                                *)
Visited_never(w, p) == FALSE

Visited(w, p) == p \in w.visited

(* Variant: the frame goes back with the iterator as it was.                *)
Skip_undrawn(w, p) == w

Skip(w, p) ==
  [stack |-> Drawn(w, p), visiting |-> w.visiting, visited |-> w.visited,
   output |-> w.output]

(* Variants: the role is not put out; it counts as visited from the start.  *)
Descend_unlisted(w, p, parents) ==
  [stack |-> Append(Drawn(w, p), Frame(p, Top(w).depth + 1, parents)),
   visiting |-> w.visiting \cup {p}, visited |-> w.visited, output |-> w.output]
Descend_visited(w, p, parents) ==
  [stack |-> Append(Drawn(w, p), Frame(p, Top(w).depth + 1, parents)),
   visiting |-> w.visiting, visited |-> w.visited \cup {p},
   output |-> Append(w.output, p)]

Descend(w, p, parents) ==
  [stack |-> Append(Drawn(w, p), Frame(p, Top(w).depth + 1, parents)),
   visiting |-> w.visiting \cup {p}, visited |-> w.visited,
   output |-> Append(w.output, p)]

(* Variants: the role stays in progress; its frame goes back on the stack.  *)
Leave_visiting(w) ==
  [stack |-> Below(w), visiting |-> w.visiting,
   visited |-> w.visited \cup {Top(w).role}, output |-> w.output]
Leave_again(w) == w

Leave(w) ==
  [stack |-> Below(w), visiting |-> w.visiting \ {Top(w).role},
   visited |-> w.visited \cup {Top(w).role}, output |-> w.output]
===============================================================================
