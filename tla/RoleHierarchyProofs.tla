-------------------------- MODULE RoleHierarchyProofs --------------------------
(***************************************************************************)
(* Proofs about RoleHierarchy for any set of roles and any depth limit:    *)
(* the shape of the walk, for graphs edited while it runs; and what a      *)
(* successful expansion of an unchanging graph returns.                    *)
(***************************************************************************)
EXTENDS RoleHierarchy, SequenceLemmas, SequenceTheorems, TLAPS

Height(w) == Len(w.stack)
RoleAt(w, i) == w.stack[i].role
DepthAt(w, i) == w.stack[i].depth

(* The stack is a chain of the roles in progress.                           *)
ChainOK(w) ==
  /\ w.visiting = {RoleAt(w, i) : i \in 1 .. Height(w)}
  /\ \A i, j \in 1 .. Height(w) : RoleAt(w, i) = RoleAt(w, j) => i = j
  /\ \A i \in 1 .. Height(w) : DepthAt(w, i) = i - 1
  /\ Height(w) <= MaxDepth + 1

OutputOK(w) ==
  /\ IsInjective(w.output)
  /\ Range(w.output) = w.visiting \cup w.visited
  /\ w.visiting \cap w.visited = {}

ShapeInv ==
  /\ TypeOK
  /\ outcome = "walking" => ChainOK(walk)
  /\ OutputOK(walk)

-------------------------------------------------------------------------------
(* The steps of the walk.                                                   *)

LEMMA DrawnFacts ==
  ASSUME NEW w \in Walks, w.stack # << >>, NEW p \in Roles
  PROVE  /\ Len(w.stack) \in Nat \ {0} /\ Top(w) \in FrameType
         /\ Below(w) \in Seq(FrameType) /\ Len(Below(w)) = Len(w.stack) - 1
         /\ \A i \in 1 .. Len(w.stack) - 1 : Below(w)[i] = w.stack[i]
         /\ Drawn(w, p) \in Seq(FrameType) /\ Len(Drawn(w, p)) = Len(w.stack)
         /\ \A i \in 1 .. Len(w.stack) - 1 : Drawn(w, p)[i] = w.stack[i]
         /\ Drawn(w, p)[Len(w.stack)] = Frame(Top(w).role, Top(w).depth, Top(w).rest \ {p})
<1> DEFINE n == Len(w.stack)
           f == Frame(Top(w).role, Top(w).depth, Top(w).rest \ {p})
<1>1. w.stack \in Seq(FrameType) /\ n \in Nat \ {0}
  BY DEF Walks
<1>2. Top(w) \in FrameType
  BY <1>1 DEF Top
<1>3. /\ Below(w) \in Seq(FrameType) /\ Len(Below(w)) = n - 1
      /\ \A i \in 1 .. n - 1 : Below(w)[i] = w.stack[i]
  <2>1. \A i \in 1 .. n - 1 : w.stack[i] \in FrameType
    BY <1>1
  <2> QED
    BY <1>1, <2>1, SubSeqProperties DEF Below
<1>4. f \in FrameType
  BY <1>2 DEF Frame, FrameType
<1>5. /\ Append(Below(w), f) \in Seq(FrameType) /\ Len(Append(Below(w), f)) = n
      /\ \A i \in 1 .. n - 1 : Append(Below(w), f)[i] = w.stack[i]
      /\ Append(Below(w), f)[n] = f
  BY <1>1, <1>3, <1>4, AppendProperties
<1> QED
  BY <1>1, <1>2, <1>3, <1>5 DEF Drawn

(* Drawing a parent from the top frame changes nothing but its iterator.    *)
LEMMA DrawnRoles ==
  ASSUME NEW w \in Walks, w.stack # << >>, NEW p \in Roles
  PROVE  \A i \in 1 .. Len(w.stack) :
           /\ Drawn(w, p)[i].role = w.stack[i].role
           /\ Drawn(w, p)[i].depth = w.stack[i].depth
<1>1. Drawn(w, p)[Len(w.stack)] = Frame(Top(w).role, Top(w).depth, Top(w).rest \ {p})
      /\ Len(w.stack) \in Nat \ {0}
      /\ \A i \in 1 .. Len(w.stack) - 1 : Drawn(w, p)[i] = w.stack[i]
  BY DrawnFacts
<1> QED
  BY <1>1 DEF Frame, Top

LEMMA NewWalkShape ==
  ASSUME NEW r \in Roles, NEW ps \in SUBSET Roles
  PROVE  NewWalk(r, ps) \in Walks /\ ChainOK(NewWalk(r, ps)) /\ OutputOK(NewWalk(r, ps))
<1> DEFINE w == NewWalk(r, ps)
<1>1. Frame(r, 0, ps) \in FrameType /\ Frame(r, 0, ps).role = r /\ Frame(r, 0, ps).depth = 0
  BY MaxDepthAssumption DEF Frame, FrameType
<1>2. /\ w.stack = <<Frame(r, 0, ps)>> /\ w.visiting = {r} /\ w.visited = {}
      /\ w.output = <<r>>
  BY DEF NewWalk
<1>3. w \in Walks
  BY <1>1 DEF NewWalk, Walks
<1>4. Len(w.stack) = 1 /\ w.stack[1] = Frame(r, 0, ps)
  BY <1>2
<1>5. ChainOK(w)
  <2>1. Height(w) = 1 /\ RoleAt(w, 1) = r /\ DepthAt(w, 1) = 0 /\ w.visiting = {r}
    BY <1>1, <1>2, <1>4 DEF Height, RoleAt, DepthAt
  <2> HIDE DEF w
  <2> QED
    BY <2>1, MaxDepthAssumption DEF ChainOK
<1>6. OutputOK(w)
  BY <1>2 DEF OutputOK, IsInjective, Range
<1> QED
  BY <1>3, <1>5, <1>6

LEMMA SkipShape ==
  ASSUME NEW w \in Walks, w.stack # << >>, NEW p \in Roles, ChainOK(w), OutputOK(w)
  PROVE  Skip(w, p) \in Walks /\ ChainOK(Skip(w, p)) /\ OutputOK(Skip(w, p))
<1> DEFINE x == Skip(w, p)
<1>1. /\ x.stack = Drawn(w, p) /\ x.visiting = w.visiting /\ x.visited = w.visited
      /\ x.output = w.output
  BY DEF Skip
<1>2. Height(x) = Height(w) /\ Height(w) \in Nat
  BY <1>1, DrawnFacts DEF Height
<1>3. \A i \in 1 .. Height(w) : RoleAt(x, i) = RoleAt(w, i) /\ DepthAt(x, i) = DepthAt(w, i)
  BY <1>1, DrawnRoles DEF Height, RoleAt, DepthAt
<1>4. x \in Walks
  BY DrawnFacts DEF Skip, Walks
<1> HIDE DEF x
<1>5. ChainOK(x)
  <2>1. x.visiting = {RoleAt(x, i) : i \in 1 .. Height(x)}
    <3>1. {RoleAt(x, i) : i \in 1 .. Height(w)} = {RoleAt(w, i) : i \in 1 .. Height(w)}
      BY <1>3
    <3> QED
      BY <1>1, <1>2, <3>1 DEF ChainOK
  <2>2. \A i, j \in 1 .. Height(x) : RoleAt(x, i) = RoleAt(x, j) => i = j
    BY <1>2, <1>3 DEF ChainOK
  <2>3. /\ \A i \in 1 .. Height(x) : DepthAt(x, i) = i - 1
        /\ Height(x) <= MaxDepth + 1
    BY <1>2, <1>3 DEF ChainOK
  <2> QED
    BY <2>1, <2>2, <2>3 DEF ChainOK
<1>6. OutputOK(x)
  BY <1>1 DEF OutputOK
<1> QED
  BY <1>4, <1>5, <1>6 DEF x

(* Entering a role that is neither in progress nor visited extends the      *)
(* chain by it and the output by it.                                        *)
LEMMA DescendShape ==
  ASSUME NEW w \in Walks, w.stack # << >>, NEW p \in Roles, NEW ps \in SUBSET Roles,
         ChainOK(w), OutputOK(w),
         ~ TooDeep(w, MaxDepth), ~ InProgress(w, p), ~ Visited(w, p)
  PROVE  /\ Descend(w, p, ps) \in Walks
         /\ ChainOK(Descend(w, p, ps)) /\ OutputOK(Descend(w, p, ps))
<1> DEFINE x == Descend(w, p, ps)
           n == Len(w.stack)
           d == Drawn(w, p)
           f == Frame(p, Top(w).depth + 1, ps)
<1>1. /\ x.stack = Append(d, f) /\ x.visiting = w.visiting \cup {p}
      /\ x.visited = w.visited /\ x.output = Append(w.output, p)
  BY DEF Descend
<1>2. /\ n \in Nat \ {0} /\ d \in Seq(FrameType) /\ Len(d) = n /\ Top(w) \in FrameType
      /\ Top(w) = w.stack[n]
  BY DrawnFacts DEF Top
<1>3. /\ f \in FrameType /\ f.role = p /\ f.depth = Top(w).depth + 1
  BY <1>2, MaxDepthAssumption DEF Frame, FrameType, TooDeep
<1>4. /\ x.stack \in Seq(FrameType) /\ Len(x.stack) = n + 1
      /\ \A i \in 1 .. n : x.stack[i] = d[i]
      /\ x.stack[n + 1] = f
  BY <1>1, <1>2, <1>3, AppendProperties
<1>5. /\ Height(w) = n /\ Height(x) = n + 1
      /\ \A i \in 1 .. n : RoleAt(x, i) = RoleAt(w, i) /\ DepthAt(x, i) = DepthAt(w, i)
      /\ RoleAt(x, n + 1) = p /\ DepthAt(x, n + 1) = DepthAt(w, n) + 1
  BY <1>2, <1>3, <1>4, DrawnRoles DEF Height, RoleAt, DepthAt
<1>6. w.output \in Seq(Roles) /\ x.output \in Seq(Roles)
  BY <1>1, AppendProperties DEF Walks
<1>7. x \in Walks
  <2>1. x = [stack |-> x.stack, visiting |-> x.visiting, visited |-> x.visited,
             output |-> x.output]
    BY DEF Descend
  <2>2. x.visiting \in SUBSET Roles /\ x.visited \in SUBSET Roles
    BY <1>1 DEF Walks
  <2> QED
    BY <1>4, <1>6, <2>1, <2>2 DEF Walks
<1>8. p \notin w.visiting /\ p \notin w.visited /\ DepthAt(w, n) + 1 <= MaxDepth
  BY <1>2, MaxDepthAssumption DEF InProgress, Visited, TooDeep, FrameType, DepthAt
<1> HIDE DEF x, d, f
<1>9. ChainOK(x)
  <2>1. \A i \in 1 .. n : RoleAt(w, i) \in w.visiting
    BY <1>5 DEF ChainOK
  <2>2. x.visiting = {RoleAt(x, i) : i \in 1 .. n + 1}
    <3>1. w.visiting = {RoleAt(w, i) : i \in 1 .. n}
      BY <1>5 DEF ChainOK
    <3>2. {RoleAt(w, i) : i \in 1 .. n} = {RoleAt(x, i) : i \in 1 .. n}
      BY <1>5
    <3>3. {RoleAt(x, i) : i \in 1 .. n + 1} = {RoleAt(x, i) : i \in 1 .. n} \cup {RoleAt(x, n + 1)}
      BY <1>2
    <3> QED
      BY <1>1, <1>5, <3>1, <3>2, <3>3
  <2>3. \A i, j \in 1 .. n + 1 : RoleAt(x, i) = RoleAt(x, j) => i = j
    <3>1. \A i, j \in 1 .. n : RoleAt(w, i) = RoleAt(w, j) => i = j
      BY <1>5 DEF ChainOK
    <3>2. \A i \in 1 .. n : RoleAt(x, i) # p
      BY <1>5, <1>8, <2>1
    <3> SUFFICES ASSUME NEW i \in 1 .. n + 1, NEW j \in 1 .. n + 1,
                        RoleAt(x, i) = RoleAt(x, j)
                 PROVE  i = j
      OBVIOUS
    <3>3. CASE i \in 1 .. n /\ j \in 1 .. n
      BY <1>5, <3>1, <3>3
    <3>4. CASE i = n + 1 /\ j \in 1 .. n
      BY <1>5, <3>2, <3>4
    <3>5. CASE i \in 1 .. n /\ j = n + 1
      BY <1>5, <3>2, <3>5
    <3>6. CASE i = n + 1 /\ j = n + 1
      BY <3>6
    <3> QED
      BY <1>2, <3>3, <3>4, <3>5, <3>6
  <2>4. DepthAt(w, n) = n - 1
    BY <1>2, <1>5 DEF ChainOK
  <2>5. \A i \in 1 .. n + 1 : DepthAt(x, i) = i - 1
    BY <1>2, <1>5, <2>4 DEF ChainOK
  <2>6. n + 1 <= MaxDepth + 1
    BY <1>2, <1>8, <2>4, MaxDepthAssumption
  <2> QED
    BY <1>5, <2>2, <2>3, <2>5, <2>6 DEF ChainOK
<1>10. OutputOK(x)
  <2>1. p \notin Range(w.output) /\ IsInjective(w.output)
    BY <1>8 DEF OutputOK
  <2>2. IsInjective(x.output) /\ Range(x.output) = Range(w.output) \cup {p}
    BY <1>1, <1>6, <2>1, AppendFresh
  <2> QED
    BY <1>1, <1>8, <2>2 DEF OutputOK
<1> QED
  BY <1>7, <1>9, <1>10 DEF x

(* Leaving the top role moves it from the roles in progress to the visited. *)
LEMMA LeaveShape ==
  ASSUME NEW w \in Walks, w.stack # << >>, ChainOK(w), OutputOK(w)
  PROVE  Leave(w) \in Walks /\ ChainOK(Leave(w)) /\ OutputOK(Leave(w))
<1> DEFINE x == Leave(w)
           n == Len(w.stack)
           r == Top(w).role
<1>1. /\ x.stack = Below(w) /\ x.visiting = w.visiting \ {r}
      /\ x.visited = w.visited \cup {r} /\ x.output = w.output
  BY DEF Leave
<1>2. w.stack \in Seq(FrameType) /\ n \in Nat \ {0}
  BY DEF Walks
<1>3. /\ Top(w) \in FrameType /\ Below(w) \in Seq(FrameType) /\ Len(Below(w)) = n - 1
      /\ \A i \in 1 .. n - 1 : Below(w)[i] = w.stack[i]
  <2>1. Top(w) = w.stack[n] /\ Top(w) \in FrameType
    BY <1>2 DEF Top
  <2>2. \A i \in 1 .. n - 1 : w.stack[i] \in FrameType
    BY <1>2
  <2> QED
    BY <1>2, <2>1, <2>2, SubSeqProperties DEF Below
<1>4. r \in Roles /\ r = w.stack[n].role
  BY <1>3 DEF FrameType, Top
<1>5. x \in Walks
  <2>1. x = [stack |-> x.stack, visiting |-> x.visiting, visited |-> x.visited,
             output |-> x.output]
    BY DEF Leave
  <2> QED
    BY <1>1, <1>3, <1>4, <2>1 DEF Walks
<1> HIDE DEF x, r
<1>6. /\ Height(w) = n /\ Height(x) = n - 1 /\ r = RoleAt(w, n)
      /\ \A i \in 1 .. n - 1 : RoleAt(x, i) = RoleAt(w, i) /\ DepthAt(x, i) = DepthAt(w, i)
  BY <1>1, <1>3, <1>4 DEF Height, RoleAt, DepthAt
<1>7. ChainOK(x)
  <2>1. x.visiting = {RoleAt(x, i) : i \in 1 .. n - 1}
    BY <1>1, <1>2, <1>6 DEF ChainOK
  <2> QED
    BY <1>2, <1>6, <2>1, MaxDepthAssumption DEF ChainOK
<1>8. OutputOK(x)
  <2>1. r \in w.visiting
    BY <1>2, <1>6 DEF ChainOK
  <2> QED
    BY <1>1, <2>1 DEF OutputOK
<1> QED
  BY <1>5, <1>7, <1>8 DEF x

-------------------------------------------------------------------------------
(* The shape of the walk, whatever happens to the graph.                    *)

LEMMA ShapeInit == Init => ShapeInv
<1> SUFFICES ASSUME Init PROVE ShapeInv
  OBVIOUS
<1>1. /\ walk = [stack |-> << >>, visiting |-> {root}, visited |-> {}, output |-> <<root>>]
      /\ root \in Roles /\ outcome = "entering" /\ blamed \in Roles
      /\ parents \in [Roles -> SUBSET Roles]
  BY DEF Init
<1>2. walk \in Walks
  BY <1>1 DEF Walks
<1>3. OutputOK(walk)
  BY <1>1 DEF OutputOK, IsInjective, Range
<1> QED
  BY <1>1, <1>2, <1>3 DEF ShapeInv, TypeOK, Outcomes

LEMMA ShapeNext == ShapeInv /\ [Next]_vars => ShapeInv'
<1> SUFFICES ASSUME ShapeInv, [Next]_vars PROVE ShapeInv'
  OBVIOUS
<1>t. /\ parents \in [Roles -> SUBSET Roles] /\ root \in Roles /\ walk \in Walks
      /\ blamed \in Roles /\ outcome \in Outcomes /\ OutputOK(walk)
      /\ outcome = "walking" => ChainOK(walk)
  BY DEF ShapeInv, TypeOK
(* A step that fails leaves the walk as it is.                              *)
<1>f. ASSUME NEW error \in Errors, NEW role \in Roles, Fail(error, role)
      PROVE  ShapeInv'
  BY <1>t, <1>f DEF Fail, ShapeInv, TypeOK, Outcomes, Errors
(* A step of the loop reads no graph of its own accord.                     *)
<1>w. ASSUME walk' \in Walks, ChainOK(walk'), OutputOK(walk'),
             outcome' = "walking", UNCHANGED <<parents, root, blamed>>
      PROVE  ShapeInv'
  <2> ShapeInv' <=> /\ TypeOK' /\ (outcome' = "walking" => ChainOK(walk')) /\ OutputOK(walk')
    BY DEF ShapeInv, ChainOK, OutputOK, Height, RoleAt, DepthAt
  <2> QED
    BY <1>t, <1>w DEF TypeOK, Outcomes
<1>1. CASE Enter
  BY <1>1, <1>t, <1>w, NewWalkShape DEF Enter
<1>2. CASE LeaveRole
  <2>1. outcome = "walking" /\ walk.stack # << >> /\ walk' = Leave(walk)
        /\ UNCHANGED <<parents, root, outcome, blamed>>
    BY <1>2 DEF LeaveRole
  <2> QED
    BY <1>t, <1>w, <2>1, LeaveShape
<1>3. CASE Finish
  BY <1>3, <1>t DEF Finish, ShapeInv, TypeOK, Outcomes
<1>4. CASE ReadFails
  BY <1>4, <1>t, <1>f DEF ReadFails, Errors
<1>5. ASSUME NEW p \in Roles, DepthExceeded(p) PROVE ShapeInv'
  BY <1>5, <1>f DEF DepthExceeded, Errors
<1>6. ASSUME NEW p \in Roles, CycleDetected(p) PROVE ShapeInv'
  BY <1>6, <1>f DEF CycleDetected, Errors
<1>7. ASSUME NEW p \in Roles, SkipVisited(p) PROVE ShapeInv'
  <2>1. outcome = "walking" /\ walk.stack # << >> /\ walk' = Skip(walk, p)
        /\ UNCHANGED <<parents, root, outcome, blamed>>
    BY <1>7 DEF SkipVisited, Drawing
  <2> QED
    BY <1>t, <1>w, <2>1, SkipShape
<1>8. ASSUME NEW p \in Roles, Visit(p) PROVE ShapeInv'
  <2>1. /\ outcome = "walking" /\ walk.stack # << >> /\ walk' = Descend(walk, p, parents[p])
        /\ ~ TooDeep(walk, MaxDepth) /\ ~ InProgress(walk, p) /\ ~ Visited(walk, p)
        /\ UNCHANGED <<parents, root, outcome, blamed>>
    BY <1>8 DEF Visit, Fresh, Drawing
  <2>2. parents[p] \in SUBSET Roles
    BY <1>t
  <2> QED
    BY <1>t, <1>w, <2>1, <2>2, DescendShape
<1>9. CASE Edit
  <2>1. parents' \in [Roles -> SUBSET Roles] /\ UNCHANGED <<root, walk, outcome, blamed>>
    BY <1>9, <1>t DEF Edit
  <2> QED
    BY <1>t, <2>1 DEF ShapeInv, TypeOK
<1>10. CASE UNCHANGED vars
  BY <1>10, <1>t DEF vars, ShapeInv, TypeOK
<1> QED
  BY <1>1, <1>2, <1>3, <1>4, <1>5, <1>6, <1>7, <1>8, <1>9, <1>10 DEF Next, Step

LEMMA ShapeHolds == Spec => []ShapeInv
  BY ShapeInit, ShapeNext, PTL DEF Spec

(* Every variable of the expansion keeps its type.                          *)
THEOREM TypeCorrect == Spec => []TypeOK
<1>1. ShapeInv => TypeOK
  BY DEF ShapeInv
<1> QED
  BY <1>1, ShapeHolds, PTL

(* However the graph changes under the walk, the roles in progress are the  *)
(* chain on the stack, without repetition and within the depth limit.       *)
THEOREM StackHolds == Spec => []StackIsChain
<1>1. ShapeInv => StackIsChain
  BY DEF ShapeInv, ChainOK, Height, RoleAt, DepthAt, StackIsChain, StackRoles
<1> QED
  BY <1>1, ShapeHolds, PTL

(* However the graph changes under the walk, every role that was entered is *)
(* in the output, once.                                                     *)
THEOREM OutputHolds == Spec => []OutputIsVisited
<1>1. ShapeInv => OutputIsVisited
  BY DEF ShapeInv, OutputOK, OutputIsVisited
<1> QED
  BY <1>1, ShapeHolds, PTL

-------------------------------------------------------------------------------
(* Ancestors: r itself, closed under parents, and within any closed set.    *)

LEMMA AncestorsFacts ==
  ASSUME parents \in [Roles -> SUBSET Roles], NEW r \in Roles
  PROVE  /\ r \in Ancestors(r)
         /\ \A x \in Ancestors(r) : x \in Roles /\ parents[x] \subseteq Ancestors(r)
         /\ \A S \in SUBSET Roles : r \in S /\ Closed(S) => Ancestors(r) \subseteq S
<1>1. r \in Ancestors(r)
  BY DEF Ancestors
<1>2. ASSUME NEW x \in Ancestors(r), NEW y \in parents[x] PROVE y \in Ancestors(r)
  <2>1. x \in Roles /\ y \in Roles
    BY <1>2 DEF Ancestors
  <2>2. ASSUME NEW S \in SUBSET Roles, r \in S, Closed(S) PROVE y \in S
    <3>1. x \in S
      BY <2>2, <1>2 DEF Ancestors
    <3> QED
      BY <2>2, <3>1, <1>2 DEF Closed
  <2> QED
    BY <2>1, <2>2 DEF Ancestors
<1>3. \A x \in Ancestors(r) : x \in Roles
  BY DEF Ancestors
<1>4. \A S \in SUBSET Roles : r \in S /\ Closed(S) => Ancestors(r) \subseteq S
  BY DEF Ancestors
<1> QED
  BY <1>1, <1>2, <1>3, <1>4

-------------------------------------------------------------------------------
(* What the walk knows of a graph nobody edits.                             *)

RestAt(w, i) == w.stack[i].rest

(* The parents of a visited role are visited; each role on the stack is a   *)
(* parent of the one before it; a parent of a role on the stack is still to *)
(* be drawn, visited, or the next role on the stack.                        *)
Explored(w) ==
  /\ Closed(w.visited)
  /\ \A i \in 1 .. Height(w) - 1 : RoleAt(w, i + 1) \in parents[RoleAt(w, i)]
  /\ \A i \in 1 .. Height(w) : RestAt(w, i) \subseteq parents[RoleAt(w, i)]
  /\ \A i \in 1 .. Height(w) : \A q \in parents[RoleAt(w, i)] :
       \/ q \in RestAt(w, i) \/ q \in w.visited
       \/ i < Height(w) /\ q = RoleAt(w, i + 1)

(* Only what the root inherits from is entered, and what is done with is on *)
(* no cycle.                                                                *)
Entered(w) == w.visiting \cup w.visited
Sound(w) ==
  /\ root \in Entered(w)
  /\ Entered(w) \subseteq Ancestors(root)
  /\ \A r \in w.visited : ~ OnCycle(r)

GraphInv ==
  /\ ShapeInv
  /\ outcome = "walking" => Explored(walk) /\ Sound(walk)
  /\ outcome = "ok" => walk.visiting = {} /\ Closed(walk.visited) /\ Sound(walk)
  /\ outcome = "cycle" => blamed \in Ancestors(root) /\ OnCycle(blamed)

LEMMA NewWalkExplored ==
  ASSUME parents \in [Roles -> SUBSET Roles], root \in Roles
  PROVE  Explored(NewWalk(root, parents[root])) /\ Sound(NewWalk(root, parents[root]))
<1> DEFINE w == NewWalk(root, parents[root])
           f == Frame(root, 0, parents[root])
<1>1. w.stack = <<f>> /\ w.visiting = {root} /\ w.visited = {}
  BY DEF NewWalk
<1>2. f.role = root /\ f.rest = parents[root]
  BY DEF Frame
<1>3. Height(w) = 1 /\ RoleAt(w, 1) = root /\ RestAt(w, 1) = parents[root]
  BY <1>1, <1>2 DEF Height, RoleAt, RestAt
<1>4. root \in Ancestors(root)
  BY AncestorsFacts
<1> HIDE DEF w
<1>5. Explored(w)
  BY <1>1, <1>3 DEF Explored, Closed
<1>6. Sound(w)
  BY <1>1, <1>4 DEF Sound, Entered
<1> QED
  BY <1>5, <1>6 DEF w

(* Drawing p takes it from the iterator of the top frame only.              *)
LEMMA DrawnRest ==
  ASSUME NEW w \in Walks, w.stack # << >>, NEW p \in Roles
  PROVE  /\ \A i \in 1 .. Len(w.stack) - 1 : Drawn(w, p)[i].rest = RestAt(w, i)
         /\ Drawn(w, p)[Len(w.stack)].rest = RestAt(w, Len(w.stack)) \ {p}
<1>1. Drawn(w, p)[Len(w.stack)] = Frame(Top(w).role, Top(w).depth, Top(w).rest \ {p})
      /\ Len(w.stack) \in Nat \ {0}
      /\ \A i \in 1 .. Len(w.stack) - 1 : Drawn(w, p)[i] = w.stack[i]
  BY DrawnFacts
<1> QED
  BY <1>1 DEF Frame, Top, RestAt

LEMMA SkipExplored ==
  ASSUME NEW w \in Walks, w.stack # << >>, NEW p \in Roles, Visited(w, p),
         Explored(w), Sound(w)
  PROVE  Explored(Skip(w, p)) /\ Sound(Skip(w, p))
<1> DEFINE x == Skip(w, p)
           n == Len(w.stack)
<1>1. x.stack = Drawn(w, p) /\ x.visiting = w.visiting /\ x.visited = w.visited
  BY DEF Skip
<1>2. Height(x) = n /\ Height(w) = n /\ n \in Nat \ {0}
  BY <1>1, DrawnFacts DEF Height
<1>3. \A i \in 1 .. n : RoleAt(x, i) = RoleAt(w, i)
  BY <1>1, DrawnRoles DEF RoleAt
<1>4. /\ \A i \in 1 .. n - 1 : RestAt(x, i) = RestAt(w, i)
      /\ RestAt(x, n) = RestAt(w, n) \ {p}
  BY <1>1, DrawnRest DEF RestAt
<1> HIDE DEF x, n
<1>5. p \in w.visited
  BY DEF Visited
<1>6. Explored(x)
  <2>1. \A i \in 1 .. n : RestAt(x, i) \subseteq parents[RoleAt(x, i)]
    BY <1>2, <1>3, <1>4 DEF Explored
  <2>2. ASSUME NEW i \in 1 .. n, NEW q \in parents[RoleAt(x, i)]
        PROVE  \/ q \in RestAt(x, i) \/ q \in x.visited
               \/ i < n /\ q = RoleAt(x, i + 1)
    <3>1. \/ q \in RestAt(w, i) \/ q \in w.visited
          \/ i < n /\ q = RoleAt(w, i + 1)
      BY <1>2, <1>3 DEF Explored
    <3>2. CASE q \in RestAt(w, i)
      BY <1>1, <1>2, <1>4, <1>5, <3>2
    <3> QED
      BY <1>1, <1>2, <1>3, <3>1, <3>2
  <2>3. \A i \in 1 .. n - 1 : RoleAt(x, i + 1) \in parents[RoleAt(x, i)]
    BY <1>2, <1>3 DEF Explored
  <2> QED
    BY <1>1, <1>2, <2>1, <2>2, <2>3 DEF Explored
<1>7. Sound(x)
  BY <1>1 DEF Sound, Entered
<1> QED
  BY <1>6, <1>7 DEF x

(* The role entered becomes the next one on the stack.                      *)
LEMMA DescendExplored ==
  ASSUME parents \in [Roles -> SUBSET Roles], root \in Roles,
         NEW w \in Walks, w.stack # << >>, NEW p \in Roles, p \in Top(w).rest,
         ~ TooDeep(w, MaxDepth), ChainOK(w), Explored(w), Sound(w)
  PROVE  Explored(Descend(w, p, parents[p])) /\ Sound(Descend(w, p, parents[p]))
<1> DEFINE x == Descend(w, p, parents[p])
           n == Len(w.stack)
           d == Drawn(w, p)
           f == Frame(p, Top(w).depth + 1, parents[p])
<1>1. /\ x.stack = Append(d, f) /\ x.visiting = w.visiting \cup {p}
      /\ x.visited = w.visited
  BY DEF Descend
<1>2. /\ n \in Nat \ {0} /\ d \in Seq(FrameType) /\ Len(d) = n
      /\ Top(w) = w.stack[n] /\ Top(w) \in FrameType
  BY DrawnFacts DEF Top
<1>3. f \in FrameType /\ f.role = p /\ f.rest = parents[p]
  BY <1>2, MaxDepthAssumption DEF Frame, FrameType, TooDeep
<1>4. /\ Len(x.stack) = n + 1
      /\ \A i \in 1 .. n : x.stack[i] = d[i]
      /\ x.stack[n + 1] = f
  BY <1>1, <1>2, <1>3, AppendProperties
<1>5. /\ Height(w) = n /\ Height(x) = n + 1
      /\ \A i \in 1 .. n : RoleAt(x, i) = RoleAt(w, i)
      /\ RoleAt(x, n + 1) = p
  BY <1>2, <1>3, <1>4, DrawnRoles DEF Height, RoleAt
<1>6. /\ \A i \in 1 .. n - 1 : RestAt(x, i) = RestAt(w, i)
      /\ RestAt(x, n) = RestAt(w, n) \ {p}
      /\ RestAt(x, n + 1) = parents[p]
  BY <1>2, <1>3, <1>4, DrawnRest DEF RestAt
<1>7. p \in RestAt(w, n) /\ RoleAt(w, n) \in w.visiting
  BY <1>2, <1>5 DEF RestAt, ChainOK
<1> HIDE DEF x, n, d, f
<1>8. Explored(x)
  <2>1. \A i \in 1 .. n + 1 : RestAt(x, i) \subseteq parents[RoleAt(x, i)]
    BY <1>2, <1>5, <1>6 DEF Explored
  <2>2. ASSUME NEW i \in 1 .. n + 1, NEW q \in parents[RoleAt(x, i)]
        PROVE  \/ q \in RestAt(x, i) \/ q \in x.visited
               \/ i < n + 1 /\ q = RoleAt(x, i + 1)
    <3>1. CASE i = n + 1
      BY <1>5, <1>6, <3>1
    <3>2. CASE i \in 1 .. n
      <4>1. \/ q \in RestAt(w, i) \/ q \in w.visited
            \/ i < n /\ q = RoleAt(w, i + 1)
        BY <1>5, <3>2 DEF Explored
      <4>2. CASE q \in RestAt(w, i)
        BY <1>2, <1>5, <1>6, <3>2, <4>2
      <4>3. CASE i < n /\ q = RoleAt(w, i + 1)
        <5>1. i + 1 \in 1 .. n
          BY <1>2, <3>2, <4>3
        <5> QED
          BY <1>2, <1>5, <4>3, <5>1
      <4> QED
        BY <1>1, <4>1, <4>2, <4>3
    <3> QED
      BY <1>2, <3>1, <3>2
  <2>3. ASSUME NEW i \in 1 .. n PROVE RoleAt(x, i + 1) \in parents[RoleAt(x, i)]
    <3>1. CASE i = n
      BY <1>2, <1>5, <1>7, <3>1 DEF Explored
    <3>2. CASE i < n
      <4>1. i \in 1 .. n - 1 /\ i + 1 \in 1 .. n
        BY <1>2, <3>2
      <4> QED
        BY <1>5, <4>1 DEF Explored
    <3> QED
      BY <1>2, <3>1, <3>2
  <2>4. \A i \in 1 .. Height(x) - 1 : RoleAt(x, i + 1) \in parents[RoleAt(x, i)]
    BY <1>2, <1>5, <2>3
  <2> QED
    BY <1>1, <1>5, <2>1, <2>2, <2>4 DEF Explored
<1>9. Sound(x)
  <2>1. p \in parents[RoleAt(w, n)]
    BY <1>2, <1>5, <1>7 DEF Explored
  <2>2. p \in Ancestors(root)
    BY <1>7, <2>1, AncestorsFacts DEF Sound, Entered
  <2> QED
    BY <1>1, <2>2 DEF Sound, Entered
<1> QED
  BY <1>8, <1>9 DEF x

(* A role is left when all its parents are visited; it is on no cycle, for  *)
(* the visited roles are closed and it was not among them.                  *)
LEMMA LeaveExplored ==
  ASSUME parents \in [Roles -> SUBSET Roles], root \in Roles,
         NEW w \in Walks, w.stack # << >>, Top(w).rest = {},
         ChainOK(w), OutputOK(w), Explored(w), Sound(w)
  PROVE  Explored(Leave(w)) /\ Sound(Leave(w))
<1> DEFINE x == Leave(w)
           n == Len(w.stack)
           r == Top(w).role
<1>1. /\ x.stack = Below(w) /\ x.visiting = w.visiting \ {r}
      /\ x.visited = w.visited \cup {r}
  BY DEF Leave
<1>2. /\ n \in Nat \ {0} /\ Top(w) = w.stack[n] /\ Top(w) \in FrameType
      /\ Len(Below(w)) = n - 1
      /\ \A i \in 1 .. n - 1 : Below(w)[i] = w.stack[i]
  <2>1. w.stack \in Seq(FrameType) /\ n \in Nat \ {0}
    BY DEF Walks
  <2>2. \A i \in 1 .. n - 1 : w.stack[i] \in FrameType
    BY <2>1
  <2> QED
    BY <2>1, <2>2, SubSeqProperties DEF Below, Top
<1>3. r \in Roles /\ r = RoleAt(w, n) /\ RestAt(w, n) = {}
  BY <1>2 DEF FrameType, RoleAt, RestAt
<1>4. /\ Height(w) = n /\ Height(x) = n - 1
      /\ \A i \in 1 .. n - 1 : RoleAt(x, i) = RoleAt(w, i) /\ RestAt(x, i) = RestAt(w, i)
  BY <1>1, <1>2 DEF Height, RoleAt, RestAt
<1>5. w.visited \in SUBSET Roles
  BY DEF Walks
<1> HIDE DEF x, n, r
<1>6. r \in w.visiting /\ r \notin w.visited
  BY <1>2, <1>3, <1>4 DEF ChainOK, OutputOK
<1>7. parents[r] \subseteq w.visited
  BY <1>2, <1>3, <1>4 DEF Explored
<1>8. Explored(x)
  <2>1. Closed(x.visited)
    BY <1>1, <1>7 DEF Explored, Closed
  <2>2. \A i \in 1 .. n - 1 : RestAt(x, i) \subseteq parents[RoleAt(x, i)]
    BY <1>2, <1>4 DEF Explored
  <2>3. ASSUME NEW i \in 1 .. n - 1, NEW q \in parents[RoleAt(x, i)]
        PROVE  \/ q \in RestAt(x, i) \/ q \in x.visited
               \/ i < n - 1 /\ q = RoleAt(x, i + 1)
    <3>1. \/ q \in RestAt(w, i) \/ q \in w.visited
          \/ i < n /\ q = RoleAt(w, i + 1)
      BY <1>2, <1>4 DEF Explored
    <3>2. CASE i < n /\ q = RoleAt(w, i + 1)
      <4>1. CASE i = n - 1
        BY <1>1, <1>2, <1>3, <3>2, <4>1
      <4>2. CASE i < n - 1
        BY <1>2, <1>4, <3>2, <4>2
      <4> QED
        BY <1>2, <4>1, <4>2
    <3> QED
      BY <1>1, <1>4, <3>1, <3>2
  <2>4. ASSUME NEW i \in 1 .. n - 2 PROVE RoleAt(x, i + 1) \in parents[RoleAt(x, i)]
    <3>1. i \in 1 .. n - 1 /\ i + 1 \in 1 .. n - 1
      BY <1>2
    <3> QED
      BY <1>4, <3>1 DEF Explored
  <2>5. n - 2 = n - 1 - 1
    BY <1>2
  <2> QED
    BY <1>4, <2>1, <2>2, <2>3, <2>4, <2>5 DEF Explored
<1>9. Sound(x)
  <2>1. ASSUME NEW q \in parents[r] PROVE r \notin Ancestors(q)
    <3>1. q \in Roles /\ q \in w.visited /\ Closed(w.visited)
      BY <1>5, <1>7 DEF Explored
    <3>2. Ancestors(q) \subseteq w.visited
      BY <1>5, <3>1, AncestorsFacts
    <3> QED
      BY <1>6, <3>2
  <2>2. ~ OnCycle(r)
    BY <2>1 DEF OnCycle
  <2> QED
    BY <1>1, <1>6, <2>2 DEF Sound, Entered
<1> QED
  BY <1>8, <1>9 DEF x

(* A role in progress that is a parent of the top one is on a cycle: every  *)
(* role above it on the stack, the top one included, descends from it.      *)
LEMMA InProgressOnCycle ==
  ASSUME parents \in [Roles -> SUBSET Roles], root \in Roles,
         NEW w \in Walks, w.stack # << >>, NEW p \in Roles, p \in Top(w).rest,
         InProgress(w, p), ChainOK(w), Explored(w), Sound(w)
  PROVE  p \in Ancestors(root) /\ OnCycle(p)
<1> DEFINE n == Height(w)
<1>1. n \in Nat \ {0} /\ RestAt(w, n) = Top(w).rest
  BY DEF Walks, Height, RestAt, Top
<1>2. PICK j \in 1 .. n : RoleAt(w, j) = p
  BY DEF InProgress, ChainOK
<1>3. p \in parents[RoleAt(w, n)]
  BY <1>1 DEF Explored
<1>4. \A i \in 1 .. n : RoleAt(w, i) \in Roles
  BY DEF ChainOK, Walks
<1>5. p \in Ancestors(root)
  BY DEF InProgress, Sound, Entered
<1> HIDE DEF n
<1>6. CASE j = n
  BY <1>2, <1>3, <1>5, <1>6, AncestorsFacts DEF OnCycle
<1>7. CASE j < n
  <2> DEFINE q == RoleAt(w, j + 1)
             stray == {k \in j + 1 .. n : RoleAt(w, k) \notin Ancestors(q)}
  <2>1. j \in 1 .. n - 1 /\ j + 1 \in 1 .. n
    BY <1>1, <1>7
  <2>2. q \in parents[p] /\ q \in Roles
    BY <1>2, <1>4, <2>1 DEF Explored, n
  <2> HIDE DEF q
  <2>3. stray = {}
    <3> SUFFICES ASSUME stray # {} PROVE FALSE
      OBVIOUS
    <3>a. stray \in SUBSET Nat
      BY <1>1, <2>1
    <3>1. PICK m \in stray : \A k \in stray : m <= k
      BY <3>a, SmallestNat
    <3>2. m # j + 1
      BY <2>2, <3>1, AncestorsFacts DEF q
    <3>3. /\ m - 1 \in j + 1 .. n /\ m - 1 \in 1 .. n - 1 /\ m - 1 \notin stray
          /\ m = (m - 1) + 1
      BY <1>1, <2>1, <3>1, <3>2
    <3>4. RoleAt(w, m) \in parents[RoleAt(w, m - 1)]
      BY <3>3 DEF Explored, n
    <3>5. RoleAt(w, m - 1) \in Ancestors(q)
      BY <3>3
    <3> QED
      BY <2>2, <3>1, <3>4, <3>5, AncestorsFacts
  <2>4. RoleAt(w, n) \in Ancestors(q)
    BY <1>1, <1>7, <2>3
  <2> QED
    BY <1>3, <1>5, <2>2, <2>4, AncestorsFacts DEF OnCycle
<1> QED
  BY <1>1, <1>2, <1>5, <1>6, <1>7

LEMMA GraphInit == Init => GraphInv
  BY ShapeInit DEF Init, GraphInv

LEMMA GraphNext ==
  ASSUME EditableRoles = {}
  PROVE  GraphInv /\ [Next]_vars => GraphInv'
<1> SUFFICES ASSUME GraphInv, [Next]_vars PROVE GraphInv'
  OBVIOUS
<1>t. /\ parents \in [Roles -> SUBSET Roles] /\ root \in Roles /\ walk \in Walks
      /\ OutputOK(walk)
      /\ outcome = "walking" => ChainOK(walk)
  BY DEF GraphInv, ShapeInv, TypeOK
<1>s. ShapeInv'
  BY ShapeNext DEF GraphInv
(* The graph stays the same, and with it everything said of it.             *)
<1>u. UNCHANGED <<parents, root>>
  BY DEF Next, Step, Edit, Enter, LeaveRole, Finish, ReadFails, DepthExceeded,
         CycleDetected, SkipVisited, Visit, Fail, vars
<1>v. /\ (Explored(walk))' <=> Explored(walk')
      /\ (Sound(walk))' <=> Sound(walk')
      /\ (Closed(walk.visited))' <=> Closed(walk'.visited)
      /\ (blamed \in Ancestors(root) /\ OnCycle(blamed))'
           <=> blamed' \in Ancestors(root) /\ OnCycle(blamed')
  <2>1. \A S : (Closed(S))' <=> Closed(S)
    BY <1>u DEF Closed
  <2>2. \A r : (Ancestors(r))' = Ancestors(r)
    BY <1>u DEF Ancestors, Closed
  <2>3. \A r : (OnCycle(r))' <=> OnCycle(r)
    BY <1>u, <2>2 DEF OnCycle
  <2> QED
    BY <1>u, <2>1, <2>2, <2>3 DEF Explored, Sound, Entered, Height, RoleAt, RestAt
<1>w. ASSUME outcome' = "walking", Explored(walk'), Sound(walk') PROVE GraphInv'
  BY <1>s, <1>v, <1>w DEF GraphInv
<1>e. ASSUME outcome' \in {"depth", "source_error"} PROVE GraphInv'
  BY <1>s, <1>e DEF GraphInv
<1>1. CASE Enter
  <2>1. outcome' = "walking" /\ walk' = NewWalk(root, parents[root])
    BY <1>1 DEF Enter
  <2> QED
    BY <1>t, <1>w, <2>1, NewWalkExplored
<1>2. CASE LeaveRole
  <2>1. /\ outcome = "walking" /\ outcome' = outcome /\ walk' = Leave(walk)
        /\ walk.stack # << >> /\ Top(walk).rest = {}
    BY <1>2 DEF LeaveRole
  <2>2. Explored(walk) /\ Sound(walk)
    BY <2>1 DEF GraphInv
  <2> QED
    BY <1>t, <1>w, <2>1, <2>2, LeaveExplored
<1>3. CASE Finish
  <2>1. outcome = "walking" /\ walk.stack = << >> /\ outcome' = "ok" /\ walk' = walk
    BY <1>3 DEF Finish
  <2>2. Explored(walk) /\ Sound(walk) /\ ChainOK(walk)
    BY <1>t, <2>1 DEF GraphInv
  <2>3. walk.visiting = {}
    BY <2>1, <2>2 DEF ChainOK, Height
  <2>4. Closed(walk.visited)
    BY <2>2 DEF Explored
  <2> QED
    BY <1>s, <1>v, <2>1, <2>2, <2>3, <2>4 DEF GraphInv
<1>4. CASE ReadFails
  BY <1>4, <1>e DEF ReadFails, Fail
<1>5. ASSUME NEW p \in Roles, DepthExceeded(p) PROVE GraphInv'
  BY <1>5, <1>e DEF DepthExceeded, Fail
<1>6. ASSUME NEW p \in Roles, CycleDetected(p) PROVE GraphInv'
  <2>1. /\ outcome = "walking" /\ walk.stack # << >> /\ p \in Top(walk).rest
        /\ InProgress(walk, p) /\ outcome' = "cycle" /\ blamed' = p
    BY <1>6 DEF CycleDetected, Drawing, Fail
  <2>2. Explored(walk) /\ Sound(walk)
    BY <2>1 DEF GraphInv
  <2>3. p \in Ancestors(root) /\ OnCycle(p)
    BY <1>t, <2>1, <2>2, InProgressOnCycle
  <2> QED
    BY <1>s, <1>v, <2>1, <2>3 DEF GraphInv
<1>7. ASSUME NEW p \in Roles, SkipVisited(p) PROVE GraphInv'
  <2>1. /\ outcome = "walking" /\ outcome' = outcome /\ walk' = Skip(walk, p)
        /\ walk.stack # << >> /\ Visited(walk, p)
    BY <1>7 DEF SkipVisited, Drawing
  <2>2. Explored(walk) /\ Sound(walk)
    BY <2>1 DEF GraphInv
  <2> QED
    BY <1>t, <1>w, <2>1, <2>2, SkipExplored
<1>8. ASSUME NEW p \in Roles, Visit(p) PROVE GraphInv'
  <2>1. /\ outcome = "walking" /\ outcome' = outcome
        /\ walk' = Descend(walk, p, parents[p])
        /\ walk.stack # << >> /\ p \in Top(walk).rest /\ ~ TooDeep(walk, MaxDepth)
    BY <1>8 DEF Visit, Fresh, Drawing
  <2>2. Explored(walk) /\ Sound(walk)
    BY <2>1 DEF GraphInv
  <2> QED
    BY <1>t, <1>w, <2>1, <2>2, DescendExplored
<1>9. ~ Edit
  BY DEF Edit
<1>10. CASE UNCHANGED vars
  <2>1. walk' = walk /\ outcome' = outcome /\ blamed' = blamed
    BY <1>10 DEF vars
  <2> QED
    BY <1>s, <1>v, <2>1 DEF GraphInv
<1> QED
  BY <1>1, <1>2, <1>3, <1>4, <1>5, <1>6, <1>7, <1>8, <1>9, <1>10 DEF Next, Step

LEMMA GraphHolds ==
  ASSUME EditableRoles = {}
  PROVE  Spec => []GraphInv
<1>1. GraphInv /\ [Next]_vars => GraphInv'
  BY GraphNext
<1> QED
  BY <1>1, GraphInit, PTL DEF Spec

(* A successful expansion of a graph nobody edits returns the role and      *)
(* exactly what it inherits from, in whatever order parents are listed and  *)
(* although visited roles are skipped.                                      *)
THEOREM ExpansionExact ==
  ASSUME EditableRoles = {}
  PROVE  Spec => []ExpandsToAncestors
<1>1. GraphInv => ExpandsToAncestors
  <2> SUFFICES ASSUME GraphInv, outcome = "ok"
               PROVE  Range(walk.output) = Ancestors(root)
    BY DEF ExpandsToAncestors
  <2>1. /\ parents \in [Roles -> SUBSET Roles] /\ root \in Roles
        /\ walk.visited \in SUBSET Roles
        /\ Range(walk.output) = walk.visiting \cup walk.visited
    BY DEF GraphInv, ShapeInv, TypeOK, OutputOK, Walks
  <2>2. /\ walk.visiting = {} /\ Closed(walk.visited)
        /\ root \in walk.visited /\ walk.visited \subseteq Ancestors(root)
    BY DEF GraphInv, Sound, Entered
  <2>3. Ancestors(root) \subseteq walk.visited
    BY <2>1, <2>2, AncestorsFacts
  <2> QED
    BY <2>1, <2>2, <2>3
<1> QED
  BY <1>1, GraphHolds, PTL

(* No cycle above the role goes unnoticed when the graph is not edited.     *)
THEOREM AcceptedAcyclic ==
  ASSUME EditableRoles = {}
  PROVE  Spec => []AcceptedIsAcyclic
<1>1. GraphInv => AcceptedIsAcyclic
  <2> SUFFICES ASSUME GraphInv, outcome = "ok", NEW r \in Ancestors(root)
               PROVE  ~ OnCycle(r)
    BY DEF AcceptedIsAcyclic
  <2>1. /\ parents \in [Roles -> SUBSET Roles] /\ root \in Roles
        /\ walk.visited \in SUBSET Roles
    BY DEF GraphInv, ShapeInv, TypeOK, Walks
  <2>2. /\ walk.visiting = {} /\ Closed(walk.visited) /\ root \in walk.visited
        /\ \A x \in walk.visited : ~ OnCycle(x)
    BY DEF GraphInv, Sound, Entered
  <2> QED
    BY <2>1, <2>2, AncestorsFacts
<1> QED
  BY <1>1, GraphHolds, PTL

(* A cycle error names a role above the root that is on a cycle.            *)
THEOREM CycleErrorsReal ==
  ASSUME EditableRoles = {}
  PROVE  Spec => []CycleErrorIsReal
<1>1. GraphInv => CycleErrorIsReal
  BY DEF GraphInv, CycleErrorIsReal
<1> QED
  BY <1>1, GraphHolds, PTL
-------------------------------------------------------------------------------
(* How far above the root a role is.                                        *)

(* The function that ChainEnds defines, by what each of its values is of    *)
(* the one before.                                                          *)
Link(f, r, i) == IF i = 0 THEN {r} ELSE UNION {parents[x] : x \in f[i - 1]}
IsChain(f, r, n) == f = [i \in 0 .. n |-> Link(f, r, i)]

(* There is one for every length: a shortest one that is missing would be   *)
(* one step longer than one that is there.                                  *)
LEMMA ChainExists ==
  ASSUME NEW r, NEW n \in Nat
  PROVE  \E f : IsChain(f, r, n)
<1> DEFINE S == {m \in Nat : ~ \E f : IsChain(f, r, m)}
<1>1. ASSUME S # {} PROVE FALSE
  <2>1. PICK m \in S : \A x \in S : m <= x
    BY <1>1, SmallestNat
  <2>2. m # 0
    <3> SUFFICES ASSUME m = 0 PROVE FALSE
      OBVIOUS
    <3> DEFINE f == [i \in 0 .. 0 |-> {r}]
    <3>1. \A i \in 0 .. 0 : Link(f, r, i) = {r}
      BY DEF Link
    <3>2. IsChain(f, r, 0)
      BY <3>1 DEF IsChain
    <3> QED
      BY <2>1, <3>2
  <2>3. m - 1 \in Nat /\ m - 1 \notin S
    BY <2>1, <2>2
  <2>4. PICK f : IsChain(f, r, m - 1)
    BY <2>3
  <2> DEFINE g == [i \in 0 .. m |-> Link(f, r, i)]
  <2>5. \A i \in 0 .. m - 1 : g[i] = f[i]
    BY <2>3, <2>4 DEF IsChain
  <2>6. \A i \in 0 .. m : Link(g, r, i) = Link(f, r, i)
    <3> HIDE DEF g
    <3> QED
      BY <2>1, <2>3, <2>5 DEF Link
  <2>7. IsChain(g, r, m)
    BY <2>6 DEF IsChain
  <2> QED
    BY <2>1, <2>7
<1> QED
  BY <1>1

(* Two of them agree as far as both go.                                     *)
LEMMA ChainUnique ==
  ASSUME NEW r, NEW n \in Nat, NEW k \in Nat, n <= k,
         NEW f, IsChain(f, r, n), NEW g, IsChain(g, r, k)
  PROVE  f[n] = g[n]
<1> DEFINE S == {i \in 0 .. n : f[i] # g[i]}
<1>1. ASSUME S # {} PROVE FALSE
  <2>1. S \in SUBSET Nat
    OBVIOUS
  <2>2. PICK m \in S : \A x \in S : m <= x
    BY <1>1, <2>1, SmallestNat
  <2>3. f[m] = Link(f, r, m) /\ g[m] = Link(g, r, m)
    <3>1. m \in 0 .. n /\ m \in 0 .. k
      BY <2>2
    <3>2. ASSUME NEW h, NEW x, IsChain(h, r, x), m \in 0 .. x PROVE h[m] = Link(h, r, m)
      BY <3>2, Zenon DEF IsChain
    <3> QED
      BY <3>1, <3>2
  <2>4. m # 0
    BY <2>2, <2>3 DEF Link
  <2>5. m - 1 \in 0 .. n /\ m - 1 \notin S
    BY <2>2, <2>4
  <2>6. f[m - 1] = g[m - 1]
    BY <2>5
  <2>7. Link(f, r, m) = Link(g, r, m)
    BY <2>6 DEF Link
  <2> QED
    BY <2>2, <2>3, <2>7
<1> QED
  BY <1>1

LEMMA ChainEndsValue ==
  ASSUME NEW r, NEW n \in Nat
  PROVE  \E f : IsChain(f, r, n) /\ ChainEnds(r, n) = f[n]
<1> DEFINE f == CHOOSE f : IsChain(f, r, n)
<1>1. IsChain(f, r, n)
  BY ChainExists
<1>2. ChainEnds(r, n) = f[n]
  BY DEF ChainEnds, IsChain, Link
<1> QED
  BY <1>1, <1>2

(* A chain of no step ends where it begins; one of a step more, in the      *)
(* parents of what the others end in.                                       *)
LEMMA ChainEndsFacts ==
  ASSUME NEW r, NEW n \in Nat
  PROVE  /\ ChainEnds(r, 0) = {r}
         /\ ChainEnds(r, n + 1) = UNION {parents[x] : x \in ChainEnds(r, n)}
<1>1. ChainEnds(r, 0) = {r}
  <2>1. PICK f : IsChain(f, r, 0) /\ ChainEnds(r, 0) = f[0]
    BY ChainEndsValue
  <2> QED
    BY <2>1 DEF IsChain, Link
<1>2. PICK f : IsChain(f, r, n) /\ ChainEnds(r, n) = f[n]
  BY ChainEndsValue
<1>3. PICK g : IsChain(g, r, n + 1) /\ ChainEnds(r, n + 1) = g[n + 1]
  BY ChainEndsValue
<1>4. f[n] = g[n]
  BY <1>2, <1>3, ChainUnique
<1>5. g[n + 1] = Link(g, r, n + 1) /\ n + 1 # 0 /\ n + 1 - 1 = n
  BY <1>3 DEF IsChain
<1>6. g[n + 1] = UNION {parents[x] : x \in g[n]}
  BY <1>5 DEF Link
<1> QED
  BY <1>1, <1>2, <1>3, <1>4, <1>6

(* While nobody edits the graph, a role on the stack is as far from the     *)
(* root as it lies deep, and no role was entered beyond the limit.          *)
Within(r) == \E n \in 0 .. MaxDepth : r \in ChainEnds(root, n)
Placed(w) == \A i \in 1 .. Height(w) : RoleAt(w, i) \in ChainEnds(root, i - 1)

DepthInv ==
  /\ outcome = "walking" => Placed(walk)
  /\ outcome \in {"walking", "ok"} => \A r \in Entered(walk) : Within(r)
  /\ outcome = "depth" => blamed \in ChainEnds(root, MaxDepth + 1)

LEMMA NewWalkPlaced ==
  ASSUME root \in Roles
  PROVE  LET w == NewWalk(root, parents[root]) IN
         Placed(w) /\ \A r \in Entered(w) : Within(r)
<1> DEFINE w == NewWalk(root, parents[root])
<1>1. w.stack = <<Frame(root, 0, parents[root])>> /\ w.visiting = {root} /\ w.visited = {}
  BY DEF NewWalk
<1>2. Height(w) = 1 /\ RoleAt(w, 1) = root
  BY <1>1 DEF Height, RoleAt, Frame
<1>3. ChainEnds(root, 0) = {root}
  BY ChainEndsFacts
<1> HIDE DEF w
<1>4. Placed(w)
  BY <1>2, <1>3 DEF Placed
<1>5. \A r \in Entered(w) : Within(r)
  BY <1>1, <1>3, MaxDepthAssumption DEF Entered, Within
<1> QED
  BY <1>4, <1>5 DEF w

(* The parents of the top role end chains as long as the stack is high.     *)
LEMMA NextInChain ==
  ASSUME NEW w \in Walks, w.stack # << >>, NEW p \in Top(w).rest, Explored(w), Placed(w)
  PROVE  Len(w.stack) \in Nat \ {0} /\ p \in ChainEnds(root, Len(w.stack))
<1> DEFINE n == Len(w.stack)
<1>1. n \in Nat \ {0} /\ Height(w) = n /\ Top(w) = w.stack[n]
  BY DEF Walks, Height, Top
<1> HIDE DEF n
<1>2. p \in RestAt(w, n) /\ n \in 1 .. n
  BY <1>1 DEF RestAt
<1>3. p \in parents[RoleAt(w, n)] /\ RoleAt(w, n) \in ChainEnds(root, n - 1)
  BY <1>1, <1>2 DEF Explored, Placed
<1>4. ChainEnds(root, n - 1 + 1) = UNION {parents[x] : x \in ChainEnds(root, n - 1)}
  <2>1. n - 1 \in Nat
    BY <1>1
  <2> QED
    BY <2>1, ChainEndsFacts
<1>5. n - 1 + 1 = n
  BY <1>1
<1>6. p \in ChainEnds(root, n)
  BY <1>3, <1>4, <1>5
<1> QED
  BY <1>1, <1>6 DEF n

LEMMA SkipPlaced ==
  ASSUME NEW w \in Walks, w.stack # << >>, NEW p \in Roles, Placed(w)
  PROVE  Placed(Skip(w, p)) /\ Entered(Skip(w, p)) = Entered(w)
<1> DEFINE x == Skip(w, p)
<1>1. x.stack = Drawn(w, p) /\ x.visiting = w.visiting /\ x.visited = w.visited
  BY DEF Skip
<1> HIDE DEF x
<1>2. Height(x) = Height(w) /\ \A i \in 1 .. Height(w) : RoleAt(x, i) = RoleAt(w, i)
  <2>1. Len(Drawn(w, p)) = Len(w.stack)
    BY DrawnFacts
  <2>2. \A i \in 1 .. Len(w.stack) : Drawn(w, p)[i].role = w.stack[i].role
    BY DrawnRoles
  <2> QED
    BY <1>1, <2>1, <2>2 DEF Height, RoleAt
<1>3. Placed(x) /\ Entered(x) = Entered(w)
  BY <1>1, <1>2 DEF Placed, Entered
<1> QED
  BY <1>3 DEF x

LEMMA DescendPlaced ==
  ASSUME parents \in [Roles -> SUBSET Roles], NEW w \in Walks, w.stack # << >>,
         NEW p \in Roles, p \in Top(w).rest, ~ TooDeep(w, MaxDepth),
         ChainOK(w), Explored(w), Placed(w)
  PROVE  LET x == Descend(w, p, parents[p]) IN
         Placed(x) /\ Entered(x) = Entered(w) \cup {p} /\ Within(p)
<1> DEFINE x == Descend(w, p, parents[p])
           n == Len(w.stack)
           d == Drawn(w, p)
           f == Frame(p, Top(w).depth + 1, parents[p])
<1>1. /\ x.stack = Append(d, f) /\ x.visiting = w.visiting \cup {p}
      /\ x.visited = w.visited
  BY DEF Descend
<1>2. /\ n \in Nat \ {0} /\ d \in Seq(FrameType) /\ Len(d) = n
      /\ Top(w) = w.stack[n] /\ Top(w) \in FrameType
  BY DrawnFacts DEF Top
<1>3. f \in FrameType /\ f.role = p
  BY <1>2, MaxDepthAssumption DEF Frame, FrameType, TooDeep
<1>4. /\ Len(x.stack) = n + 1
      /\ \A i \in 1 .. n : x.stack[i] = d[i]
      /\ x.stack[n + 1] = f
  BY <1>1, <1>2, <1>3, AppendProperties
<1>5. /\ Height(w) = n /\ Height(x) = n + 1
      /\ \A i \in 1 .. n : RoleAt(x, i) = RoleAt(w, i)
      /\ RoleAt(x, n + 1) = p
  BY <1>2, <1>3, <1>4, DrawnRoles DEF Height, RoleAt
<1>6. p \in ChainEnds(root, n)
  BY NextInChain
<1>7. n \in 0 .. MaxDepth
  <2>1. DepthAt(w, n) = n - 1 /\ DepthAt(w, n) = Top(w).depth
    BY <1>2, <1>5 DEF ChainOK, DepthAt
  <2> QED
    BY <1>2, <2>1, MaxDepthAssumption DEF TooDeep
<1> HIDE DEF x, n, d, f
<1>8. Placed(x)
  <2> SUFFICES ASSUME NEW i \in 1 .. n + 1 PROVE RoleAt(x, i) \in ChainEnds(root, i - 1)
    BY <1>5 DEF Placed
  <2>1. CASE i = n + 1
    <3>1. i - 1 = n
      BY <1>2, <2>1
    <3> QED
      BY <1>5, <1>6, <2>1, <3>1
  <2>2. CASE i # n + 1
    <3>1. i \in 1 .. n
      BY <1>2, <2>2
    <3> QED
      BY <1>5, <3>1 DEF Placed
  <2> QED
    BY <2>1, <2>2
<1>9. Entered(x) = Entered(w) \cup {p} /\ Within(p)
  BY <1>1, <1>6, <1>7 DEF Entered, Within
<1> QED
  BY <1>8, <1>9 DEF x

LEMMA LeavePlaced ==
  ASSUME NEW w \in Walks, w.stack # << >>, ChainOK(w), Placed(w)
  PROVE  Placed(Leave(w)) /\ Entered(Leave(w)) \subseteq Entered(w)
<1> DEFINE x == Leave(w)
           n == Len(w.stack)
<1>1. /\ x.stack = Below(w) /\ x.visiting = w.visiting \ {Top(w).role}
      /\ x.visited = w.visited \cup {Top(w).role}
  BY DEF Leave
<1>2. /\ w.stack \in Seq(FrameType) /\ n \in Nat \ {0} /\ Top(w) = w.stack[n]
      /\ \A i \in 1 .. n - 1 : w.stack[i] \in FrameType
  BY DEF Walks, Top
<1>3. Len(Below(w)) = n - 1 /\ \A i \in 1 .. n - 1 : Below(w)[i] = w.stack[i]
  BY <1>2, SubSeqProperties DEF Below
<1>4. /\ Height(w) = n /\ Height(x) = n - 1 /\ Top(w).role = RoleAt(w, n)
      /\ \A i \in 1 .. n - 1 : RoleAt(x, i) = RoleAt(w, i)
  BY <1>1, <1>2, <1>3 DEF Height, RoleAt
<1> HIDE DEF x, n
<1>5. Top(w).role \in w.visiting
  BY <1>2, <1>4 DEF ChainOK
<1>6. Placed(x)
  BY <1>2, <1>4 DEF Placed
<1>7. Entered(x) \subseteq Entered(w)
  BY <1>1, <1>5 DEF Entered
<1> QED
  BY <1>6, <1>7 DEF x

LEMMA DepthNext ==
  ASSUME EditableRoles = {}
  PROVE  GraphInv /\ DepthInv /\ [Next]_vars => DepthInv'
<1> SUFFICES ASSUME GraphInv, DepthInv, [Next]_vars PROVE DepthInv'
  OBVIOUS
<1>t. /\ parents \in [Roles -> SUBSET Roles] /\ root \in Roles /\ walk \in Walks
      /\ outcome = "walking" => ChainOK(walk) /\ Explored(walk) /\ Placed(walk)
      /\ outcome = "walking" => \A r \in Entered(walk) : Within(r)
  BY DEF GraphInv, ShapeInv, TypeOK, DepthInv
<1>u. UNCHANGED <<parents, root>>
  BY DEF Next, Step, Edit, Enter, LeaveRole, Finish, ReadFails, DepthExceeded,
         CycleDetected, SkipVisited, Visit, Fail, vars
<1>v. /\ (Placed(walk))' <=> Placed(walk')
      /\ (Entered(walk))' = Entered(walk')
      /\ \A r : (Within(r))' <=> Within(r)
      /\ (ChainEnds(root, MaxDepth + 1))' = ChainEnds(root, MaxDepth + 1)
  <2>1. \A n : (ChainEnds(root, n))' = ChainEnds(root, n)
    BY <1>u DEF ChainEnds
  <2> QED
    BY <2>1 DEF Placed, Entered, Within, Height, RoleAt
<1>w. ASSUME outcome' = "walking", Placed(walk'), \A r \in Entered(walk') : Within(r)
      PROVE  DepthInv'
  BY <1>v, <1>w DEF DepthInv
<1>e. ASSUME outcome' \in {"cycle", "source_error"} PROVE DepthInv'
  BY <1>e DEF DepthInv
<1>1. CASE Enter
  <2>1. outcome' = "walking" /\ walk' = NewWalk(root, parents[root])
    BY <1>1 DEF Enter
  <2> QED
    BY <1>t, <1>w, <2>1, NewWalkPlaced
<1>2. CASE LeaveRole
  <2>1. /\ outcome = "walking" /\ outcome' = outcome /\ walk' = Leave(walk)
        /\ walk.stack # << >>
    BY <1>2 DEF LeaveRole
  <2> QED
    BY <1>t, <1>w, <2>1, LeavePlaced
<1>3. CASE Finish
  <2>1. outcome = "walking" /\ outcome' = "ok" /\ walk' = walk
    BY <1>3 DEF Finish
  <2> QED
    BY <1>t, <1>v, <2>1 DEF DepthInv
<1>4. CASE ReadFails
  BY <1>4, <1>e DEF ReadFails, Fail
<1>5. ASSUME NEW p \in Roles, DepthExceeded(p) PROVE DepthInv'
  <2>1. /\ outcome = "walking" /\ walk.stack # << >> /\ p \in Top(walk).rest
        /\ TooDeep(walk, MaxDepth) /\ outcome' = "depth" /\ blamed' = p
    BY <1>5 DEF DepthExceeded, Drawing, Fail
  <2>2. Len(walk.stack) \in Nat \ {0} /\ p \in ChainEnds(root, Len(walk.stack))
    BY <1>t, <2>1, NextInChain
  <2>3. /\ DepthAt(walk, Len(walk.stack)) = Len(walk.stack) - 1
        /\ Len(walk.stack) <= MaxDepth + 1
    BY <1>t, <2>1, <2>2 DEF ChainOK, Height
  <2>4. Len(walk.stack) = MaxDepth + 1
    BY <2>1, <2>2, <2>3, MaxDepthAssumption DEF TooDeep, Top, DepthAt
  <2> QED
    BY <1>v, <2>1, <2>2, <2>4 DEF DepthInv
<1>6. ASSUME NEW p \in Roles, CycleDetected(p) PROVE DepthInv'
  BY <1>6, <1>e DEF CycleDetected, Fail
<1>7. ASSUME NEW p \in Roles, SkipVisited(p) PROVE DepthInv'
  <2>1. /\ outcome = "walking" /\ outcome' = outcome /\ walk' = Skip(walk, p)
        /\ walk.stack # << >>
    BY <1>7 DEF SkipVisited, Drawing
  <2> QED
    BY <1>t, <1>w, <2>1, SkipPlaced
<1>8. ASSUME NEW p \in Roles, Visit(p) PROVE DepthInv'
  <2>1. /\ outcome = "walking" /\ outcome' = outcome
        /\ walk' = Descend(walk, p, parents[p])
        /\ walk.stack # << >> /\ p \in Top(walk).rest /\ ~ TooDeep(walk, MaxDepth)
    BY <1>8 DEF Visit, Fresh, Drawing
  <2>2. Placed(walk') /\ Entered(walk') = Entered(walk) \cup {p} /\ Within(p)
    BY <1>t, <2>1, DescendPlaced
  <2> QED
    BY <1>t, <1>w, <2>1, <2>2
<1>9. ~ Edit
  BY DEF Edit
<1>10. CASE UNCHANGED vars
  <2>1. walk' = walk /\ outcome' = outcome /\ blamed' = blamed
    BY <1>10 DEF vars
  <2> QED
    BY <1>v, <2>1 DEF DepthInv
<1> QED
  BY <1>1, <1>2, <1>3, <1>4, <1>5, <1>6, <1>7, <1>8, <1>9, <1>10 DEF Next, Step

LEMMA DepthHolds ==
  ASSUME EditableRoles = {}
  PROVE  Spec => [](GraphInv /\ DepthInv)
<1>1. Init => DepthInv
  BY DEF Init, DepthInv
<1>2. GraphInv /\ DepthInv /\ [Next]_vars => DepthInv'
  BY DepthNext
<1> QED
  BY <1>1, <1>2, GraphHolds, PTL DEF Spec

(* A depth error of an expansion of a graph nobody edits names a role that  *)
(* a chain longer than the limit ends in.                                   *)
THEOREM DepthErrorsReal ==
  ASSUME EditableRoles = {}
  PROVE  Spec => []DepthErrorIsReal
<1>1. DepthInv => DepthErrorIsReal
  BY DEF DepthInv, DepthErrorIsReal
<1> QED
  BY <1>1, DepthHolds, PTL

(* No role is inherited from farther away than the depth limit when the     *)
(* graph is not edited.                                                     *)
THEOREM WithinDepth ==
  ASSUME EditableRoles = {}
  PROVE  Spec => []InheritedWithinDepth
<1>1. GraphInv /\ DepthInv => InheritedWithinDepth
  <2> SUFFICES ASSUME GraphInv, DepthInv, outcome = "ok", NEW r \in Range(walk.output)
               PROVE  \E n \in 0 .. MaxDepth : r \in ChainEnds(root, n)
    BY DEF InheritedWithinDepth
  <2>1. r \in Entered(walk)
    BY DEF GraphInv, ShapeInv, OutputOK, Entered
  <2> QED
    BY <2>1 DEF DepthInv, Within
<1> QED
  BY <1>1, DepthHolds, PTL
===============================================================================
