------------------------- MODULE PlatformEngineProofs -------------------------
(***************************************************************************)
(* Proofs about PlatformEngine for any principals, roles, tenants, paths,  *)
(* engines and sources, and any number of edits: a request that reads its  *)
(* source bit by bit collects at least the grants the source has held all  *)
(* the while, and at most those it has held at some moment; and what is    *)
(* decided from the scopes of those grants.                                *)
(***************************************************************************)
EXTENDS PlatformEngine, SequenceLemmas, SequenceTheorems, TLAPS

-------------------------------------------------------------------------------
(* A sequence lists one element more.                                       *)
LEMMA AppendSequence ==
  ASSUME NEW T, NEW q \in Seq(T), NEW e \in T
  PROVE  Append(q, e) \in Seq(T) /\ Range(Append(q, e)) = Range(q) \cup {e}
<1> SUFFICES ASSUME NEW u, u = Append(q, e)
             PROVE  u \in Seq(T) /\ Range(u) = Range(q) \cup {e}
  OBVIOUS
<1>1. /\ u \in Seq(T) /\ Len(u) = Len(q) + 1
      /\ \A i \in 1 .. Len(q) : u[i] = q[i]
      /\ u[Len(q) + 1] = e
      /\ DOMAIN u = 1 .. Len(q) + 1 /\ DOMAIN q = 1 .. Len(q) /\ Len(q) \in Nat
  OBVIOUS
<1> QED
  BY <1>1 DEF Range

-------------------------------------------------------------------------------
(* What one source holds, another does too.                                 *)

Within(s, t) ==
  /\ \A p \in Principals :
       /\ s.principals[p] => t.principals[p]
       /\ s.assignments[p] \subseteq t.assignments[p]
  /\ \A r \in Roles :
       s.permissions[r] \subseteq t.permissions[r] /\ s.parents[r] \subseteq t.parents[r]

LEMMA WithinTransitive ==
  ASSUME NEW s, NEW t, NEW u, Within(s, t), Within(t, u)
  PROVE  Within(s, u)
BY DEF Within

LEMMA JoinFacts ==
  ASSUME NEW s \in SourceType, NEW t \in SourceType
  PROVE  Join(s, t) \in SourceType /\ Within(s, Join(s, t)) /\ Within(t, Join(s, t))
<1>1. /\ Join(s, t).principals = [p \in Principals |-> s.principals[p] \/ t.principals[p]]
      /\ Join(s, t).assignments = [p \in Principals |-> s.assignments[p] \cup t.assignments[p]]
      /\ Join(s, t).permissions = [r \in Roles |-> s.permissions[r] \cup t.permissions[r]]
      /\ Join(s, t).parents = [r \in Roles |-> s.parents[r] \cup t.parents[r]]
  BY DEF Join
<1>2. Join(s, t) \in SourceType
  BY DEF Join, SourceType
<1> QED
  BY <1>1, <1>2 DEF Within

LEMMA MeetFacts ==
  ASSUME NEW s \in SourceType, NEW t \in SourceType
  PROVE  Meet(s, t) \in SourceType /\ Within(Meet(s, t), s) /\ Within(Meet(s, t), t)
<1>1. /\ Meet(s, t).principals = [p \in Principals |-> s.principals[p] /\ t.principals[p]]
      /\ Meet(s, t).assignments = [p \in Principals |-> s.assignments[p] \cap t.assignments[p]]
      /\ Meet(s, t).permissions = [r \in Roles |-> s.permissions[r] \cap t.permissions[r]]
      /\ Meet(s, t).parents = [r \in Roles |-> s.parents[r] \cap t.parents[r]]
  BY DEF Meet
<1>2. Meet(s, t) \in SourceType
  BY DEF Meet, SourceType
<1>3. /\ \A p \in Principals : Meet(s, t).principals[p] <=> s.principals[p] /\ t.principals[p]
      /\ \A p \in Principals : Meet(s, t).assignments[p] = s.assignments[p] \cap t.assignments[p]
      /\ \A r \in Roles : Meet(s, t).permissions[r] = s.permissions[r] \cap t.permissions[r]
      /\ \A r \in Roles : Meet(s, t).parents[r] = s.parents[r] \cap t.parents[r]
  BY <1>1, Zenon
<1> QED
  BY <1>2, <1>3 DEF Within

LEMMA WithinItself == ASSUME NEW s PROVE Within(s, s)
BY DEF Within

-------------------------------------------------------------------------------
(* Ancestors: the role itself, closed under parents, within any closed set  *)
(* the role is in; and the more of them, the more a source holds.           *)

LEMMA AncestorsFacts ==
  ASSUME NEW s \in SourceType, NEW r \in Roles
  PROVE  /\ r \in Ancestors(s, r) /\ Ancestors(s, r) \in SUBSET Roles
         /\ \A x \in Ancestors(s, r) : s.parents[x] \subseteq Ancestors(s, r)
         /\ \A S \in SUBSET Roles :
              r \in S /\ (\A x \in S : s.parents[x] \subseteq S) => Ancestors(s, r) \subseteq S
<1>1. r \in Ancestors(s, r) /\ Ancestors(s, r) \in SUBSET Roles
  BY DEF Ancestors
<1>2. ASSUME NEW x \in Ancestors(s, r), NEW y \in s.parents[x] PROVE y \in Ancestors(s, r)
  <2>1. x \in Roles /\ y \in Roles
    BY <1>1, <1>2 DEF SourceType
  <2>2. ASSUME NEW S \in SUBSET Roles, r \in S, \A z \in S : s.parents[z] \subseteq S
        PROVE  y \in S
    <3>1. x \in S
      BY <2>2 DEF Ancestors
    <3> QED
      BY <2>2, <3>1
  <2> QED
    BY <2>1, <2>2 DEF Ancestors
<1>3. \A S \in SUBSET Roles :
        r \in S /\ (\A x \in S : s.parents[x] \subseteq S) => Ancestors(s, r) \subseteq S
  BY DEF Ancestors
<1> QED
  BY <1>1, <1>2, <1>3

LEMMA AncestorsMonotone ==
  ASSUME NEW s \in SourceType, NEW t \in SourceType, Within(s, t), NEW r \in Roles
  PROVE  Ancestors(s, r) \subseteq Ancestors(t, r)
<1>1. /\ r \in Ancestors(t, r) /\ Ancestors(t, r) \in SUBSET Roles
      /\ \A x \in Ancestors(t, r) : t.parents[x] \subseteq Ancestors(t, r)
  BY AncestorsFacts
<1>2. \A x \in Ancestors(t, r) : s.parents[x] \subseteq Ancestors(t, r)
  BY <1>1 DEF Within
<1> QED
  BY <1>1, <1>2, AncestorsFacts

LEMMA RolesGivenFacts ==
  ASSUME NEW s \in SourceType, NEW t \in SourceType, Within(s, t), NEW r \in Roles
  PROVE  RolesGiven(s, r) \in SUBSET Roles /\ RolesGiven(s, r) \subseteq RolesGiven(t, r)
BY AncestorsFacts, AncestorsMonotone DEF RolesGiven

-------------------------------------------------------------------------------
(* The walk of an expansion, over a graph that changes under it.            *)

Height(w) == Len(w.stack)
RoleAt(w, i) == w.stack[i].role
RestAt(w, i) == w.stack[i].rest

(* What is put out is visited or in progress.                               *)
Accounted(w) == Range(w.output) = w.visited \cup {RoleAt(w, i) : i \in 1 .. Height(w)}

(* Of a graph g that has been there all the while: the parents of a visited *)
(* role are visited, those of a role in progress are visited, still to come *)
(* or next on the stack.                                                    *)
Explored(w, g) ==
  /\ \A x \in w.visited : g[x] \subseteq w.visited
  /\ \A i \in 1 .. Height(w) : \A q \in g[RoleAt(w, i)] :
       \/ q \in RestAt(w, i) \/ q \in w.visited
       \/ i < Height(w) /\ q = RoleAt(w, i + 1)

(* Of the roles that any graph so far has had above the root: nothing else  *)
(* is put out or to come.                                                   *)
Reached(w, above) ==
  /\ Range(w.output) \subseteq above
  /\ \A i \in 1 .. Height(w) : RestAt(w, i) \subseteq above

Walks == Expansion!Walks
FrameType == Expansion!FrameType

LEMMA StackFacts ==
  ASSUME NEW w \in Walks, w.stack # << >>
  PROVE  /\ Height(w) \in Nat \ {0} /\ w.stack \in Seq(FrameType)
         /\ \A i \in 1 .. Height(w) : w.stack[i] \in FrameType
         /\ Expansion!Top(w) = w.stack[Height(w)]
         /\ Expansion!Below(w) \in Seq(FrameType) /\ Len(Expansion!Below(w)) = Height(w) - 1
         /\ \A i \in 1 .. Height(w) - 1 : Expansion!Below(w)[i] = w.stack[i]
<1>1. w.stack \in Seq(FrameType) /\ Height(w) \in Nat \ {0}
  BY DEF Walks, Expansion!Walks, FrameType, Height
<1>2. \A i \in 1 .. Height(w) : w.stack[i] \in FrameType
  BY <1>1 DEF Height
<1>3. \A i \in 1 .. Height(w) - 1 : w.stack[i] \in FrameType
  BY <1>1, <1>2
<1> QED
  BY <1>1, <1>2, <1>3, SubSeqProperties DEF Height, Expansion!Top, Expansion!Below

(* Drawing a parent takes it from what the top role has to come.            *)
LEMMA DrawnFacts ==
  ASSUME NEW w \in Walks, w.stack # << >>, NEW p \in Roles
  PROVE  LET d == Expansion!Drawn(w, p) IN
         /\ d \in Seq(FrameType) /\ Len(d) = Height(w)
         /\ \A i \in 1 .. Height(w) : d[i].role = RoleAt(w, i)
         /\ \A i \in 1 .. Height(w) - 1 : d[i].rest = RestAt(w, i)
         /\ d[Height(w)].rest = RestAt(w, Height(w)) \ {p}
<1> DEFINE n == Height(w)
           top == w.stack[n]
           f == Expansion!Frame(top.role, top.depth, top.rest \ {p})
           d == Append(Expansion!Below(w), f)
<1>1. /\ n \in Nat \ {0} /\ top \in FrameType /\ Expansion!Top(w) = top
      /\ Expansion!Below(w) \in Seq(FrameType) /\ Len(Expansion!Below(w)) = n - 1
      /\ \A i \in 1 .. n - 1 : Expansion!Below(w)[i] = w.stack[i]
  BY StackFacts
<1>2. f \in FrameType /\ f.role = top.role /\ f.rest = top.rest \ {p}
  BY <1>1 DEF FrameType, Expansion!FrameType, Expansion!Frame
<1>3. d = Expansion!Drawn(w, p)
  BY <1>1 DEF Expansion!Drawn
<1> HIDE DEF n, f
<1>4. /\ d \in Seq(FrameType) /\ Len(d) = n
      /\ \A i \in 1 .. n - 1 : d[i] = w.stack[i]
      /\ d[n] = f
  BY <1>1, <1>2, AppendProperties
<1> HIDE DEF d
<1>5. \A i \in 1 .. n : i = n \/ i \in 1 .. n - 1
  BY <1>1
<1> QED
  BY <1>2, <1>3, <1>4, <1>5 DEF RoleAt, RestAt, n

(* A visited role is skipped.                                               *)
LEMMA SkipWalk ==
  ASSUME NEW w \in Walks, w.stack # << >>, NEW p \in Roles, p \in w.visited,
         NEW g \in [Roles -> SUBSET Roles], Explored(w, g), Accounted(w),
         NEW above, Reached(w, above)
  PROVE  LET x == Expansion!Skip(w, p) IN
         x \in Walks /\ Explored(x, g) /\ Accounted(x) /\ Reached(x, above)
<1> DEFINE x == Expansion!Skip(w, p)
           n == Height(w)
<1>1. /\ x.stack = Expansion!Drawn(w, p) /\ x.visited = w.visited /\ x.output = w.output
      /\ x.visiting = w.visiting
  BY DEF Expansion!Skip
<1>2. n \in Nat \ {0} /\ Height(x) = n
  BY <1>1, StackFacts, DrawnFacts DEF Height
<1>3. /\ \A i \in 1 .. n : RoleAt(x, i) = RoleAt(w, i)
      /\ \A i \in 1 .. n - 1 : RestAt(x, i) = RestAt(w, i)
      /\ RestAt(x, n) = RestAt(w, n) \ {p}
  BY <1>1, DrawnFacts DEF RoleAt, RestAt
<1>4. x \in Walks
  <2>1. x.stack \in Seq(FrameType)
    BY <1>1, DrawnFacts
  <2>2. x = [stack |-> x.stack, visiting |-> x.visiting, visited |-> x.visited,
             output |-> x.output]
    BY DEF Expansion!Skip
  <2> QED
    BY <1>1, <2>1, <2>2 DEF Walks, Expansion!Walks, FrameType
<1> HIDE DEF x, n
<1>5. \A i \in 1 .. n : i = n \/ i \in 1 .. n - 1
  BY <1>2
<1>6. \A i \in 1 .. n : RestAt(x, i) \subseteq RestAt(w, i)
                       /\ \A q \in RestAt(w, i) : q \in RestAt(x, i) \/ q \in w.visited
  BY <1>3, <1>5
<1>7. Explored(x, g)
  <2>1. ASSUME NEW i \in 1 .. n, NEW q \in g[RoleAt(x, i)]
        PROVE  \/ q \in RestAt(x, i) \/ q \in x.visited
               \/ i < n /\ q = RoleAt(x, i + 1)
    <3>1. \/ q \in RestAt(w, i) \/ q \in w.visited
          \/ i < n /\ q = RoleAt(w, i + 1)
      BY <1>3 DEF Explored, n
    <3>2. i < n => i + 1 \in 1 .. n
      BY <1>2
    <3> QED
      BY <1>1, <1>3, <1>6, <3>1, <3>2
  <2> QED
    BY <1>1, <1>2, <2>1 DEF Explored
<1>8. Accounted(x)
  <2>1. {RoleAt(x, i) : i \in 1 .. n} = {RoleAt(w, i) : i \in 1 .. n}
    BY <1>3
  <2> QED
    BY <1>1, <1>2, <2>1 DEF Accounted, n
<1>9. Reached(x, above)
  BY <1>1, <1>2, <1>6 DEF Reached, n
<1> QED
  BY <1>4, <1>7, <1>8, <1>9 DEF x

(* A new role is entered, with the parents it has at this moment.           *)
LEMMA DescendWalk ==
  ASSUME NEW w \in Walks, w.stack # << >>, NEW p \in Roles,
         ~ Expansion!TooDeep(w, MaxDepth), p \in Expansion!Top(w).rest,
         NEW g \in [Roles -> SUBSET Roles], Explored(w, g), Accounted(w),
         NEW above, Reached(w, above),
         NEW ps \in SUBSET Roles, g[p] \subseteq ps, ps \subseteq above
  PROVE  LET x == Expansion!Descend(w, p, ps) IN
         x \in Walks /\ Explored(x, g) /\ Accounted(x) /\ Reached(x, above)
<1> DEFINE x == Expansion!Descend(w, p, ps)
           n == Height(w)
           d == Expansion!Drawn(w, p)
           f == Expansion!Frame(p, Expansion!Top(w).depth + 1, ps)
<1>1. /\ x.stack = Append(d, f) /\ x.visited = w.visited /\ x.output = Append(w.output, p)
      /\ x.visiting = w.visiting \cup {p}
  BY DEF Expansion!Descend
<1>2. /\ n \in Nat \ {0} /\ Expansion!Top(w) \in FrameType
      /\ RestAt(w, n) = Expansion!Top(w).rest
  BY StackFacts DEF RestAt
<1>3. f \in FrameType /\ f.role = p /\ f.rest = ps
  BY <1>2, BoundsAssumption
     DEF FrameType, Expansion!FrameType, Expansion!Frame, Expansion!TooDeep
<1>4. d \in Seq(FrameType) /\ Len(d) = n
  BY DrawnFacts
<1>5. /\ x.stack \in Seq(FrameType) /\ Len(x.stack) = n + 1
      /\ \A i \in 1 .. n : x.stack[i] = d[i]
      /\ x.stack[n + 1] = f
  BY <1>1, <1>3, <1>4, AppendProperties
<1>6. /\ Height(x) = n + 1
      /\ \A i \in 1 .. n : RoleAt(x, i) = RoleAt(w, i)
      /\ \A i \in 1 .. n - 1 : RestAt(x, i) = RestAt(w, i)
      /\ RestAt(x, n) = RestAt(w, n) \ {p}
      /\ RoleAt(x, n + 1) = p /\ RestAt(x, n + 1) = ps
  <2>1. /\ \A i \in 1 .. n : d[i].role = RoleAt(w, i)
        /\ \A i \in 1 .. n - 1 : d[i].rest = RestAt(w, i)
        /\ d[n].rest = RestAt(w, n) \ {p}
    BY DrawnFacts
  <2>2. n \in 1 .. n /\ \A i \in 1 .. n - 1 : i \in 1 .. n
    BY <1>2
  <2> HIDE DEF d, f, n
  <2> QED
    BY <1>3, <1>5, <2>1, <2>2 DEF Height, RoleAt, RestAt
<1>7. /\ w.output \in Seq(Roles) /\ x.output \in Seq(Roles)
      /\ Range(x.output) = Range(w.output) \cup {p}
  <2>1. w.output \in Seq(Roles)
    BY DEF Walks, Expansion!Walks
  <2> QED
    BY <1>1, <2>1, AppendSequence
<1>8. x \in Walks
  <2>1. x = [stack |-> x.stack, visiting |-> x.visiting, visited |-> x.visited,
             output |-> x.output]
    BY DEF Expansion!Descend
  <2>2. x.visiting \in SUBSET Roles /\ x.visited \in SUBSET Roles
    BY <1>1 DEF Walks, Expansion!Walks
  <2> QED
    BY <1>5, <1>7, <2>1, <2>2 DEF Walks, Expansion!Walks, FrameType
<1> HIDE DEF x, n, d, f
<1>9. \A i \in 1 .. n + 1 : i = n + 1 \/ i = n \/ i \in 1 .. n - 1
  BY <1>2
<1>10. Explored(x, g)
  <2>1. ASSUME NEW i \in 1 .. n + 1, NEW q \in g[RoleAt(x, i)]
        PROVE  \/ q \in RestAt(x, i) \/ q \in x.visited
               \/ i < n + 1 /\ q = RoleAt(x, i + 1)
    <3>1. CASE i = n + 1
      BY <1>6, <3>1
    <3>2. CASE i \in 1 .. n
      <4>1. \/ q \in RestAt(w, i) \/ q \in w.visited
            \/ i < n /\ q = RoleAt(w, i + 1)
        BY <1>6, <3>2 DEF Explored, n
      <4>2. CASE q \in RestAt(w, i)
        BY <1>2, <1>6, <1>9, <3>2, <4>2
      <4>3. CASE i < n /\ q = RoleAt(w, i + 1)
        <5>1. i + 1 \in 1 .. n
          BY <1>2, <3>2, <4>3
        <5> QED
          BY <1>2, <1>6, <4>3, <5>1
      <4> QED
        BY <1>1, <4>1, <4>2, <4>3
    <3> QED
      BY <1>2, <3>1, <3>2
  <2> QED
    BY <1>1, <1>6, <2>1 DEF Explored
<1>11. Accounted(x)
  <2>1. {RoleAt(x, i) : i \in 1 .. n + 1} = {RoleAt(w, i) : i \in 1 .. n} \cup {p}
    <3>1. 1 .. n + 1 = (1 .. n) \cup {n + 1}
      BY <1>2
    <3> QED
      BY <1>6, <3>1
  <2> QED
    BY <1>1, <1>6, <1>7, <2>1 DEF Accounted, n
<1>12. Reached(x, above)
  <2>1. p \in above
    BY <1>2 DEF Reached, n
  <2>2. \A i \in 1 .. n : RestAt(w, i) \subseteq above
    BY DEF Reached, n
  <2>3. n \in 1 .. n /\ \A i \in 1 .. n - 1 : i \in 1 .. n
    BY <1>2
  <2>4. \A i \in 1 .. n + 1 : RestAt(x, i) \subseteq above
    BY <1>6, <1>9, <2>2, <2>3
  <2> QED
    BY <1>6, <1>7, <2>1, <2>4 DEF Reached
<1> QED
  BY <1>8, <1>10, <1>11, <1>12 DEF x

(* The top role, with no parents to come, is left: it is visited now.       *)
LEMMA LeaveWalk ==
  ASSUME NEW w \in Walks, w.stack # << >>, Expansion!Top(w).rest = {},
         NEW g \in [Roles -> SUBSET Roles], Explored(w, g), Accounted(w),
         NEW above, Reached(w, above)
  PROVE  LET x == Expansion!Leave(w) IN
         x \in Walks /\ Explored(x, g) /\ Accounted(x) /\ Reached(x, above)
<1> DEFINE x == Expansion!Leave(w)
           n == Height(w)
           r == RoleAt(w, n)
<1>1. /\ n \in Nat \ {0} /\ Expansion!Top(w) = w.stack[n] /\ w.stack[n] \in FrameType
      /\ Expansion!Below(w) \in Seq(FrameType) /\ Len(Expansion!Below(w)) = n - 1
      /\ \A i \in 1 .. n - 1 : Expansion!Below(w)[i] = w.stack[i]
  BY StackFacts
<1>2. r \in Roles /\ r = Expansion!Top(w).role /\ RestAt(w, n) = {}
  BY <1>1 DEF FrameType, Expansion!FrameType, RoleAt, RestAt
<1>3. /\ x.stack = Expansion!Below(w) /\ x.visited = w.visited \cup {r}
      /\ x.output = w.output /\ x.visiting = w.visiting \ {r}
  BY <1>2 DEF Expansion!Leave
<1>4. /\ Height(x) = n - 1
      /\ \A i \in 1 .. n - 1 : RoleAt(x, i) = RoleAt(w, i) /\ RestAt(x, i) = RestAt(w, i)
  BY <1>1, <1>3 DEF Height, RoleAt, RestAt
<1>5. x \in Walks
  <2>1. x = [stack |-> x.stack, visiting |-> x.visiting, visited |-> x.visited,
             output |-> x.output]
    BY DEF Expansion!Leave
  <2> QED
    BY <1>1, <1>2, <1>3, <2>1 DEF Walks, Expansion!Walks, FrameType
<1> HIDE DEF x, n, r
<1>6. g[r] \subseteq w.visited
  <2>1. n \in 1 .. n
    BY <1>1
  <2> QED
    BY <1>1, <1>2, <2>1 DEF Explored, n, r
<1>7. Explored(x, g)
  <2>1. \A y \in x.visited : g[y] \subseteq x.visited
    BY <1>3, <1>6 DEF Explored
  <2>2. ASSUME NEW i \in 1 .. n - 1, NEW q \in g[RoleAt(x, i)]
        PROVE  \/ q \in RestAt(x, i) \/ q \in x.visited
               \/ i < n - 1 /\ q = RoleAt(x, i + 1)
    <3>1. \/ q \in RestAt(w, i) \/ q \in w.visited
          \/ i < n /\ q = RoleAt(w, i + 1)
      BY <1>1, <1>4 DEF Explored, n
    <3>2. CASE i < n /\ q = RoleAt(w, i + 1)
      <4>1. CASE i = n - 1
        <5>1. i + 1 = n
          BY <1>1, <4>1
        <5> QED
          BY <1>3, <3>2, <5>1 DEF r
      <4>2. CASE i < n - 1
        <5>1. i + 1 \in 1 .. n - 1
          BY <1>1, <4>2
        <5> QED
          BY <1>4, <3>2, <4>2, <5>1
      <4> QED
        BY <1>1, <4>1, <4>2
    <3> QED
      BY <1>3, <1>4, <3>1, <3>2
  <2> QED
    BY <1>4, <2>1, <2>2 DEF Explored
<1>8. Accounted(x)
  <2>1. {RoleAt(w, i) : i \in 1 .. n} = {RoleAt(x, i) : i \in 1 .. n - 1} \cup {r}
    <3>1. 1 .. n = (1 .. n - 1) \cup {n}
      BY <1>1
    <3> QED
      BY <1>4, <3>1 DEF r
  <2> QED
    BY <1>3, <1>4, <2>1 DEF Accounted, n
<1>9. Reached(x, above)
  <2>1. \A i \in 1 .. n - 1 : i \in 1 .. n
    BY <1>1
  <2> QED
    BY <1>3, <1>4, <2>1 DEF Reached, n
<1> QED
  BY <1>5, <1>7, <1>8, <1>9 DEF x

-------------------------------------------------------------------------------
(* What is decided from scopes.                                             *)

(* Paths without those another one covers allow what all of them allow: the *)
(* shortest path that allows it is covered by no other.                     *)
LEMMA CompactAllows ==
  ASSUME NEW paths \in SUBSET ScopePaths, NEW target \in ScopePaths
  PROVE  (\E p \in compact_paths(paths) : allows(p, target))
           <=> \E p \in paths : allows(p, target)
<1> DEFINE Segments == UNION {Range(path) : path \in ScopePaths}
           S == {p \in paths : allows(p, target)}
           lengths == {Len(p) : p \in S}
<1>1. \A p \in ScopePaths : p \in Seq(Segments)
  BY PathsAssumption
<1> HIDE DEF Segments
<1>2. ASSUME NEW q \in ScopePaths, NEW p \in ScopePaths, NEW t \in ScopePaths,
             allows(q, p), allows(p, t)
      PROVE  allows(q, t) /\ Len(q) <= Len(p) /\ (Len(q) = Len(p) => q = p)
  <2>1. q \in Seq(Segments) /\ p \in Seq(Segments) /\ t \in Seq(Segments)
    BY <1>1
  <2>2. /\ Len(q) \in Nat /\ Len(p) \in Nat /\ Len(t) \in Nat
        /\ DOMAIN q = 1 .. Len(q) /\ DOMAIN p = 1 .. Len(p)
    BY <2>1
  <2>3. /\ Len(q) <= Len(p) /\ \A i \in 1 .. Len(q) : q[i] = p[i]
    BY <1>2, <2>1, <2>2 DEF allows, IsPrefix
  <2>4. /\ Len(p) <= Len(t) /\ \A i \in 1 .. Len(p) : p[i] = t[i]
    BY <1>2, <2>1, <2>2 DEF allows, IsPrefix
  <2>5. Len(q) <= Len(t) /\ \A i \in 1 .. Len(q) : q[i] = t[i]
    BY <2>2, <2>3, <2>4
  <2>6. allows(q, t)
    BY <2>1, <2>2, <2>5 DEF allows, IsPrefix
  <2>7. Len(q) = Len(p) => q = p
    BY <2>1, <2>2, <2>3
  <2> QED
    BY <2>3, <2>6, <2>7
<1>3. ASSUME NEW p \in S PROVE \E q \in compact_paths(paths) : allows(q, target)
  <2>1. lengths \in SUBSET Nat /\ lengths # {}
    <3>1. \A q \in S : Len(q) \in Nat
      BY <1>1
    <3> QED
      BY <1>3, <3>1
  <2>2. PICK m \in lengths : \A x \in lengths : m <= x
    BY <2>1, SmallestNat
  <2>3. PICK q \in S : Len(q) = m
    BY <2>2
  <2>4. ASSUME NEW r \in paths, allows(r, q) PROVE r = q
    <3>1. /\ allows(r, target) /\ Len(r) <= Len(q) /\ (Len(r) = Len(q) => r = q)
      BY <1>2, <2>3, <2>4
    <3>2. Len(q) <= Len(r)
      BY <2>2, <2>3, <3>1
    <3>3. Len(q) \in Nat /\ Len(r) \in Nat
      BY <1>1, <2>3
    <3> QED
      BY <3>1, <3>2, <3>3
  <2> QED
    BY <2>3, <2>4 DEF compact_paths
<1> QED
  BY <1>3 DEF compact_paths

(* The kind of a granted scope tells what else it holds.                    *)
LEMMA ScopeFacts ==
  ASSUME NEW s \in GrantScopes
  PROVE  /\ s.kind \in {"platform", "all_tenants", "tenants", "tenant_paths"}
         /\ s = Platform <=> s.kind = "platform"
         /\ s = AllTenants <=> s.kind = "all_tenants"
         /\ s.tenants # {} <=> s.kind = "tenants"
         /\ DOMAIN s.entries # {} <=> s.kind = "tenant_paths"
         /\ \A t \in DOMAIN s.entries : s.entries[t] \in SUBSET ScopePaths
<1> DEFINE P(x) == /\ x.kind \in {"platform", "all_tenants", "tenants", "tenant_paths"}
                   /\ x.tenants # {} <=> x.kind = "tenants"
                   /\ DOMAIN x.entries # {} <=> x.kind = "tenant_paths"
                   /\ \A t \in DOMAIN x.entries : x.entries[t] \in SUBSET ScopePaths
<1>1. /\ Platform.kind = "platform" /\ AllTenants.kind = "all_tenants"
      /\ P(Platform) /\ P(AllTenants)
  BY DEF Platform, AllTenants, ScopeOf, NoEntries
<1>2. ASSUME NEW T \in (SUBSET Tenants) \ {{}}
      PROVE  TenantSet(T).kind = "tenants" /\ P(TenantSet(T))
  <2>1. TenantSet(T).kind = "tenants" /\ TenantSet(T).tenants = T
        /\ TenantSet(T).entries = NoEntries /\ DOMAIN NoEntries = {}
    BY DEF TenantSet, ScopeOf, NoEntries
  <2> QED
    BY <1>2, <2>1
<1>3. ASSUME NEW T \in (SUBSET Tenants) \ {{}}, NEW e \in [T -> RootSets(ScopePaths)]
      PROVE  TenantPaths(e).kind = "tenant_paths" /\ P(TenantPaths(e))
  <2>1. TenantPaths(e).kind = "tenant_paths" /\ TenantPaths(e).tenants = {}
        /\ TenantPaths(e).entries = e
    BY DEF TenantPaths, ScopeOf
  <2>2. DOMAIN e # {} /\ \A t \in DOMAIN e : e[t] \in SUBSET ScopePaths
    <3>1. \A t \in T : e[t] \in SUBSET ScopePaths
      BY DEF RootSets
    <3> QED
      BY <1>3, <3>1
  <2> QED
    BY <2>1, <2>2
<1> HIDE DEF P
<1>4. \/ s = Platform \/ s = AllTenants
      \/ \E T \in (SUBSET Tenants) \ {{}} : s = TenantSet(T)
      \/ \E T \in (SUBSET Tenants) \ {{}} : \E e \in [T -> RootSets(ScopePaths)] :
           s = TenantPaths(e)
  BY DEF GrantScopes, PlatformScopeType
<1>5. /\ P(s)
      /\ \/ s = Platform \/ s = AllTenants \/ s.kind = "tenants" \/ s.kind = "tenant_paths"
  BY <1>1, <1>2, <1>3, <1>4
<1> QED
  BY <1>1, <1>5 DEF P

(* What a query adds up to, told by the kinds of the scopes.                *)
LEMMA MergedFacts ==
  ASSUME NEW scopes \in SUBSET GrantScopes, NEW tenant, NEW target \in ScopePaths
  PROVE  LET m == merge_tenant_data(scopes)
             all == "all_tenants" \in Kinds(scopes)
             named == \E s \in scopes : tenant \in s.tenants
             below == \E s \in scopes :
                        /\ tenant \in DOMAIN s.entries
                        /\ \E path \in s.entries[tenant] : allows(path, target)
         IN  /\ m = Mixed <=> ~ all /\ MixedKinds \subseteq Kinds(scopes)
             /\ m # Mixed => (allows_tenant(m, tenant) <=> all \/ named)
             /\ m # Mixed => (allows_tenant_path(m, tenant, target) <=> all \/ named \/ below)
<1> DEFINE m == merge_tenant_data(scopes)
           all == "all_tenants" \in Kinds(scopes)
           named == \E s \in scopes : tenant \in s.tenants
           below == \E s \in scopes :
                      /\ tenant \in DOMAIN s.entries
                      /\ \E path \in s.entries[tenant] : allows(path, target)
           tenants == UNION {s.tenants : s \in scopes}
           parts == {s.entries : s \in scopes}
           entries == TenantScopeRoots(parts)
<1>1. AllTenants \in scopes <=> all
  BY ScopeFacts DEF Kinds
<1>2. tenants # {} <=> "tenants" \in Kinds(scopes)
  BY ScopeFacts DEF Kinds
<1>3. DOMAIN entries = UNION {DOMAIN e : e \in parts}
  BY DEF TenantScopeRoots
<1>4. DOMAIN entries # {} <=> "tenant_paths" \in Kinds(scopes)
  <2>1. DOMAIN entries # {} <=> \E s \in scopes : DOMAIN s.entries # {}
    <3> HIDE DEF entries
    <3> QED
      BY <1>3
  <2>2. \A s \in scopes : DOMAIN s.entries # {} <=> s.kind = "tenant_paths"
    BY ScopeFacts
  <2> HIDE DEF entries
  <2> QED
    BY <2>1, <2>2 DEF Kinds
<1>5. tenant \in tenants <=> named
  OBVIOUS
<1>6. (tenant \in DOMAIN entries /\ \E path \in entries[tenant] : allows(path, target)) <=> below
  <2>1. CASE tenant \in DOMAIN entries
    <3> DEFINE roots == UNION {e[tenant] : e \in {x \in parts : tenant \in DOMAIN x}}
    <3>1. entries[tenant] = compact_paths(roots)
      BY <1>3, <2>1 DEF TenantScopeRoots
    <3>2. roots \in SUBSET ScopePaths
      BY ScopeFacts
    <3>3. (\E path \in roots : allows(path, target)) <=> below
      OBVIOUS
    <3> HIDE DEF roots, below, entries
    <3> QED
      BY <2>1, <3>1, <3>2, <3>3, CompactAllows
  <2>2. CASE tenant \notin DOMAIN entries
    BY <1>3, <2>2
  <2> QED
    BY <2>1, <2>2
<1>7. m = IF AllTenants \in scopes THEN AllTenants
          ELSE IF tenants # {} /\ DOMAIN entries # {} THEN Mixed
          ELSE IF tenants # {} THEN TenantSet(tenants)
          ELSE IF DOMAIN entries = {} THEN NoTenants ELSE TenantPaths(entries)
  BY DEF merge_tenant_data
<1>8. /\ AllTenants.kind = "all_tenants" /\ Mixed.kind = "mixed"
      /\ TenantSet(tenants).kind = "tenants" /\ TenantSet(tenants).tenants = tenants
      /\ DOMAIN TenantSet(tenants).entries = {}
      /\ NoTenants.kind = "none" /\ NoTenants.tenants = {} /\ DOMAIN NoTenants.entries = {}
      /\ TenantPaths(entries).kind = "tenant_paths" /\ TenantPaths(entries).tenants = {}
      /\ TenantPaths(entries).entries = entries
  BY DEF AllTenants, Mixed, TenantSet, NoTenants, TenantPaths, ScopeOf, NoEntries
<1>9. MixedKinds \subseteq Kinds(scopes)
        <=> "tenants" \in Kinds(scopes) /\ "tenant_paths" \in Kinds(scopes)
  BY DEF MixedKinds
<1> HIDE DEF m, all, named, below, tenants, entries
<1>10. m = Mixed <=> ~ all /\ MixedKinds \subseteq Kinds(scopes)
  BY <1>1, <1>2, <1>4, <1>7, <1>8, <1>9
<1>11. m # Mixed => (allows_tenant(m, tenant) <=> all \/ named)
  BY <1>1, <1>5, <1>7, <1>8 DEF allows_tenant
<1>12. m # Mixed => (allows_tenant_path(m, tenant, target) <=> all \/ named \/ below)
  BY <1>1, <1>5, <1>6, <1>7, <1>8 DEF allows_tenant_path
<1> QED
  BY <1>10, <1>11, <1>12 DEF m, all, named, below

(* A decision from scopes allows what some one of them permits, and is an   *)
(* error just when they mix tenant sets and paths without all tenants.      *)
LEMMA DecideFacts ==
  ASSUME request \in RequestType, NEW scopes \in SUBSET GrantScopes
  PROVE  /\ Decide(scopes) \in {"Allow", "Deny", "mixed"}
         /\ Decide(scopes) = "Allow" => Permitted(scopes)
         /\ Decide(scopes) = "Deny" => ~ Permitted(scopes)
         /\ Decide(scopes) = "mixed"
              <=> /\ request.op # "can_platform" /\ MixedKinds \subseteq Kinds(scopes)
                  /\ "all_tenants" \notin Kinds(scopes)
<1> DEFINE m == merge_tenant_data(scopes)
           all == "all_tenants" \in Kinds(scopes)
           named == \E s \in scopes : request.tenant \in s.tenants
           below == \E s \in scopes :
                      /\ request.tenant \in DOMAIN s.entries
                      /\ \E path \in s.entries[request.tenant] : allows(path, request.target)
<1>1. /\ request.op \in {"can_platform", "can_access_tenant", "can_access_tenant_scope"}
      /\ request.target \in ScopePaths
  BY DEF RequestType
<1>2. /\ m = Mixed <=> ~ all /\ MixedKinds \subseteq Kinds(scopes)
      /\ m # Mixed => (allows_tenant(m, request.tenant) <=> all \/ named)
      /\ m # Mixed => (allows_tenant_path(m, request.tenant, request.target)
                         <=> all \/ named \/ below)
  BY <1>1, MergedFacts
<1>3. \A s \in scopes :
        /\ s = Platform <=> s.kind = "platform"
        /\ s.tenants # {} <=> s.kind = "tenants"
        /\ DOMAIN s.entries # {} <=> s.kind = "tenant_paths"
  BY ScopeFacts
<1>a. all <=> \E s \in scopes : s.kind = "all_tenants"
  BY DEF Kinds
<1>b. named <=> \E s \in scopes : s.kind = "tenants" /\ request.tenant \in s.tenants
  BY <1>3
<1>c. below <=> \E s \in scopes :
                  /\ s.kind = "tenant_paths" /\ request.tenant \in DOMAIN s.entries
                  /\ \E path \in s.entries[request.tenant] : allows(path, request.target)
  BY <1>3
<1>4. CASE request.op = "can_platform"
  <2>1. Platform \in scopes <=> Permitted(scopes)
    BY <1>3, <1>4 DEF Permitted
  <2> QED
    BY <1>4, <2>1 DEF Decide, decision
<1>5. CASE request.op = "can_access_tenant"
  <2>1. Permitted(scopes) <=> all \/ named
    BY <1>5, <1>a, <1>b DEF Permitted
  <2> HIDE DEF all, named, m
  <2>2. Decide(scopes) = IF m = Mixed THEN "mixed" ELSE decision(allows_tenant(m, request.tenant))
    BY <1>5 DEF Decide, m
  <2> QED
    BY <1>2, <1>5, <2>1, <2>2 DEF decision, all
<1>6. CASE request.op = "can_access_tenant_scope"
  <2>1. Permitted(scopes) <=> all \/ named \/ below
    BY <1>6, <1>a, <1>b, <1>c DEF Permitted
  <2> HIDE DEF all, named, below, m
  <2>2. Decide(scopes) = IF m = Mixed THEN "mixed"
                         ELSE decision(allows_tenant_path(m, request.tenant, request.target))
    BY <1>6 DEF Decide, m
  <2> QED
    BY <1>2, <1>6, <2>1, <2>2 DEF decision, all
<1> QED
  BY <1>1, <1>4, <1>5, <1>6

LEMMA PermittedMonotone ==
  ASSUME NEW S, NEW T, S \subseteq T
  PROVE  (Permitted(S) => Permitted(T)) /\ Kinds(S) \subseteq Kinds(T)
<1>1. Kinds(S) \subseteq Kinds(T)
  BY DEF Kinds
<1>2. Permitted(S) => Permitted(T)
  BY DEF Permitted
<1> QED
  BY <1>1, <1>2

-------------------------------------------------------------------------------
(* The invariant.                                                           *)

(* The assignments that count in a source, and what one of them gives.      *)
Own(s) == {a \in s.assignments[request.principal] : s.principals[request.principal]}
Gives(s, a, p) == \E r \in RolesGiven(s, a.role) : p \in s.permissions[r]

HistoryInv == Within(always, source) /\ Within(source, ever)

WalkInv ==
  at = "expand" =>
    /\ root \in Range(walk.output)
    /\ outcome \in {"walking", "ok"} => Explored(walk, always.parents) /\ Accounted(walk)
    /\ outcome = "ok" => walk.stack = << >>

(* What has been read, and what has been made of it, was there at some      *)
(* moment.                                                                  *)
EverInv ==
  /\ at = "assignments" => ever.principals[request.principal]
  /\ todo \subseteq Own(ever)
  /\ at = "expand" =>
       /\ engine.role_hierarchy
       /\ \E a \in Own(ever) : a.role = root /\ a.scope = scope
       /\ Reached(walk, Ancestors(ever, root))
  /\ at = "permissions" =>
       \E a \in Own(ever) : a.scope = scope /\ Range(roles) \subseteq RolesGiven(ever, a.role)
  /\ \A g \in grants : \E a \in Own(ever) : a.scope = g.scope /\ Gives(ever, a, g.permission)

(* Each role that an assignment gives all the while is pending, or all that *)
(* it permits all the while has been collected for the assignment.          *)
Collected(a, pending) ==
  \A r \in RolesGiven(always, a.role) : \A p \in always.permissions[r] :
    r \in pending \/ [permission |-> p, scope |-> a.scope] \in grants

(* Nothing that is there all the while is forgotten: an assignment is still *)
(* to come, done with, or the one in progress.                              *)
AlwaysInv ==
  /\ at = "assignment_loop" =>
       \A a \in Own(always) : a \in todo \/ Collected(a, {})
  /\ at = "expand" =>
       \A a \in Own(always) :
         a \in todo \/ Collected(a, {}) \/ (a.role = root /\ a.scope = scope)
  /\ at = "permissions" =>
       \A a \in Own(always) :
         \/ a \in todo \/ Collected(a, {})
         \/ a.scope = scope /\ Collected(a, Range(roles))

AnswerInv == NothingInvented /\ NothingLost /\ MixedGrantsRefused

Inv == TypeOK /\ HistoryInv /\ WalkInv /\ EverInv /\ AlwaysInv /\ AnswerInv

-------------------------------------------------------------------------------
(* What the parts of the invariant are made of.                             *)

LEMMA OwnFacts ==
  ASSUME request \in RequestType, NEW s \in SourceType, NEW t \in SourceType, Within(s, t)
  PROVE  /\ Own(s) \in SUBSET Assignment /\ Own(s) \subseteq Own(t)
         /\ \A a \in Assignment : \A p : Gives(s, a, p) => Gives(t, a, p)
<1>1. request.principal \in Principals
  BY DEF RequestType
<1>2. s.assignments[request.principal] \in SUBSET Assignment
  BY <1>1 DEF SourceType
<1>3. Own(s) \in SUBSET Assignment /\ Own(s) \subseteq Own(t)
  BY <1>1, <1>2 DEF Own, Within
<1>4. ASSUME NEW a \in Assignment, NEW p, Gives(s, a, p) PROVE Gives(t, a, p)
  <2>1. a.role \in Roles
    BY DEF Assignment
  <2>2. PICK r \in RolesGiven(s, a.role) : p \in s.permissions[r]
    BY <1>4 DEF Gives
  <2>3. r \in Roles /\ r \in RolesGiven(t, a.role)
    BY <2>1, RolesGivenFacts
  <2> QED
    BY <2>2, <2>3 DEF Gives, Within
<1> QED
  BY <1>3, <1>4

(* While nobody edits the source, only what the request does changes.       *)
LEMMA Unmoved ==
  ASSUME Unedited
  PROVE  /\ (Own(ever))' = Own(ever) /\ (Own(always))' = Own(always)
         /\ \A r : /\ (RolesGiven(ever, r))' = RolesGiven(ever, r)
                   /\ (RolesGiven(always, r))' = RolesGiven(always, r)
         /\ \A a, p : (Gives(ever, a, p))' <=> Gives(ever, a, p)
         /\ (Granted(ever))' = Granted(ever) /\ (Granted(always))' = Granted(always)
<1>1. request' = request /\ engine' = engine /\ ever' = ever /\ always' = always
  BY DEF Unedited
<1>2. \A r : /\ (RolesGiven(ever, r))' = RolesGiven(ever, r)
             /\ (RolesGiven(always, r))' = RolesGiven(always, r)
  BY <1>1 DEF RolesGiven
<1>3. (Own(ever))' = Own(ever) /\ (Own(always))' = Own(always)
  BY <1>1 DEF Own
<1>4. \A a, p : (Gives(ever, a, p))' <=> Gives(ever, a, p)
  BY <1>1, <1>2 DEF Gives
<1>5. (Granted(ever))' = Granted(ever) /\ (Granted(always))' = Granted(always)
  BY <1>1, <1>2 DEF Granted
<1> QED
  BY <1>2, <1>3, <1>4, <1>5

LEMMA TypeFacts ==
  ASSUME Inv
  PROVE  /\ source \in SourceType /\ ever \in SourceType /\ always \in SourceType
         /\ Within(always, source) /\ Within(source, ever) /\ Within(always, ever)
         /\ request \in RequestType /\ request.principal \in Principals
         /\ Own(always) \subseteq Own(ever) /\ Own(ever) \in SUBSET Assignment
         /\ at \in Stages /\ (at = "answered" <=> answer # NoAnswer)
<1>1. /\ source \in SourceType /\ ever \in SourceType /\ always \in SourceType
      /\ Within(always, source) /\ Within(source, ever)
      /\ request \in RequestType /\ at \in Stages /\ (at = "answered" <=> answer # NoAnswer)
  BY DEF Inv, TypeOK, HistoryInv
<1>2. Within(always, ever)
  BY <1>1, WithinTransitive
<1>3. request.principal \in Principals
  BY <1>1 DEF RequestType
<1> QED
  BY <1>1, <1>2, <1>3, OwnFacts, WithinItself

LEMMA HistoryKept == HistoryInv /\ Unedited => HistoryInv'
BY DEF HistoryInv, Unedited, Within

(* A step that does not answer violates nothing that is said of answers.    *)
LEMMA NoAnswerYet == answer' = NoAnswer => AnswerInv'
BY DEF NoAnswer, AnswerInv, NothingInvented, NothingLost, MixedGrantsRefused

(* The scopes that are decided from lie between what the source has granted *)
(* all the while and what it has granted at some moment; so does the answer.*)
LEMMA AnswerHolds ==
  ASSUME Inv, Unedited, NEW scopes \in SUBSET GrantScopes,
         Granted(always) \subseteq scopes, scopes \subseteq Granted(ever),
         answer' = Decide(scopes)
  PROVE  AnswerInv'
<1>1. /\ Decide(scopes) \in {"Allow", "Deny", "mixed"}
      /\ Decide(scopes) = "Allow" => Permitted(scopes)
      /\ Decide(scopes) = "Deny" => ~ Permitted(scopes)
      /\ Decide(scopes) = "mixed"
           <=> /\ request.op # "can_platform" /\ MixedKinds \subseteq Kinds(scopes)
               /\ "all_tenants" \notin Kinds(scopes)
  BY TypeFacts, DecideFacts
<1>2. /\ Permitted(scopes) => Permitted(Granted(ever))
      /\ Permitted(Granted(always)) => Permitted(scopes)
      /\ Kinds(scopes) \subseteq Kinds(Granted(ever))
      /\ Kinds(Granted(always)) \subseteq Kinds(scopes)
  BY PermittedMonotone
<1>3. request' = request
  BY DEF Unedited
<1>4. (Granted(ever))' = Granted(ever) /\ (Granted(always))' = Granted(always)
  BY Unmoved
<1>5. /\ (Permitted(Granted(ever)))' <=> Permitted(Granted(ever))
      /\ (Permitted(Granted(always)))' <=> Permitted(Granted(always))
  BY <1>3, <1>4 DEF Permitted
<1>6. /\ (Kinds(Granted(ever)))' = Kinds(Granted(ever))
      /\ (Kinds(Granted(always)))' = Kinds(Granted(always))
  BY <1>4 DEF Kinds
<1>7. NothingInvented' /\ NothingLost'
  BY <1>1, <1>2, <1>5 DEF NothingInvented, NothingLost
<1>8. MixedGrantsRefused'
  BY <1>1, <1>2, <1>3, <1>6 DEF MixedGrantsRefused
<1> QED
  BY <1>7, <1>8 DEF AnswerInv

(* An answer ends the request; nothing else is said of its locals.          *)
LEMMA AnswerKeeps ==
  ASSUME Inv, Unedited, UNCHANGED expansion,
         NEW a \in {"Allow", "Deny"} \cup Errors, Answer(a)
  PROVE  TypeOK' /\ HistoryInv' /\ WalkInv' /\ EverInv' /\ AlwaysInv'
<1>1. at' = "answered" /\ answer' = a /\ UNCHANGED <<todo, scope, roles, grants>>
  BY DEF Answer
<1>2. a # NoAnswer
  BY DEF NoAnswer, Errors, Expansion!Errors
<1>3. TypeOK'
  BY <1>1, <1>2 DEF Inv, TypeOK, Unedited, Stages
<1>4. WalkInv' /\ AlwaysInv'
  BY <1>1 DEF WalkInv, AlwaysInv
<1>5. EverInv'
  BY <1>1, Unmoved DEF Inv, EverInv
<1> QED
  BY <1>3, <1>4, <1>5, HistoryKept DEF Inv

-------------------------------------------------------------------------------
(* The steps of the request.                                                *)

(* Collecting loses nothing.                                                *)
LEMMA CollectedKept ==
  ASSUME Unedited, grants \subseteq grants'
  PROVE  \A a, pending : Collected(a, pending) => (Collected(a, pending))'
<1>1. always' = always /\ \A r : (RolesGiven(always, r))' = RolesGiven(always, r)
  BY Unmoved DEF Unedited
<1> QED
  BY <1>1 DEF Collected

LEMMA GrantsJustified ==
  ASSUME Inv, Unedited, grants' = grants
  PROVE  \A g \in grants' : \E a \in (Own(ever))' :
           a.scope = g.scope /\ (Gives(ever, a, g.permission))'
<1>1. \A g \in grants : \E a \in Own(ever) : a.scope = g.scope /\ Gives(ever, a, g.permission)
  BY DEF Inv, EverInv
<1> QED
  BY <1>1, Unmoved

LEMMA StatusStep == Inv /\ ReadPrincipalStatus => Inv'
<1> SUFFICES ASSUME Inv, ReadPrincipalStatus PROVE Inv'
  OBVIOUS
<1>1. at = "status" /\ Unedited /\ UNCHANGED expansion
  BY DEF ReadPrincipalStatus
<1>2. CASE source.principals[request.principal]
  <2>1. at' = "assignments" /\ UNCHANGED <<todo, scope, roles, grants, answer>>
    BY <1>2 DEF ReadPrincipalStatus
  <2>2. answer = NoAnswer
    BY <1>1, TypeFacts
  <2>3. TypeOK'
    BY <1>1, <2>1, <2>2 DEF Inv, TypeOK, Unedited, Stages
  <2>4. ever.principals[request.principal]
    BY <1>2, TypeFacts DEF Within
  <2>5. todo' \subseteq (Own(ever))'
    BY <1>1, <2>1, Unmoved DEF Inv, EverInv
  <2>6. EverInv'
    BY <1>1, <2>1, <2>4, <2>5, GrantsJustified DEF EverInv, Unedited
  <2>7. WalkInv' /\ AlwaysInv'
    BY <2>1 DEF WalkInv, AlwaysInv
  <2> QED
    BY <1>1, <2>1, <2>2, <2>3, <2>6, <2>7, HistoryKept, NoAnswerYet DEF Inv
<1>3. CASE ~ source.principals[request.principal]
  <2>1. Answer(Decide({}))
    BY <1>3 DEF ReadPrincipalStatus
  <2>2. Granted(always) = {}
    <3>1. ~ always.principals[request.principal]
      BY <1>3, TypeFacts DEF Within
    <3> QED
      BY <3>1 DEF Granted
  <2>3. Decide({}) \in {"Allow", "Deny"} \cup Errors
    BY TypeFacts, DecideFacts DEF Errors
  <2>4. AnswerInv'
    BY <1>1, <2>1, <2>2, AnswerHolds DEF Answer
  <2> QED
    BY <1>1, <2>1, <2>3, <2>4, AnswerKeeps DEF Inv
<1> QED
  BY <1>2, <1>3

LEMMA AssignmentsStep == Inv /\ ReadAssignments => Inv'
<1> SUFFICES ASSUME Inv, ReadAssignments PROVE Inv'
  OBVIOUS
<1>1. /\ at = "assignments" /\ at' = "assignment_loop"
      /\ todo' = source.assignments[request.principal]
      /\ Unedited /\ UNCHANGED <<scope, roles, grants, answer, root, walk, outcome, blamed>>
  BY DEF ReadAssignments
<1>2. answer = NoAnswer /\ todo' \in SUBSET Assignment
  BY <1>1, TypeFacts DEF SourceType
<1>3. TypeOK'
  BY <1>1, <1>2 DEF Inv, TypeOK, Unedited, Stages
<1>4. todo' \subseteq (Own(ever))'
  <2>1. ever.principals[request.principal]
    BY <1>1 DEF Inv, EverInv
  <2>2. todo' \subseteq Own(ever)
    BY <1>1, <2>1, TypeFacts DEF Own, Within
  <2> QED
    BY <1>1, <2>2, Unmoved
<1>5. EverInv'
  BY <1>1, <1>4, GrantsJustified DEF EverInv
<1>6. AlwaysInv'
  <2>1. Own(always) \subseteq todo'
    BY <1>1, TypeFacts DEF Own, Within
  <2>2. \A a \in (Own(always))' : a \in todo'
    BY <1>1, <2>1, Unmoved
  <2> QED
    BY <1>1, <2>2 DEF AlwaysInv
<1>7. WalkInv'
  BY <1>1 DEF WalkInv
<1> QED
  BY <1>1, <1>2, <1>3, <1>5, <1>6, <1>7, HistoryKept, NoAnswerYet DEF Inv

LEMMA TakeStep == ASSUME NEW a \in todo PROVE Inv /\ TakeAssignment(a) => Inv'
<1> SUFFICES ASSUME Inv, TakeAssignment(a) PROVE Inv'
  OBVIOUS
<1>1. /\ at = "assignment_loop" /\ todo' = todo \ {a} /\ scope' = a.scope
      /\ Unedited /\ UNCHANGED <<grants, answer>>
  BY DEF TakeAssignment
<1>2. /\ answer = NoAnswer /\ a \in Assignment /\ a.role \in Roles /\ a.scope \in GrantScopes
      /\ todo \in SUBSET Assignment /\ engine \in Engines
  BY <1>1, TypeFacts DEF Inv, TypeOK, Assignment
<1>3. a \in Own(ever) /\ a \in (Own(ever))' /\ todo' \subseteq (Own(ever))'
  BY <1>1, Unmoved DEF Inv, EverInv
<1>4. \A b \in (Own(always))' : b \in todo' \/ b = a \/ (Collected(b, {}))'
  <2>1. \A b \in Own(always) : b \in todo \/ Collected(b, {})
    BY <1>1 DEF Inv, AlwaysInv
  <2> QED
    BY <1>1, <2>1, Unmoved, CollectedKept
<1>5. CASE engine.role_hierarchy
  <2>1. /\ at' = "expand" /\ roles' = roles
        /\ root' = a.role /\ blamed' = a.role /\ outcome' = "entering"
        /\ walk' = [stack |-> << >>, visiting |-> {a.role}, visited |-> {},
                    output |-> <<a.role>>]
    BY <1>5 DEF TakeAssignment, NoWalk
  <2>2. Range(walk'.output) = {a.role} /\ Len(walk'.stack) = 0
    BY <2>1 DEF Range
  <2>3. (Expansion!TypeOK)'
    <3>1. walk' \in Walks
      BY <1>2, <2>1 DEF Walks, Expansion!Walks
    <3>2. source' = source /\ source.parents \in [Roles -> SUBSET Roles]
      BY <1>1, TypeFacts DEF Unedited, SourceType
    <3> QED
      BY <1>2, <2>1, <3>1, <3>2
         DEF Walks, Expansion!Walks, Expansion!TypeOK, Expansion!Outcomes, Expansion!FrameType
  <2>4. TypeOK'
    BY <1>1, <1>2, <2>1, <2>3 DEF Inv, TypeOK, Unedited, Stages
  <2>5. WalkInv'
    BY <2>1, <2>2 DEF WalkInv
  <2>6. (Reached(walk, Ancestors(ever, root)))'
    <3>1. root' \in Ancestors(ever', root')
      BY <1>1, <1>2, <2>1, TypeFacts, AncestorsFacts DEF Unedited
    <3> QED
      BY <2>1, <2>2, <3>1 DEF Reached, Height
  <2>7. EverInv'
    BY <1>1, <1>3, <1>5, <2>1, <2>6, GrantsJustified DEF EverInv, Unedited
  <2>8. AlwaysInv'
    BY <1>1, <1>4, <2>1 DEF AlwaysInv
  <2> QED
    BY <1>1, <1>2, <2>4, <2>5, <2>7, <2>8, HistoryKept, NoAnswerYet DEF Inv
<1>6. CASE ~ engine.role_hierarchy
  <2>1. at' = "permissions" /\ roles' = <<a.role>> /\ UNCHANGED expansion
    BY <1>6 DEF TakeAssignment
  <2>2. Range(roles') = {a.role} /\ roles' \in Seq(Roles) /\ roles' # << >>
    BY <1>2, <2>1 DEF Range
  <2>3. TypeOK'
    BY <1>1, <1>2, <2>1, <2>2 DEF Inv, TypeOK, Unedited, Stages
  <2>4. /\ (RolesGiven(ever, a.role))' = {a.role}
        /\ (RolesGiven(always, a.role))' = {a.role}
    BY <1>1, <1>6, Unmoved DEF RolesGiven
  <2>5. WalkInv'
    BY <2>1 DEF WalkInv
  <2>6. EverInv'
    BY <1>1, <1>3, <2>1, <2>2, <2>4, GrantsJustified DEF EverInv
  <2>7. (Collected(a, Range(roles)))'
    BY <2>2, <2>4 DEF Collected
  <2>8. AlwaysInv'
    BY <1>1, <1>4, <2>1, <2>7 DEF AlwaysInv
  <2> QED
    BY <1>1, <1>2, <2>3, <2>5, <2>6, <2>8, HistoryKept, NoAnswerYet DEF Inv
<1> QED
  BY <1>5, <1>6

LEMMA ReturnStep == Inv /\ ExpansionReturns => Inv'
<1> SUFFICES ASSUME Inv, ExpansionReturns PROVE Inv'
  OBVIOUS
<1>1. /\ at = "expand" /\ outcome = "ok" /\ at' = "permissions" /\ roles' = walk.output
      /\ Unedited /\ UNCHANGED <<todo, scope, grants, answer, root, outcome, blamed>>
  BY DEF ExpansionReturns
<1>2. /\ answer = NoAnswer /\ root \in Roles /\ walk \in Walks
      /\ walk.output \in Seq(Roles) /\ walk.visited \in SUBSET Roles
  BY <1>1, TypeFacts DEF Inv, TypeOK, Expansion!TypeOK, Walks, Expansion!Walks
<1>3. /\ root \in Range(walk.output) /\ walk.stack = << >>
      /\ Explored(walk, always.parents) /\ Accounted(walk)
  BY <1>1 DEF Inv, WalkInv
<1>4. Range(walk.output) = walk.visited /\ walk.output # << >>
  <2>1. Height(walk) = 0
    BY <1>3 DEF Height
  <2>2. Range(walk.output) = walk.visited
    BY <1>3, <2>1 DEF Accounted
  <2>3. Range(<< >>) = {}
    BY DEF Range
  <2> QED
    BY <1>3, <2>2, <2>3
<1>5. engine.role_hierarchy /\ Reached(walk, Ancestors(ever, root))
  BY <1>1 DEF Inv, EverInv
<1>6. /\ RolesGiven(ever, root) = Ancestors(ever, root)
      /\ RolesGiven(always, root) = Ancestors(always, root)
  BY <1>5 DEF RolesGiven
<1>7. RolesGiven(always, root) \subseteq Range(roles')
  <2>1. \A x \in walk.visited : always.parents[x] \subseteq walk.visited
    BY <1>3 DEF Explored
  <2> QED
    BY <1>1, <1>2, <1>3, <1>4, <1>6, <2>1, TypeFacts, AncestorsFacts
<1>8. Range(roles') \subseteq (RolesGiven(ever, root))'
  BY <1>1, <1>5, <1>6, Unmoved DEF Reached
<1>9. TypeOK'
  BY <1>1, <1>2, <1>4 DEF Inv, TypeOK, Unedited, Stages
<1>10. EverInv'
  <2>1. \E a \in Own(ever) : a.role = root /\ a.scope = scope
    BY <1>1 DEF Inv, EverInv
  <2>2. \E a \in (Own(ever))' : a.role = root' /\ a.scope = scope'
    BY <1>1, <2>1, Unmoved
  <2>3. \E a \in (Own(ever))' :
          a.scope = scope' /\ Range(roles') \subseteq (RolesGiven(ever, a.role))'
    BY <1>1, <1>8, <2>2, Unmoved
  <2>4. todo' \subseteq (Own(ever))'
    BY <1>1, Unmoved DEF Inv, EverInv
  <2> QED
    BY <1>1, <2>3, <2>4, GrantsJustified DEF EverInv
<1>11. AlwaysInv'
  <2>1. ASSUME NEW a \in (Own(always))'
        PROVE  \/ a \in todo' \/ (Collected(a, {}))'
               \/ a.scope = scope' /\ (Collected(a, Range(roles)))'
    <3>1. a \in Own(always)
      BY <1>1, Unmoved
    <3>2. a \in todo \/ Collected(a, {}) \/ (a.role = root /\ a.scope = scope)
      BY <1>1, <3>1 DEF Inv, AlwaysInv
    <3>3. CASE a.role = root /\ a.scope = scope
      <4>1. (RolesGiven(always, a.role))' \subseteq Range(roles')
        BY <1>1, <1>7, <3>3, Unmoved
      <4> QED
        BY <1>1, <3>3, <4>1 DEF Collected
    <3> QED
      BY <1>1, <3>2, <3>3, CollectedKept
  <2> QED
    BY <1>1, <2>1 DEF AlwaysInv
<1>12. WalkInv'
  BY <1>1 DEF WalkInv
<1> QED
  BY <1>1, <1>2, <1>9, <1>10, <1>11, <1>12, HistoryKept, NoAnswerYet DEF Inv

LEMMA FailureSteps == Inv /\ (ExpansionFails \/ SourceFails) => Inv'
<1> SUFFICES ASSUME Inv, ExpansionFails \/ SourceFails PROVE Inv'
  OBVIOUS
<1>1. PICK a \in Expansion!Errors : Answer(a) /\ Unedited /\ UNCHANGED expansion
  BY DEF ExpansionFails, SourceFails, Expansion!Errors
<1>2. AnswerInv'
  BY <1>1 DEF Answer, Expansion!Errors, AnswerInv, NothingInvented, NothingLost,
     MixedGrantsRefused
<1> QED
  BY <1>1, <1>2, AnswerKeeps DEF Errors, Inv

LEMMA PermissionsStep == Inv /\ ReadPermissions => Inv'
<1> SUFFICES ASSUME Inv, ReadPermissions PROVE Inv'
  OBVIOUS
<1> DEFINE r == Head(roles)
           found == {[permission |-> p, scope |-> scope] : p \in source.permissions[r]}
<1>1. /\ at = "permissions" /\ grants' = grants \cup found /\ roles' = Tail(roles)
      /\ at' = IF Tail(roles) = << >> THEN "assignment_loop" ELSE "permissions"
      /\ Unedited /\ UNCHANGED <<todo, scope, answer, root, walk, outcome, blamed>>
  BY DEF ReadPermissions
<1>2. /\ answer = NoAnswer /\ roles \in Seq(Roles) /\ roles # << >> /\ scope \in GrantScopes
      /\ todo \in SUBSET Assignment /\ grants \in SUBSET Grant
  BY <1>1, TypeFacts DEF Inv, TypeOK
<1>3. /\ r \in Roles /\ Tail(roles) \in Seq(Roles)
      /\ Range(roles) = {r} \cup Range(Tail(roles))
  <2>1. /\ r \in Roles /\ Tail(roles) \in Seq(Roles) /\ r = roles[1]
        /\ Len(roles) \in Nat \ {0} /\ Len(Tail(roles)) = Len(roles) - 1
        /\ DOMAIN roles = 1 .. Len(roles) /\ DOMAIN Tail(roles) = 1 .. Len(roles) - 1
        /\ \A i \in 1 .. Len(roles) - 1 : Tail(roles)[i] = roles[i + 1]
    BY <1>2
  <2> DEFINE rest == Tail(roles)
  <2> HIDE DEF r, rest
  <2>2. \A i \in 1 .. Len(roles) : i = 1 \/ (i - 1 \in 1 .. Len(roles) - 1 /\ i = i - 1 + 1)
    BY <2>1
  <2>3. ASSUME NEW x \in Range(roles) PROVE x \in {r} \cup Range(rest)
    <3>1. PICK i \in 1 .. Len(roles) : x = roles[i]
      BY <2>1 DEF Range
    <3>2. CASE i = 1
      BY <2>1, <3>1, <3>2
    <3>3. CASE i - 1 \in 1 .. Len(roles) - 1 /\ i = i - 1 + 1
      BY <2>1, <3>1, <3>3 DEF Range, rest
    <3> QED
      BY <2>2, <3>2, <3>3
  <2>4. {r} \cup Range(rest) \subseteq Range(roles)
    <3>1. 1 \in 1 .. Len(roles) /\ \A i \in 1 .. Len(roles) - 1 : i + 1 \in 1 .. Len(roles)
      BY <2>1
    <3> QED
      BY <2>1, <3>1 DEF Range, rest
  <2> QED
    BY <2>1, <2>3, <2>4 DEF rest
<1>4. source.permissions[r] \in SUBSET Permissions
  BY <1>3, TypeFacts DEF SourceType
<1> HIDE DEF r
<1>5. found \in SUBSET Grant
  BY <1>2, <1>4 DEF Grant
<1>6. PICK a \in Own(ever) : a.scope = scope /\ Range(roles) \subseteq RolesGiven(ever, a.role)
  BY <1>1 DEF Inv, EverInv
<1>7. \A g \in found : a.scope = g.scope /\ Gives(ever, a, g.permission)
  <2>1. \A p \in source.permissions[r] : Gives(ever, a, p)
    BY <1>3, <1>6, TypeFacts DEF Gives, Within
  <2> QED
    BY <1>6, <2>1
<1>8. \A g \in grants' : \E b \in (Own(ever))' :
        b.scope = g.scope /\ (Gives(ever, b, g.permission))'
  <2>1. \A g \in grants : \E b \in Own(ever) : b.scope = g.scope /\ Gives(ever, b, g.permission)
    BY DEF Inv, EverInv
  <2> HIDE DEF found
  <2> QED
    BY <1>1, <1>6, <1>7, <2>1, Unmoved
(* All that the role permits all the while has been found.                  *)
<1>9. \A p \in always.permissions[r] : [permission |-> p, scope |-> scope] \in grants'
  BY <1>1, <1>3, TypeFacts DEF Within
<1> HIDE DEF found
<1>10. ASSUME NEW b \in (Own(always))'
       PROVE  \/ b \in todo' \/ (Collected(b, {}))'
              \/ /\ b.scope = scope'
                 /\ \A q \in (RolesGiven(always, b.role))' : \A p \in always'.permissions[q] :
                      q \in Range(roles') \/ [permission |-> p, scope |-> b.scope] \in grants'
  <2>1. b \in Own(always) /\ always' = always
    BY <1>1, Unmoved DEF Unedited
  <2>2. \/ b \in todo \/ Collected(b, {}) \/ (b.scope = scope /\ Collected(b, Range(roles)))
    BY <1>1, <2>1 DEF Inv, AlwaysInv
  <2>3. CASE b.scope = scope /\ Collected(b, Range(roles))
    <3> SUFFICES ASSUME NEW q \in (RolesGiven(always, b.role))',
                        NEW p \in always'.permissions[q], q \notin Range(roles')
                 PROVE  [permission |-> p, scope |-> b.scope] \in grants'
      BY <1>1, <2>3
    <3>1. q \in RolesGiven(always, b.role)
      BY <1>1, Unmoved
    <3>2. CASE q = r
      BY <1>9, <2>1, <2>3, <3>2
    <3>3. CASE q # r
      BY <1>1, <1>3, <2>1, <2>3, <3>1, <3>3 DEF Collected
    <3> QED
      BY <3>2, <3>3
  <2> QED
    BY <1>1, <2>2, <2>3, CollectedKept
<1>11. TypeOK'
  BY <1>1, <1>2, <1>3, <1>5 DEF Inv, TypeOK, Unedited, Stages
<1>12. todo' \subseteq (Own(ever))'
  BY <1>1, Unmoved DEF Inv, EverInv
<1>13. CASE Tail(roles) = << >>
  <2>1. at' = "assignment_loop" /\ Range(roles') = {}
    BY <1>1, <1>13 DEF Range
  <2>2. AlwaysInv'
    <3>1. \A b \in (Own(always))' : b \in todo' \/ (Collected(b, {}))'
      BY <1>10, <2>1 DEF Collected
    <3> QED
      BY <2>1, <3>1 DEF AlwaysInv
  <2>3. EverInv'
    BY <1>8, <1>12, <2>1 DEF EverInv
  <2>4. WalkInv'
    BY <2>1 DEF WalkInv
  <2> QED
    BY <1>1, <1>2, <1>11, <2>2, <2>3, <2>4, HistoryKept, NoAnswerYet DEF Inv
<1>14. CASE Tail(roles) # << >>
  <2>1. at' = "permissions"
    BY <1>1, <1>14
  <2>2. AlwaysInv'
    <3>1. \A b \in (Own(always))' :
            \/ b \in todo' \/ (Collected(b, {}))'
            \/ b.scope = scope' /\ (Collected(b, Range(roles)))'
      BY <1>10 DEF Collected
    <3> QED
      BY <2>1, <3>1 DEF AlwaysInv
  <2>3. EverInv'
    <3>1. /\ a \in (Own(ever))' /\ a.scope = scope'
          /\ Range(roles') \subseteq (RolesGiven(ever, a.role))'
      BY <1>1, <1>3, <1>6, Unmoved
    <3> QED
      BY <1>8, <1>12, <2>1, <3>1 DEF EverInv
  <2>4. WalkInv'
    BY <2>1 DEF WalkInv
  <2> QED
    BY <1>1, <1>2, <1>11, <2>2, <2>3, <2>4, HistoryKept, NoAnswerYet DEF Inv
<1> QED
  BY <1>13, <1>14

(* When no assignment is to come, the scopes that the matching grants have  *)
(* lie between what is granted all the while and what was at some moment.   *)
LEMMA FinishStep == Inv /\ FinishAssignments => Inv'
<1> SUFFICES ASSUME Inv, FinishAssignments PROVE Inv'
  OBVIOUS
<1> DEFINE fits(p) == matches(p, request.permission, engine.wildcard)
           scopes == {g.scope : g \in {x \in grants : fits(x.permission)}}
<1>1. /\ at = "assignment_loop" /\ todo = {} /\ Answer(Decide(scopes))
      /\ Unedited /\ UNCHANGED expansion
  BY DEF FinishAssignments
<1> HIDE DEF fits
<1>2. scopes \in SUBSET GrantScopes
  BY DEF Inv, TypeOK, Grant
<1>3. \A s : Granted(s) = {a.scope : a \in {x \in Own(s) : \E p : Gives(s, x, p) /\ fits(p)}}
  BY DEF Granted, Own, Gives, fits
<1>4. Granted(always) \subseteq scopes
  <2> SUFFICES ASSUME NEW a \in Own(always), NEW p, Gives(always, a, p), fits(p)
               PROVE  a.scope \in scopes
    BY <1>3
  <2>1. PICK r \in RolesGiven(always, a.role) : p \in always.permissions[r]
    BY DEF Gives
  <2>2. Collected(a, {})
    BY <1>1 DEF Inv, AlwaysInv
  <2>3. [permission |-> p, scope |-> a.scope] \in grants
    BY <2>1, <2>2 DEF Collected
  <2> QED
    BY <2>3
<1>5. scopes \subseteq Granted(ever)
  <2> SUFFICES ASSUME NEW g \in grants, fits(g.permission) PROVE g.scope \in Granted(ever)
    OBVIOUS
  <2>1. PICK a \in Own(ever) : a.scope = g.scope /\ Gives(ever, a, g.permission)
    BY DEF Inv, EverInv
  <2> QED
    BY <1>3, <2>1
<1> HIDE DEF scopes
<1>6. AnswerInv'
  BY <1>1, <1>2, <1>4, <1>5, AnswerHolds DEF Answer
<1>7. Decide(scopes) \in {"Allow", "Deny"} \cup Errors
  BY <1>2, TypeFacts, DecideFacts DEF Errors
<1> QED
  BY <1>1, <1>6, <1>7, AnswerKeeps DEF Inv

(* A step of the expansion, whose walk is as it should be after it.         *)
LEMMA ExpandKeeps ==
  ASSUME Inv, at = "expand", at' = at, Unedited,
         UNCHANGED <<todo, scope, roles, grants, answer, root>>,
         walk' \in Walks, outcome' \in Expansion!Outcomes, blamed' \in Roles,
         root \in Range(walk'.output), Reached(walk', Ancestors(ever, root)),
         outcome' \in {"walking", "ok"} =>
           Explored(walk', always.parents) /\ Accounted(walk'),
         outcome' = "ok" => walk'.stack = << >>
  PROVE  Inv'
<1>1. source' = source /\ ever' = ever /\ always' = always
  BY DEF Unedited
<1>2. answer = NoAnswer
  BY TypeFacts
<1>3. (Expansion!TypeOK)'
  BY <1>1 DEF Inv, TypeOK, Walks, Expansion!TypeOK, Expansion!Walks, Expansion!FrameType,
     Expansion!Outcomes
<1>4. TypeOK'
  BY <1>2, <1>3 DEF Inv, TypeOK, Unedited, Stages
<1>5. WalkInv'
  <2>1. /\ (Explored(walk, always.parents))' <=> Explored(walk', always.parents)
        /\ (Accounted(walk))' <=> Accounted(walk')
    BY <1>1 DEF Explored, Accounted, Height, RoleAt, RestAt
  <2> QED
    BY <2>1 DEF WalkInv
<1>6. EverInv'
  <2>1. (Reached(walk, Ancestors(ever, root)))'
    BY <1>1 DEF Reached, Height, RestAt
  <2>2. \E a \in (Own(ever))' : a.role = root' /\ a.scope = scope'
    BY Unmoved DEF Inv, EverInv
  <2>3. engine'.role_hierarchy /\ todo' \subseteq (Own(ever))'
    BY Unmoved DEF Inv, EverInv, Unedited
  <2> QED
    BY <2>1, <2>2, <2>3, GrantsJustified DEF EverInv
<1>7. AlwaysInv'
  <2>1. \A a \in Own(always) : a \in todo \/ Collected(a, {}) \/ (a.role = root /\ a.scope = scope)
    BY DEF Inv, AlwaysInv
  <2>2. \A a \in (Own(always))' :
          a \in todo' \/ (Collected(a, {}))' \/ (a.role = root' /\ a.scope = scope')
    BY <2>1, Unmoved, CollectedKept
  <2> QED
    BY <2>2 DEF AlwaysInv
<1> QED
  BY <1>2, <1>4, <1>5, <1>6, <1>7, HistoryKept, NoAnswerYet DEF Inv

LEMMA ExpandStep == Inv /\ Expand => Inv'
<1> SUFFICES ASSUME Inv, Expand PROVE Inv'
  OBVIOUS
<1> DEFINE g == always.parents
           above == Ancestors(ever, root)
<1>1. /\ at = "expand" /\ at' = at /\ Unedited
      /\ UNCHANGED <<todo, scope, roles, grants, answer>> /\ Expansion!Step
  BY DEF Expand
<1>2. /\ walk \in Walks /\ root \in Roles /\ blamed \in Roles
      /\ outcome \in Expansion!Outcomes
  BY <1>1 DEF Inv, TypeOK, Expansion!TypeOK, Walks
<1>3. /\ root \in Range(walk.output) /\ Reached(walk, above)
      /\ outcome \in {"walking", "ok"} => Explored(walk, g) /\ Accounted(walk)
  BY <1>1 DEF Inv, WalkInv, EverInv
<1>4. /\ g \in [Roles -> SUBSET Roles] /\ source.parents \in [Roles -> SUBSET Roles]
      /\ root \in above
      /\ \A p \in Roles : g[p] \subseteq source.parents[p]
      /\ \A p \in above : p \in Roles /\ source.parents[p] \subseteq above
  <2>1. /\ root \in above /\ above \in SUBSET Roles
        /\ \A p \in above : ever.parents[p] \subseteq above
    BY <1>2, TypeFacts, AncestorsFacts
  <2> QED
    BY <2>1, TypeFacts DEF SourceType, Within
<1> HIDE DEF g, above
<1>w. ASSUME walk' \in Walks, outcome' \in {"walking", "ok"}, UNCHANGED <<root, blamed>>,
             root \in Range(walk'.output), Reached(walk', above),
             Explored(walk', g), Accounted(walk'), outcome' = "ok" => walk'.stack = << >>
      PROVE  Inv'
  BY <1>1, <1>2, <1>w, ExpandKeeps DEF g, above, Expansion!Outcomes
<1>f. ASSUME NEW error \in Expansion!Errors, NEW role \in Roles, Expansion!Fail(error, role)
      PROVE  Inv'
  <2>1. /\ walk' = walk /\ root' = root /\ outcome' = error /\ blamed' = role
        /\ outcome' \notin {"walking", "ok"}
    BY <1>f DEF Expansion!Fail, Expansion!Errors
  <2> QED
    BY <1>1, <1>2, <1>3, <2>1, ExpandKeeps DEF above, Expansion!Outcomes
<1>5. CASE Expansion!Enter
  <2> DEFINE first == Expansion!Frame(root, 0, source.parents[root])
  <2>1. /\ walk' = [stack |-> <<first>>, visiting |-> {root}, visited |-> {},
                    output |-> <<root>>]
        /\ outcome' = "walking" /\ UNCHANGED <<root, blamed>>
    BY <1>5 DEF Expansion!Enter, Expansion!NewWalk
  <2>2. first \in FrameType /\ first.role = root /\ first.rest = source.parents[root]
    BY <1>2, <1>4, BoundsAssumption DEF Expansion!Frame, FrameType, Expansion!FrameType
  <2> HIDE DEF first
  <2>3. /\ walk'.stack = <<first>> /\ walk'.visited = {} /\ Range(walk'.output) = {root}
        /\ Height(walk') = 1 /\ RoleAt(walk', 1) = root
        /\ RestAt(walk', 1) = source.parents[root]
    BY <2>1, <2>2 DEF Height, RoleAt, RestAt, Range
  <2>4. walk' \in Walks
    BY <1>2, <2>1, <2>2 DEF Walks, Expansion!Walks, FrameType
  <2>5. \A i \in 1 .. 1 : i = 1
    OBVIOUS
  <2>6. Explored(walk', g) /\ Accounted(walk') /\ Reached(walk', above)
    <3>1. Explored(walk', g)
      BY <1>2, <1>4, <2>3, <2>5 DEF Explored
    <3>2. Accounted(walk')
      BY <2>3, <2>5 DEF Accounted
    <3>3. Reached(walk', above)
      BY <1>4, <2>3, <2>5 DEF Reached
    <3> QED
      BY <3>1, <3>2, <3>3
  <2> QED
    BY <1>w, <2>1, <2>3, <2>4, <2>6
<1>6. CASE Expansion!LeaveRole
  <2>1. /\ outcome = "walking" /\ walk.stack # << >> /\ Expansion!Top(walk).rest = {}
        /\ walk' = Expansion!Leave(walk) /\ UNCHANGED <<root, outcome, blamed>>
    BY <1>6 DEF Expansion!LeaveRole
  <2>2. walk'.output = walk.output
    BY <2>1 DEF Expansion!Leave
  <2> QED
    BY <1>2, <1>3, <1>4, <1>w, <2>1, <2>2, LeaveWalk
<1>7. CASE Expansion!Finish
  <2>1. /\ outcome = "walking" /\ walk.stack = << >> /\ outcome' = "ok"
        /\ UNCHANGED <<root, walk, blamed>>
    BY <1>7 DEF Expansion!Finish
  <2> QED
    BY <1>2, <1>3, <1>w, <2>1
<1>8. CASE Expansion!ReadFails
  BY <1>2, <1>8, <1>f DEF Expansion!ReadFails, Expansion!Errors
<1>9. ASSUME NEW p \in Roles, Expansion!DepthExceeded(p) \/ Expansion!CycleDetected(p)
      PROVE  Inv'
  BY <1>9, <1>f DEF Expansion!DepthExceeded, Expansion!CycleDetected, Expansion!Errors
<1>10. ASSUME NEW p \in Roles, Expansion!SkipVisited(p) PROVE Inv'
  <2>1. /\ outcome = "walking" /\ walk.stack # << >> /\ p \in walk.visited
        /\ walk' = Expansion!Skip(walk, p) /\ UNCHANGED <<root, outcome, blamed>>
    BY <1>10 DEF Expansion!SkipVisited, Expansion!Drawing, Expansion!Visited
  <2>2. walk'.output = walk.output
    BY <2>1 DEF Expansion!Skip
  <2> QED
    BY <1>2, <1>3, <1>4, <1>w, <2>1, <2>2, SkipWalk
<1>11. ASSUME NEW p \in Roles, Expansion!Visit(p) PROVE Inv'
  <2>1. /\ outcome = "walking" /\ walk.stack # << >> /\ p \in Expansion!Top(walk).rest
        /\ ~ Expansion!TooDeep(walk, MaxDepth)
        /\ walk' = Expansion!Descend(walk, p, source.parents[p])
        /\ UNCHANGED <<root, outcome, blamed>>
    BY <1>11 DEF Expansion!Visit, Expansion!Fresh, Expansion!Drawing
  <2>2. p \in above
    <3>1. Height(walk) \in Nat \ {0} /\ Expansion!Top(walk) = walk.stack[Height(walk)]
      BY <1>2, <2>1, StackFacts
    <3>2. Height(walk) \in 1 .. Height(walk)
      BY <3>1
    <3> QED
      BY <1>3, <2>1, <3>1, <3>2 DEF Reached, RestAt
  <2>3. root \in Range(walk'.output)
    <3>1. walk'.output = Append(walk.output, p) /\ walk.output \in Seq(Roles)
      BY <1>2, <2>1 DEF Expansion!Descend, Walks, Expansion!Walks
    <3> QED
      BY <1>3, <3>1, AppendSequence
  <2>4. source.parents[p] \in SUBSET Roles /\ g[p] \subseteq source.parents[p]
        /\ source.parents[p] \subseteq above
    BY <1>4, <2>2
  <2> QED
    BY <1>2, <1>3, <1>4, <1>w, <2>1, <2>3, <2>4, DescendWalk
<1> QED
  BY <1>1, <1>5, <1>6, <1>7, <1>8, <1>9, <1>10, <1>11 DEF Expansion!Step

-------------------------------------------------------------------------------
(* The edits.                                                               *)

LEMMA ExploredWithin ==
  ASSUME NEW w \in Walks, NEW g, NEW h \in [Roles -> SUBSET Roles], Explored(w, g),
         \A r \in Roles : h[r] \subseteq g[r]
  PROVE  Explored(w, h)
<1>1. w.visited \in SUBSET Roles /\ w.stack \in Seq(FrameType)
  BY DEF Walks, Expansion!Walks, FrameType
<1>2. \A i \in 1 .. Height(w) : RoleAt(w, i) \in Roles
  <2>1. \A i \in 1 .. Height(w) : w.stack[i] \in FrameType
    BY <1>1 DEF Height
  <2> QED
    BY <2>1 DEF RoleAt, FrameType, Expansion!FrameType
<1>3. \A x \in w.visited : h[x] \subseteq w.visited
  BY <1>1 DEF Explored
<1>4. ASSUME NEW i \in 1 .. Height(w), NEW q \in h[RoleAt(w, i)]
      PROVE  \/ q \in RestAt(w, i) \/ q \in w.visited
             \/ i < Height(w) /\ q = RoleAt(w, i + 1)
  <2>1. q \in g[RoleAt(w, i)]
    BY <1>2
  <2> QED
    BY <2>1 DEF Explored
<1> QED
  BY <1>3, <1>4 DEF Explored

(* An edit adds to what has been at some moment, and takes from what has    *)
(* been all the while.                                                      *)
LEMMA EditStep ==
  ASSUME Inv, NEW edited \in SourceType, Edit(edited)
  PROVE  Inv'
<1>1. /\ at # "answered" /\ edits' = edits + 1 /\ edits < MaxEdits /\ source' = edited
      /\ ever' = Join(ever, edited) /\ always' = Meet(always, edited)
      /\ UNCHANGED <<engine, request, at, todo, scope, roles, grants, root, walk, outcome,
                     blamed, answer>>
  BY DEF Edit
<1>2. /\ ever' \in SourceType /\ Within(ever, ever') /\ Within(edited, ever')
      /\ always' \in SourceType /\ Within(always', always) /\ Within(always', edited)
  BY <1>1, TypeFacts, JoinFacts, MeetFacts
<1>3. answer = NoAnswer
  BY <1>1, TypeFacts
<1>4. HistoryInv'
  BY <1>1, <1>2 DEF HistoryInv, Within
<1>5. (Expansion!TypeOK)' <=> Expansion!TypeOK
  <2>1. source.parents \in [Roles -> SUBSET Roles] /\ source'.parents \in [Roles -> SUBSET Roles]
    BY <1>1, TypeFacts DEF SourceType
  <2> QED
    BY <1>1, <2>1 DEF Expansion!TypeOK, Expansion!Walks, Expansion!FrameType, Expansion!Outcomes
<1>6. TypeOK'
  BY <1>1, <1>2, <1>3, <1>5, BoundsAssumption DEF Inv, TypeOK
<1>7. WalkInv'
  <2> SUFFICES ASSUME at = "expand" PROVE WalkInv'
    BY <1>1 DEF WalkInv
  <2>1. /\ root \in Range(walk.output) /\ walk \in Walks
        /\ outcome \in {"walking", "ok"} => Explored(walk, always.parents) /\ Accounted(walk)
        /\ outcome = "ok" => walk.stack = << >>
    BY DEF Inv, WalkInv, TypeOK, Expansion!TypeOK, Walks
  <2>2. /\ always'.parents \in [Roles -> SUBSET Roles]
        /\ \A r \in Roles : always'.parents[r] \subseteq always.parents[r]
    BY <1>2 DEF SourceType, Within
  <2>3. Explored(walk, always.parents) => Explored(walk, always'.parents)
    BY <2>1, <2>2, ExploredWithin
  <2>4. /\ (Explored(walk, always.parents))' <=> Explored(walk, always'.parents)
        /\ (Accounted(walk))' <=> Accounted(walk)
    BY <1>1 DEF Explored, Accounted, Height, RoleAt, RestAt
  <2> QED
    BY <1>1, <2>1, <2>3, <2>4 DEF WalkInv
(* What counts in the new ever and always, and what it gives.               *)
<1>8. /\ (Own(ever))' = Own(ever') /\ (Own(always))' = Own(always')
      /\ \A r : /\ (RolesGiven(ever, r))' = RolesGiven(ever', r)
                /\ (RolesGiven(always, r))' = RolesGiven(always', r)
  BY <1>1 DEF Own, RolesGiven
<1>9. \A a, p : (Gives(ever, a, p))' <=> Gives(ever', a, p)
  BY <1>8 DEF Gives
<1>10. /\ Own(ever) \subseteq (Own(ever))' /\ (Own(always))' \subseteq Own(always)
       /\ Own(ever) \in SUBSET Assignment /\ Own(always) \in SUBSET Assignment
       /\ \A a \in Assignment : \A p : Gives(ever, a, p) => (Gives(ever, a, p))'
  BY <1>2, <1>8, <1>9, TypeFacts, OwnFacts
<1>11. \A a \in Assignment :
         /\ RolesGiven(ever, a.role) \subseteq (RolesGiven(ever, a.role))'
         /\ (RolesGiven(always, a.role))' \subseteq RolesGiven(always, a.role)
         /\ RolesGiven(always, a.role) \in SUBSET Roles
  BY <1>2, <1>8, TypeFacts, RolesGivenFacts DEF Assignment
<1>12. EverInv'
  <2>1. at = "assignments" => ever'.principals[request.principal]
    BY <1>2, TypeFacts DEF Inv, EverInv, Within
  <2>2. \A g \in grants : \E a \in (Own(ever))' :
          a.scope = g.scope /\ (Gives(ever, a, g.permission))'
    <3>1. \A g \in grants : \E a \in Own(ever) : a.scope = g.scope /\ Gives(ever, a, g.permission)
      BY DEF Inv, EverInv
    <3> QED
      BY <1>10, <3>1
  <2>3. at = "expand" =>
          /\ engine.role_hierarchy
          /\ \E a \in (Own(ever))' : a.role = root /\ a.scope = scope
          /\ Reached(walk, Ancestors(ever', root))
    <3> SUFFICES ASSUME at = "expand"
                 PROVE  /\ engine.role_hierarchy
                        /\ \E a \in (Own(ever))' : a.role = root /\ a.scope = scope
                        /\ Reached(walk, Ancestors(ever', root))
      OBVIOUS
    <3>1. /\ engine.role_hierarchy
          /\ \E a \in Own(ever) : a.role = root /\ a.scope = scope
          /\ Reached(walk, Ancestors(ever, root))
      BY DEF Inv, EverInv
    <3>2. root \in Roles
      BY DEF Inv, TypeOK, Expansion!TypeOK
    <3>3. Ancestors(ever, root) \subseteq Ancestors(ever', root)
      BY <1>2, <3>2, TypeFacts, AncestorsMonotone
    <3>4. Reached(walk, Ancestors(ever', root))
      BY <3>1, <3>3 DEF Reached
    <3> QED
      BY <1>10, <3>1, <3>4
  <2>4. at = "permissions" =>
          \E a \in (Own(ever))' :
            a.scope = scope /\ Range(roles) \subseteq (RolesGiven(ever, a.role))'
    <3>1. at = "permissions" =>
            \E a \in Own(ever) : a.scope = scope /\ Range(roles) \subseteq RolesGiven(ever, a.role)
      BY DEF Inv, EverInv
    <3> QED
      BY <1>10, <1>11, <3>1
  <2>5. (Reached(walk, Ancestors(ever, root)))' <=> Reached(walk, Ancestors(ever', root))
    BY <1>1 DEF Reached, Height, RestAt
  <2>6. todo \subseteq (Own(ever))'
    BY <1>10 DEF Inv, EverInv
  <2> QED
    BY <1>1, <2>1, <2>2, <2>3, <2>4, <2>5, <2>6 DEF EverInv
<1>13. AlwaysInv'
  <2>1. \A a \in Assignment : \A pending : Collected(a, pending) => (Collected(a, pending))'
    <3>1. \A r \in Roles : always'.permissions[r] \subseteq always.permissions[r]
      BY <1>2 DEF Within
    <3> QED
      BY <1>1, <1>11, <3>1 DEF Collected
  <2>2. \A a : (Collected(a, Range(roles)))' <=> (\A pending : pending = Range(roles) =>
                                                    (Collected(a, pending))')
    BY <1>1 DEF Collected
  <2>3. \A a \in Assignment : Collected(a, Range(roles)) => (Collected(a, Range(roles)))'
    BY <2>1, <2>2
  <2>4. \A a \in (Own(always))' : a \in Own(always) /\ a \in Assignment
    BY <1>10
  <2> QED
    BY <1>1, <2>1, <2>3, <2>4 DEF Inv, AlwaysInv
<1> QED
  BY <1>1, <1>3, <1>4, <1>6, <1>7, <1>12, <1>13, NoAnswerYet DEF Inv

(* Each edit leaves a source.                                               *)
LEMMA EditedType ==
  ASSUME source \in SourceType
  PROVE  /\ \A p \in Principals : [source EXCEPT !.principals[p] = ~ @] \in SourceType
         /\ \A p \in Principals, a \in AssignmentPool :
              [source EXCEPT !.assignments[p] = Toggle(@, a)] \in SourceType
         /\ \A r \in Roles, p \in PermissionPool :
              [source EXCEPT !.permissions[r] = Toggle(@, p)] \in SourceType
         /\ \A r \in Roles, p \in Roles :
              [source EXCEPT !.parents[r] = Toggle(@, p)] \in SourceType
<1>1. \A T : \A S \in SUBSET T : \A x \in T : Toggle(S, x) \in SUBSET T
  BY DEF Toggle
<1>2. /\ source.principals \in [Principals -> BOOLEAN]
      /\ source.assignments \in [Principals -> SUBSET Assignment]
      /\ source.permissions \in [Roles -> SUBSET Permissions]
      /\ source.parents \in [Roles -> SUBSET Roles]
  BY DEF SourceType
<1>3. \A p \in Principals : [source EXCEPT !.principals[p] = ~ @] \in SourceType
  BY DEF SourceType
<1>4. ASSUME NEW p \in Principals, NEW a \in AssignmentPool
      PROVE  [source EXCEPT !.assignments[p] = Toggle(@, a)] \in SourceType
  <2> DEFINE new == Toggle(source.assignments[p], a)
  <2>1. new \in SUBSET Assignment
    BY <1>1, <1>2, PoolAssumption
  <2> HIDE DEF new
  <2>2. [source EXCEPT !.assignments[p] = new] \in SourceType
    BY <2>1 DEF SourceType
  <2> QED
    BY <2>2 DEF new
<1>5. ASSUME NEW r \in Roles, NEW p \in PermissionPool
      PROVE  [source EXCEPT !.permissions[r] = Toggle(@, p)] \in SourceType
  <2> DEFINE new == Toggle(source.permissions[r], p)
  <2>1. new \in SUBSET Permissions
    BY <1>1, <1>2 DEF Permissions
  <2> HIDE DEF new
  <2>2. [source EXCEPT !.permissions[r] = new] \in SourceType
    BY <2>1 DEF SourceType
  <2> QED
    BY <2>2 DEF new
<1>6. ASSUME NEW r \in Roles, NEW p \in Roles
      PROVE  [source EXCEPT !.parents[r] = Toggle(@, p)] \in SourceType
  <2> DEFINE new == Toggle(source.parents[r], p)
  <2>1. new \in SUBSET Roles
    BY <1>1, <1>2
  <2> HIDE DEF new
  <2>2. [source EXCEPT !.parents[r] = new] \in SourceType
    BY <2>1 DEF SourceType
  <2> QED
    BY <2>2 DEF new
<1> QED
  BY <1>3, <1>4, <1>5, <1>6

LEMMA EditSteps ==
  ASSUME Inv,
         \/ \E p \in Principals : set_principal_status(p)
         \/ \E p \in Principals, a \in AssignmentPool : edit_role_assignment(p, a)
         \/ \E r \in Roles, p \in PermissionPool : edit_role_permission(r, p)
         \/ \E r, p \in Roles : edit_parent_role(r, p)
  PROVE  Inv'
<1>1. \E edited \in SourceType : Edit(edited)
  BY TypeFacts, EditedType
     DEF set_principal_status, edit_role_assignment, edit_role_permission, edit_parent_role
<1> QED
  BY <1>1, EditStep

-------------------------------------------------------------------------------
(* The theorems.                                                            *)

LEMMA InitInv == Init => Inv
<1> SUFFICES ASSUME Init PROVE Inv
  OBVIOUS
<1>1. /\ source \in SourceType /\ ever = source /\ always = source
      /\ at = "status" /\ todo = {} /\ grants = {} /\ roles = << >> /\ scope = Platform
      /\ answer = NoAnswer /\ edits = 0
      /\ engine \in Engines /\ request \in RequestType
  BY RequestsAssumption, SourcesAssumption DEF Init
<1>2. TypeOK
  BY <1>1, BoundsAssumption DEF TypeOK, Stages, NoAnswer, GrantScopes, PlatformScopeType
<1>3. HistoryInv
  BY <1>1, WithinItself DEF HistoryInv
<1>4. AnswerInv
  BY <1>1 DEF NoAnswer, AnswerInv, NothingInvented, NothingLost, MixedGrantsRefused
<1> QED
  BY <1>1, <1>2, <1>3, <1>4 DEF Inv, WalkInv, EverInv, AlwaysInv

LEMMA StutterInv == Inv /\ UNCHANGED vars => Inv'
<1> SUFFICES ASSUME Inv, UNCHANGED vars PROVE Inv'
  OBVIOUS
<1>1. /\ UNCHANGED <<source, engine, request, at, todo, scope, roles, grants, answer, edits>>
      /\ UNCHANGED <<ever, always, root, walk, outcome, blamed>>
  BY DEF vars
<1>2. Unedited /\ grants \subseteq grants'
  BY <1>1 DEF Unedited
<1>3. (Expansion!TypeOK)' <=> Expansion!TypeOK
  BY <1>1 DEF Expansion!TypeOK, Expansion!Walks, Expansion!FrameType, Expansion!Outcomes
<1>4. TypeOK' /\ HistoryInv'
  BY <1>1, <1>2, <1>3, HistoryKept DEF Inv, TypeOK
<1>5. WalkInv'
  <2>1. /\ (Explored(walk, always.parents))' <=> Explored(walk, always.parents)
        /\ (Accounted(walk))' <=> Accounted(walk)
    BY <1>1 DEF Explored, Accounted, Height, RoleAt, RestAt
  <2> QED
    BY <1>1, <2>1 DEF Inv, WalkInv
<1>6. EverInv'
  <2>1. (Reached(walk, Ancestors(ever, root)))' <=> Reached(walk, Ancestors(ever, root))
    BY <1>1 DEF Reached, Height, RestAt
  <2>2. EverInv
    BY DEF Inv
  <2> QED
    BY <1>1, <1>2, <2>1, <2>2, Unmoved DEF EverInv
<1>7. AlwaysInv'
  <2>1. \A a, pending : Collected(a, pending) => (Collected(a, pending))'
    BY <1>2, CollectedKept
  <2>2. \A a : Collected(a, Range(roles)) => (Collected(a, Range(roles)))'
    BY <1>1, <1>2, Unmoved DEF Collected
  <2>3. AlwaysInv
    BY DEF Inv
  <2> QED
    BY <1>1, <1>2, <2>1, <2>2, <2>3, Unmoved DEF AlwaysInv
<1>8. AnswerInv'
  <2>1. (Granted(ever))' = Granted(ever) /\ (Granted(always))' = Granted(always)
    BY <1>2, Unmoved
  <2>2. /\ (Permitted(Granted(ever)))' <=> Permitted(Granted(ever))
        /\ (Permitted(Granted(always)))' <=> Permitted(Granted(always))
        /\ (Kinds(Granted(ever)))' = Kinds(Granted(ever))
        /\ (Kinds(Granted(always)))' = Kinds(Granted(always))
    BY <1>1, <2>1 DEF Permitted, Kinds
  <2>3. AnswerInv
    BY DEF Inv
  <2> QED
    BY <1>1, <2>2, <2>3 DEF AnswerInv, NothingInvented, NothingLost, MixedGrantsRefused
<1> QED
  BY <1>4, <1>5, <1>6, <1>7, <1>8 DEF Inv

LEMMA Invariance == Spec => []Inv
<1>1. Inv /\ [Next]_vars => Inv'
  BY StatusStep, AssignmentsStep, TakeStep, ExpandStep, ReturnStep, FailureSteps,
     PermissionsStep, FinishStep, EditSteps, StutterInv DEF Next
<1> QED
  BY <1>1, InitInv, PTL DEF Spec

(* Every variable keeps its type, whoever edits the source.                 *)
THEOREM TypeCorrect == Spec => []TypeOK
<1>1. Inv => TypeOK
  BY DEF Inv
<1> QED
  BY <1>1, Invariance, PTL

(* A request is allowed only what the source would grant if each of its     *)
(* maps held at once all that it has held since the request began.          *)
THEOREM NothingIsInvented == Spec => []NothingInvented
<1>1. Inv => NothingInvented
  BY DEF Inv, AnswerInv
<1> QED
  BY <1>1, Invariance, PTL

(* A request is not denied what rests on what stood all the while.          *)
THEOREM NothingIsLost == Spec => []NothingLost
<1>1. Inv => NothingLost
  BY DEF Inv, AnswerInv
<1> QED
  BY <1>1, Invariance, PTL

(* Tenant sets and paths for one permission are refused exactly when both   *)
(* are held and all tenants are not.                                        *)
THEOREM MixedIsRefused == Spec => []MixedGrantsRefused
<1>1. Inv => MixedGrantsRefused
  BY DEF Inv, AnswerInv
<1> QED
  BY <1>1, Invariance, PTL
===============================================================================
