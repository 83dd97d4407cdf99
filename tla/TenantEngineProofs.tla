-------------------------- MODULE TenantEngineProofs --------------------------
(***************************************************************************)
(* Proofs about TenantEngine for any tasks, administrators, tenants,       *)
(* principals, roles, engines and configurations, any source and any       *)
(* number of edits, and whatever the cache loses.                          *)
(***************************************************************************)
EXTENDS TenantEngine, SequenceLemmas, SequenceTheorems, TLAPS

-------------------------------------------------------------------------------
(* A sequence lists one element more.                                       *)
LEMMA AppendSequence ==
  ASSUME NEW T, NEW q \in Seq(T), NEW e \in T
  PROVE  Append(q, e) \in Seq(T) /\ Range(Append(q, e)) = Range(q) \cup {e}
<1> SUFFICES ASSUME NEW u, u = Append(q, e)
             PROVE  u \in Seq(T) /\ Range(u) = Range(q) \cup {e}
  OBVIOUS
<1>1. /\ u \in Seq(T) /\ Len(u) = Len(q) + 1
      /\ \A i \in 1 .. Len(q) : u[i] = q[i]
      /\ u[Len(q) + 1] = e
      /\ DOMAIN u = 1 .. Len(q) + 1 /\ DOMAIN q = 1 .. Len(q) /\ Len(q) \in Nat
  OBVIOUS
<1> QED
  BY <1>1 DEF Range

-------------------------------------------------------------------------------
(* What a computation reads of the source, and the grants it makes of it.   *)

View(s, subject) ==
  [parents |-> s.parents[subject.tenant],
   permissions |-> s.permissions[subject.tenant],
   assignments |-> s.assignments[subject]]
ViewType ==
  [parents : [Roles -> SUBSET Roles], permissions : [Roles -> SUBSET Permissions],
   assignments : SUBSET Assignment]

Above(v, role) ==
  {x \in Roles : \A S \in SUBSET Roles :
     role \in S /\ (\A r \in S : v.parents[r] \subseteq S) => x \in S}
Given(config, v, role) == IF config.role_hierarchy THEN Above(v, role) ELSE {role}
OfRole(v, role, scope) ==
  {[role |-> role, permission |-> p, scope |-> scope] : p \in v.permissions[role]}
OfRoles(v, roles, scope) == UNION {OfRole(v, r, scope) : r \in roles}
OfAssignments(config, v, S) ==
  UNION {OfRoles(v, Given(config, v, a.role), a.scope) : a \in S}

(* The role itself and all that is above it, and nothing else.              *)
LEMMA AboveFacts ==
  ASSUME NEW v \in ViewType, NEW r \in Roles
  PROVE  /\ r \in Above(v, r) /\ Above(v, r) \in SUBSET Roles
         /\ \A x \in Above(v, r) : v.parents[x] \subseteq Above(v, r)
         /\ \A S \in SUBSET Roles :
              r \in S /\ (\A x \in S : v.parents[x] \subseteq S) => Above(v, r) \subseteq S
<1>1. r \in Above(v, r) /\ Above(v, r) \in SUBSET Roles
  BY DEF Above
<1>2. ASSUME NEW x \in Above(v, r), NEW y \in v.parents[x] PROVE y \in Above(v, r)
  <2>1. x \in Roles /\ y \in Roles
    BY <1>1, <1>2 DEF ViewType
  <2>2. ASSUME NEW S \in SUBSET Roles, r \in S, \A z \in S : v.parents[z] \subseteq S
        PROVE  y \in S
    <3>1. x \in S
      BY <2>2 DEF Above
    <3> QED
      BY <2>2, <3>1
  <2> QED
    BY <2>1, <2>2 DEF Above
<1>3. \A S \in SUBSET Roles :
        r \in S /\ (\A x \in S : v.parents[x] \subseteq S) => Above(v, r) \subseteq S
  BY DEF Above
<1> QED
  BY <1>1, <1>2, <1>3

(* Grants are collected role by role and assignment by assignment.          *)
LEMMA CollectedFacts ==
  ASSUME NEW v
  PROVE  /\ \A s : OfRoles(v, {}, s) = {}
         /\ \A r, R, s : OfRoles(v, R \cup {r}, s) = OfRole(v, r, s) \cup OfRoles(v, R, s)
         /\ \A config : OfAssignments(config, v, {}) = {}
BY DEF OfRoles, OfAssignments

LEMMA AssignmentTaken ==
  ASSUME NEW v, NEW config, NEW S, NEW a \in S
  PROVE  OfAssignments(config, v, S)
           = OfAssignments(config, v, S \ {a})
             \cup OfRoles(v, Given(config, v, a.role), a.scope)
<1> DEFINE F(x) == OfRoles(v, Given(config, v, x.role), x.scope)
<1>1. S = (S \ {a}) \cup {a}
  OBVIOUS
<1>2. UNION {F(x) : x \in (S \ {a}) \cup {a}} = (UNION {F(x) : x \in S \ {a}}) \cup F(a)
  <2> HIDE DEF F
  <2> QED
    OBVIOUS
<1> QED
  BY <1>1, <1>2 DEF OfAssignments

(* What is collected are grants.                                            *)
LEMMA CollectedType ==
  ASSUME NEW v \in ViewType, NEW r \in Roles, NEW s \in Scope
  PROVE  OfRole(v, r, s) \in SUBSET Grant
BY DEF OfRole, ViewType, Grant

-------------------------------------------------------------------------------
(* The walk of an expansion.                                                *)

Height(w) == Len(w.stack)
RoleAt(w, i) == w.stack[i].role
RestAt(w, i) == w.stack[i].rest

(* What is put out is visited or in progress.                               *)
Accounted(w) == Range(w.output) = w.visited \cup {RoleAt(w, i) : i \in 1 .. Height(w)}

(* The parents of a visited role are visited, those of a role in progress   *)
(* are visited, still to come or next on the stack.                         *)
Explored(w, g) ==
  /\ \A x \in w.visited : g[x] \subseteq w.visited
  /\ \A i \in 1 .. Height(w) : \A q \in g[RoleAt(w, i)] :
       \/ q \in RestAt(w, i) \/ q \in w.visited
       \/ i < Height(w) /\ q = RoleAt(w, i + 1)

(* Nothing but the roles above the root is put out or to come.              *)
Reached(w, above) ==
  /\ Range(w.output) \subseteq above
  /\ \A i \in 1 .. Height(w) : RestAt(w, i) \subseteq above

Sound(w, g, above) == Explored(w, g) /\ Accounted(w) /\ Reached(w, above)

LEMMA StackFacts ==
  ASSUME NEW w \in WalkType, w.stack # << >>
  PROVE  /\ Height(w) \in Nat \ {0} /\ w.stack \in Seq(FrameType)
         /\ \A i \in 1 .. Height(w) : w.stack[i] \in FrameType
         /\ Top(w) = w.stack[Height(w)]
         /\ Below(w) \in Seq(FrameType) /\ Len(Below(w)) = Height(w) - 1
         /\ \A i \in 1 .. Height(w) - 1 : Below(w)[i] = w.stack[i]
<1>1. w.stack \in Seq(FrameType) /\ Height(w) \in Nat \ {0}
  BY DEF WalkType, FrameType, Height
<1>2. \A i \in 1 .. Height(w) : w.stack[i] \in FrameType
  BY <1>1 DEF Height
<1>3. \A i \in 1 .. Height(w) - 1 : w.stack[i] \in FrameType
  BY <1>1, <1>2
<1> QED
  BY <1>1, <1>2, <1>3, SubSeqProperties DEF Height, Top, Below

(* Drawing a parent takes it from what the top role has to come.            *)
LEMMA DrawnFacts ==
  ASSUME NEW w \in WalkType, w.stack # << >>, NEW p \in Roles
  PROVE  LET d == Drawn(w, p) IN
         /\ d \in Seq(FrameType) /\ Len(d) = Height(w)
         /\ \A i \in 1 .. Height(w) : d[i].role = RoleAt(w, i)
         /\ \A i \in 1 .. Height(w) - 1 : d[i].rest = RestAt(w, i)
         /\ d[Height(w)].rest = RestAt(w, Height(w)) \ {p}
<1> DEFINE n == Height(w)
           top == w.stack[n]
           f == Frame(top.role, top.depth, top.rest \ {p})
           d == Append(Below(w), f)
<1>1. /\ n \in Nat \ {0} /\ top \in FrameType /\ Top(w) = top
      /\ Below(w) \in Seq(FrameType) /\ Len(Below(w)) = n - 1
      /\ \A i \in 1 .. n - 1 : Below(w)[i] = w.stack[i]
  BY StackFacts
<1>2. f \in FrameType /\ f.role = top.role /\ f.rest = top.rest \ {p}
  BY <1>1 DEF FrameType, Frame
<1>3. d = Drawn(w, p)
  BY <1>1 DEF Drawn
<1> HIDE DEF n, f
<1>4. /\ d \in Seq(FrameType) /\ Len(d) = n
      /\ \A i \in 1 .. n - 1 : d[i] = w.stack[i]
      /\ d[n] = f
  BY <1>1, <1>2, AppendProperties
<1> HIDE DEF d
<1>5. \A i \in 1 .. n : i = n \/ i \in 1 .. n - 1
  BY <1>1
<1> QED
  BY <1>2, <1>3, <1>4, <1>5 DEF RoleAt, RestAt, n

(* A visited role is skipped.                                               *)
LEMMA SkipWalk ==
  ASSUME NEW w \in WalkType, w.stack # << >>, NEW p \in Roles, p \in w.visited,
         NEW g \in [Roles -> SUBSET Roles], NEW above
  PROVE  LET x == Skip(w, p) IN
         /\ x \in WalkType
         /\ Sound(w, g, above) => Sound(x, g, above)
<1> DEFINE x == Skip(w, p)
           n == Height(w)
<1>1. /\ x.stack = Drawn(w, p) /\ x.visited = w.visited /\ x.output = w.output
      /\ x.visiting = w.visiting
  BY DEF Skip
<1>2. n \in Nat \ {0} /\ Height(x) = n
  BY <1>1, StackFacts, DrawnFacts DEF Height
<1>3. /\ \A i \in 1 .. n : RoleAt(x, i) = RoleAt(w, i)
      /\ \A i \in 1 .. n - 1 : RestAt(x, i) = RestAt(w, i)
      /\ RestAt(x, n) = RestAt(w, n) \ {p}
  BY <1>1, DrawnFacts DEF RoleAt, RestAt
<1>4. x \in WalkType
  <2>1. x.stack \in Seq(FrameType)
    BY <1>1, DrawnFacts
  <2>2. x = [stack |-> x.stack, visiting |-> x.visiting, visited |-> x.visited,
             output |-> x.output]
    BY DEF Skip
  <2> QED
    BY <1>1, <2>1, <2>2 DEF WalkType, FrameType
<1> SUFFICES ASSUME Explored(w, g), Accounted(w), Reached(w, above)
             PROVE  Explored(x, g) /\ Accounted(x) /\ Reached(x, above)
  BY <1>4 DEF Sound
<1> HIDE DEF x, n
<1>5. \A i \in 1 .. n : i = n \/ i \in 1 .. n - 1
  BY <1>2
<1>6. \A i \in 1 .. n : RestAt(x, i) \subseteq RestAt(w, i)
                       /\ \A q \in RestAt(w, i) : q \in RestAt(x, i) \/ q \in w.visited
  BY <1>3, <1>5
<1>7. Explored(x, g)
  <2>1. ASSUME NEW i \in 1 .. n, NEW q \in g[RoleAt(x, i)]
        PROVE  \/ q \in RestAt(x, i) \/ q \in x.visited
               \/ i < n /\ q = RoleAt(x, i + 1)
    <3>1. \/ q \in RestAt(w, i) \/ q \in w.visited
          \/ i < n /\ q = RoleAt(w, i + 1)
      BY <1>3 DEF Explored, n
    <3>2. i < n => i + 1 \in 1 .. n
      BY <1>2
    <3> QED
      BY <1>1, <1>3, <1>6, <3>1, <3>2
  <2> QED
    BY <1>1, <1>2, <2>1 DEF Explored
<1>8. Accounted(x)
  <2>1. {RoleAt(x, i) : i \in 1 .. n} = {RoleAt(w, i) : i \in 1 .. n}
    BY <1>3
  <2> QED
    BY <1>1, <1>2, <2>1 DEF Accounted, n
<1>9. Reached(x, above)
  BY <1>1, <1>2, <1>6 DEF Reached, n
<1> QED
  BY <1>7, <1>8, <1>9

(* A new role is entered, with the parents it has at this moment.           *)
LEMMA DescendWalk ==
  ASSUME NEW w \in WalkType, w.stack # << >>, NEW p \in Roles,
         p \in Top(w).rest,
         NEW g \in [Roles -> SUBSET Roles], NEW above,
         NEW ps \in SUBSET Roles
  PROVE  LET x == Descend(w, p, ps) IN
         /\ x \in WalkType
         /\ Sound(w, g, above) /\ g[p] \subseteq ps /\ ps \subseteq above => Sound(x, g, above)
<1> DEFINE x == Descend(w, p, ps)
           n == Height(w)
           d == Drawn(w, p)
           f == Frame(p, Top(w).depth + 1, ps)
<1>1. /\ x.stack = Append(d, f) /\ x.visited = w.visited /\ x.output = Append(w.output, p)
      /\ x.visiting = w.visiting \cup {p}
  BY DEF Descend
<1>2. /\ n \in Nat \ {0} /\ Top(w) \in FrameType
      /\ RestAt(w, n) = Top(w).rest
  BY StackFacts DEF RestAt
<1>3. f \in FrameType /\ f.role = p /\ f.rest = ps
  BY <1>2 DEF FrameType, Frame
<1>4. d \in Seq(FrameType) /\ Len(d) = n
  BY DrawnFacts
<1>5. /\ x.stack \in Seq(FrameType) /\ Len(x.stack) = n + 1
      /\ \A i \in 1 .. n : x.stack[i] = d[i]
      /\ x.stack[n + 1] = f
  BY <1>1, <1>3, <1>4, AppendProperties
<1>6. /\ Height(x) = n + 1
      /\ \A i \in 1 .. n : RoleAt(x, i) = RoleAt(w, i)
      /\ \A i \in 1 .. n - 1 : RestAt(x, i) = RestAt(w, i)
      /\ RestAt(x, n) = RestAt(w, n) \ {p}
      /\ RoleAt(x, n + 1) = p /\ RestAt(x, n + 1) = ps
  <2>1. /\ \A i \in 1 .. n : d[i].role = RoleAt(w, i)
        /\ \A i \in 1 .. n - 1 : d[i].rest = RestAt(w, i)
        /\ d[n].rest = RestAt(w, n) \ {p}
    BY DrawnFacts
  <2>2. n \in 1 .. n /\ \A i \in 1 .. n - 1 : i \in 1 .. n
    BY <1>2
  <2> HIDE DEF d, f, n
  <2> QED
    BY <1>3, <1>5, <2>1, <2>2 DEF Height, RoleAt, RestAt
<1>7. /\ w.output \in Seq(Roles) /\ x.output \in Seq(Roles)
      /\ Range(x.output) = Range(w.output) \cup {p}
  <2>1. w.output \in Seq(Roles)
    BY DEF WalkType
  <2> QED
    BY <1>1, <2>1, AppendSequence
<1>8. x \in WalkType
  <2>1. x = [stack |-> x.stack, visiting |-> x.visiting, visited |-> x.visited,
             output |-> x.output]
    BY DEF Descend
  <2>2. x.visiting \in SUBSET Roles /\ x.visited \in SUBSET Roles
    BY <1>1 DEF WalkType
  <2> QED
    BY <1>5, <1>7, <2>1, <2>2 DEF WalkType, FrameType
<1> SUFFICES ASSUME Explored(w, g), Accounted(w), Reached(w, above),
                    g[p] \subseteq ps, ps \subseteq above
             PROVE  Explored(x, g) /\ Accounted(x) /\ Reached(x, above)
  BY <1>8 DEF Sound
<1> HIDE DEF x, n, d, f
<1>9. \A i \in 1 .. n + 1 : i = n + 1 \/ i = n \/ i \in 1 .. n - 1
  BY <1>2
<1>10. Explored(x, g)
  <2>1. ASSUME NEW i \in 1 .. n + 1, NEW q \in g[RoleAt(x, i)]
        PROVE  \/ q \in RestAt(x, i) \/ q \in x.visited
               \/ i < n + 1 /\ q = RoleAt(x, i + 1)
    <3>1. CASE i = n + 1
      BY <1>6, <3>1
    <3>2. CASE i \in 1 .. n
      <4>1. \/ q \in RestAt(w, i) \/ q \in w.visited
            \/ i < n /\ q = RoleAt(w, i + 1)
        BY <1>6, <3>2 DEF Explored, n
      <4>2. CASE q \in RestAt(w, i)
        BY <1>2, <1>6, <1>9, <3>2, <4>2
      <4>3. CASE i < n /\ q = RoleAt(w, i + 1)
        <5>1. i + 1 \in 1 .. n
          BY <1>2, <3>2, <4>3
        <5> QED
          BY <1>2, <1>6, <4>3, <5>1
      <4> QED
        BY <1>1, <4>1, <4>2, <4>3
    <3> QED
      BY <1>2, <3>1, <3>2
  <2> QED
    BY <1>1, <1>6, <2>1 DEF Explored
<1>11. Accounted(x)
  <2>1. {RoleAt(x, i) : i \in 1 .. n + 1} = {RoleAt(w, i) : i \in 1 .. n} \cup {p}
    <3>1. 1 .. n + 1 = (1 .. n) \cup {n + 1}
      BY <1>2
    <3> QED
      BY <1>6, <3>1
  <2> QED
    BY <1>1, <1>6, <1>7, <2>1 DEF Accounted, n
<1>12. Reached(x, above)
  <2>1. p \in above
    BY <1>2 DEF Reached, n
  <2>2. \A i \in 1 .. n : RestAt(w, i) \subseteq above
    BY DEF Reached, n
  <2>3. n \in 1 .. n /\ \A i \in 1 .. n - 1 : i \in 1 .. n
    BY <1>2
  <2>4. \A i \in 1 .. n + 1 : RestAt(x, i) \subseteq above
    BY <1>6, <1>9, <2>2, <2>3
  <2> QED
    BY <1>6, <1>7, <2>1, <2>4 DEF Reached
<1> QED
  BY <1>10, <1>11, <1>12

(* The top role, with no parents to come, is left: it is visited now.       *)
LEMMA LeaveWalk ==
  ASSUME NEW w \in WalkType, w.stack # << >>, Top(w).rest = {},
         NEW g \in [Roles -> SUBSET Roles], NEW above
  PROVE  LET x == Leave(w) IN
         /\ x \in WalkType
         /\ Sound(w, g, above) => Sound(x, g, above)
<1> DEFINE x == Leave(w)
           n == Height(w)
           r == RoleAt(w, n)
<1>1. /\ n \in Nat \ {0} /\ Top(w) = w.stack[n] /\ w.stack[n] \in FrameType
      /\ Below(w) \in Seq(FrameType) /\ Len(Below(w)) = n - 1
      /\ \A i \in 1 .. n - 1 : Below(w)[i] = w.stack[i]
  BY StackFacts
<1>2. r \in Roles /\ r = Top(w).role /\ RestAt(w, n) = {}
  BY <1>1 DEF FrameType, RoleAt, RestAt
<1>3. /\ x.stack = Below(w) /\ x.visited = w.visited \cup {r}
      /\ x.output = w.output /\ x.visiting = w.visiting \ {r}
  BY <1>2 DEF Leave
<1>4. /\ Height(x) = n - 1
      /\ \A i \in 1 .. n - 1 : RoleAt(x, i) = RoleAt(w, i) /\ RestAt(x, i) = RestAt(w, i)
  BY <1>1, <1>3 DEF Height, RoleAt, RestAt
<1>5. x \in WalkType
  <2>1. x = [stack |-> x.stack, visiting |-> x.visiting, visited |-> x.visited,
             output |-> x.output]
    BY DEF Leave
  <2> QED
    BY <1>1, <1>2, <1>3, <2>1 DEF WalkType, FrameType
<1> SUFFICES ASSUME Explored(w, g), Accounted(w), Reached(w, above)
             PROVE  Explored(x, g) /\ Accounted(x) /\ Reached(x, above)
  BY <1>5 DEF Sound
<1> HIDE DEF x, n, r
<1>6. g[r] \subseteq w.visited
  <2>1. n \in 1 .. n
    BY <1>1
  <2> QED
    BY <1>1, <1>2, <2>1 DEF Explored, n, r
<1>7. Explored(x, g)
  <2>1. \A y \in x.visited : g[y] \subseteq x.visited
    BY <1>3, <1>6 DEF Explored
  <2>2. ASSUME NEW i \in 1 .. n - 1, NEW q \in g[RoleAt(x, i)]
        PROVE  \/ q \in RestAt(x, i) \/ q \in x.visited
               \/ i < n - 1 /\ q = RoleAt(x, i + 1)
    <3>1. \/ q \in RestAt(w, i) \/ q \in w.visited
          \/ i < n /\ q = RoleAt(w, i + 1)
      BY <1>1, <1>4 DEF Explored, n
    <3>2. CASE i < n /\ q = RoleAt(w, i + 1)
      <4>1. CASE i = n - 1
        <5>1. i + 1 = n
          BY <1>1, <4>1
        <5> QED
          BY <1>3, <3>2, <5>1 DEF r
      <4>2. CASE i < n - 1
        <5>1. i + 1 \in 1 .. n - 1
          BY <1>1, <4>2
        <5> QED
          BY <1>4, <3>2, <4>2, <5>1
      <4> QED
        BY <1>1, <4>1, <4>2
    <3> QED
      BY <1>3, <1>4, <3>1, <3>2
  <2> QED
    BY <1>4, <2>1, <2>2 DEF Explored
<1>8. Accounted(x)
  <2>1. {RoleAt(w, i) : i \in 1 .. n} = {RoleAt(x, i) : i \in 1 .. n - 1} \cup {r}
    <3>1. 1 .. n = (1 .. n - 1) \cup {n}
      BY <1>1
    <3> QED
      BY <1>4, <3>1 DEF r
  <2> QED
    BY <1>3, <1>4, <2>1 DEF Accounted, n
<1>9. Reached(x, above)
  <2>1. \A i \in 1 .. n - 1 : i \in 1 .. n
    BY <1>1
  <2> QED
    BY <1>3, <1>4, <2>1 DEF Reached, n
<1> QED
  BY <1>7, <1>8, <1>9

-------------------------------------------------------------------------------
(* What is decided from scopes.                                             *)

(* Paths without those another one covers allow what all of them allow: the *)
(* shortest path that allows it is covered by no other.                     *)
LEMMA CompactAllows ==
  ASSUME NEW T, NEW paths \in SUBSET Seq(T), NEW target \in Seq(T)
  PROVE  (\E p \in compact_paths(paths) : allows(p, target))
           <=> \E p \in paths : allows(p, target)
<1> DEFINE S == {p \in paths : allows(p, target)}
           lengths == {Len(p) : p \in S}
<1>1. ASSUME NEW q \in Seq(T), NEW p \in Seq(T), allows(q, p), allows(p, target)
      PROVE  allows(q, target) /\ Len(q) <= Len(p) /\ (Len(q) = Len(p) => q = p)
  <2>1. /\ Len(q) \in Nat /\ Len(p) \in Nat /\ Len(target) \in Nat
        /\ DOMAIN q = 1 .. Len(q) /\ DOMAIN p = 1 .. Len(p)
    OBVIOUS
  <2>2. /\ Len(q) <= Len(p) /\ \A i \in 1 .. Len(q) : q[i] = p[i]
    BY <1>1, <2>1 DEF allows, IsPrefix
  <2>3. /\ Len(p) <= Len(target) /\ \A i \in 1 .. Len(p) : p[i] = target[i]
    BY <1>1, <2>1 DEF allows, IsPrefix
  <2>4. Len(q) <= Len(target) /\ \A i \in 1 .. Len(q) : q[i] = target[i]
    BY <2>1, <2>2, <2>3
  <2>5. allows(q, target)
    BY <2>1, <2>4 DEF allows, IsPrefix
  <2>6. Len(q) = Len(p) => q = p
    BY <2>1, <2>2
  <2> QED
    BY <2>2, <2>5, <2>6
<1>2. ASSUME NEW p \in S PROVE \E q \in compact_paths(paths) : allows(q, target)
  <2>1. lengths \in SUBSET Nat /\ lengths # {}
    <3>1. \A q \in S : Len(q) \in Nat
      OBVIOUS
    <3> QED
      BY <1>2, <3>1
  <2>2. PICK m \in lengths : \A x \in lengths : m <= x
    BY <2>1, SmallestNat
  <2>3. PICK q \in S : Len(q) = m
    BY <2>2
  <2>4. ASSUME NEW r \in paths, allows(r, q) PROVE r = q
    <3>1. /\ allows(r, target) /\ Len(r) <= Len(q) /\ (Len(r) = Len(q) => r = q)
      BY <1>1, <2>3, <2>4
    <3>2. Len(q) <= Len(r)
      BY <2>2, <2>3, <3>1
    <3>3. Len(q) \in Nat /\ Len(r) \in Nat
      BY <2>3
    <3> QED
      BY <3>1, <3>2, <3>3
  <2> QED
    BY <2>3, <2>4 DEF compact_paths
<1> QED
  BY <1>2 DEF compact_paths

(* A decision allows exactly what one of the merged scopes allows.          *)
LEMMA DecisionExact ==
  ASSUME NEW scopes \in SUBSET Scope, NEW target \in Seq(STRING)
  PROVE  Decision(merge(scopes), target) = "Allow" <=>
           \E s \in scopes : s.whole \/ \E root \in s.roots :
                                          target # WholeTenant /\ allows(root, target)
<1> DEFINE paths == UNION {s.roots : s \in scopes}
<1>1. paths \in SUBSET Seq(STRING)
  BY DEF Scope
<1>2. CASE \E s \in scopes : s.whole
  <2>1. merge(scopes) = TenantScope /\ TenantScope.whole
    BY <1>2 DEF merge, TenantScope
  <2>2. Decision(merge(scopes), target) = "Allow"
    BY <2>1 DEF Decision, explain_tenant, explain_access_scope, IsNone, allows_path
  <2> QED
    BY <1>2, <2>2
<1>3. CASE ~ \E s \in scopes : s.whole
  <2> DEFINE scope == Paths(compact_paths(paths))
  <2>1. merge(scopes) = scope /\ ~ scope.whole /\ scope.roots = compact_paths(paths)
    BY <1>3 DEF merge, Paths
  <2> HIDE DEF scope, paths
  <2>2. CASE target = WholeTenant
    BY <1>3, <2>1, <2>2 DEF Decision, explain_tenant
  <2>3. CASE target # WholeTenant
    <3>1. Decision(scope, target) = "Allow" <=>
            \E root \in compact_paths(paths) : allows(root, target)
      BY <2>1, <2>3 DEF Decision, explain_access_scope, IsNone, allows_path
    <3>2. (\E root \in compact_paths(paths) : allows(root, target))
            <=> \E root \in paths : allows(root, target)
      BY <1>1, CompactAllows
    <3>3. (\E root \in paths : allows(root, target))
            <=> \E s \in scopes : \E root \in s.roots : allows(root, target)
      BY DEF paths
    <3> QED
      BY <1>3, <2>1, <2>3, <3>1, <3>2, <3>3
  <2> QED
    BY <2>2, <2>3
<1> QED
  BY <1>2, <1>3

-------------------------------------------------------------------------------
(* The inductive invariant.                                                 *)

Clients == Tasks \cup Admins
Calls == {Cache!NoCall, Cache!Sweeping} \cup Cache!FillsAndGets

CacheType ==
  /\ pending \in [Clients -> Calls]
  /\ returned \in [Clients -> (SUBSET Grant) \cup {Miss}]
  /\ owed \in [Clients -> SUBSET Keys]

Working(t) == t.at \notin {"idle", "answered"}
Reads(t) == t.at \in {"assignment_loop", "expand", "walk", "permissions", "cache_set"}

(* What a task has in hand at each of its steps.                            *)
InHand(t) ==
  /\ t.at \in {"tenant_status", "membership_status", "cache_get", "assignments"}
       => t.grants = {}
  /\ t.at \in {"expand", "walk"}
       => ConfigOf(t.request).role_hierarchy /\ t.walk.output # << >>
  /\ t.at = "permissions" => t.roles # << >>
  /\ t.at = "cache_set" => t.todo = {}

(* The roles whose permissions are still to be read for the scope in hand.  *)
Remaining(t, v) ==
  IF t.at \in {"expand", "walk"} THEN Above(v, t.walk.output[1])
  ELSE IF t.at = "permissions" THEN Range(t.roles) ELSE {}

(* While nothing it reads is edited, what a task has collected and what it  *)
(* has still to collect are the grants of its subject.                      *)
Collects(t, v) ==
  LET config == ConfigOf(t.request) IN
  /\ OfAssignments(config, v, v.assignments)
       = t.grants \cup OfAssignments(config, v, t.todo)
                  \cup OfRoles(v, Remaining(t, v), t.scope)
  /\ t.at = "walk" => Sound(t.walk, v.parents, Above(v, t.walk.output[1]))

(* The statuses it has read are still those of the source.                  *)
StatusRead(t, s) ==
  /\ t.at # "tenant_status" => s.tenants[t.request.subject.tenant]
  /\ t.at \notin {"tenant_status", "membership_status"} => s.members[t.request.subject]

TaskInv(t, s) ==
  /\ InHand(t)
  /\ Reads(t) /\ "reads" \notin t.changed => Collects(t, View(s, t.request.subject))
  /\ "status" \notin t.changed => StatusRead(t, s)

TasksInv == \A c \in Tasks : Working(task[c]) => TaskInv(task[c], source)

CallOf(t) ==
  IF t.at = "cache_get" THEN [op |-> "get", key |-> KeyOf(t.request)]
  ELSE IF t.at = "cache_set"
  THEN [op |-> "set", key |-> KeyOf(t.request), grants |-> t.grants]
  ELSE Cache!NoCall

CallsInv ==
  /\ \A c \in Tasks : pending[c] = CallOf(task[c])
  /\ \A a \in Admins : pending[a] \in {Cache!NoCall, Cache!Sweeping}

SubjectOf(k) == [tenant |-> k.tenant, principal |-> k.principal]
Exact(k, grants, s) ==
  LET v == View(s, SubjectOf(k)) IN
  \A e \in Engines : k.config_signature = signature(Config[e]) =>
    grants = OfAssignments(Config[e], v, v.assignments)

(* No task will fill a fenced key with grants of an older source, nor one   *)
(* that a running invalidation fences; and what is stored there is exact,   *)
(* if it is not one of the entries the invalidation has still to clear.     *)
FenceInv ==
  /\ \A a \in Admins : armed[a].fenced \subseteq armed[a].cleared
  /\ \A k \in fenced : ~ Outdated(k) /\ (stored[k] # Miss => Exact(k, stored[k], source))
  /\ \A a \in Admins : \A k \in armed[a].fenced :
       /\ ~ Outdated(k)
       /\ stored[k] # Miss /\ k \notin owed[a] => Exact(k, stored[k], source)

Inv == TypeOK /\ CacheType /\ TasksInv /\ CallsInv /\ FenceInv

-------------------------------------------------------------------------------
(* Keys, configurations, and the grants of a subject.                       *)

LEMMA SignatureTells ==
  ASSUME NEW x \in Configs, NEW y \in Configs, signature(x) = signature(y)
  PROVE  x.role_hierarchy = y.role_hierarchy
<1>1. ASSUME NEW z \in Configs
      PROVE  z.role_hierarchy \in BOOLEAN
             /\ signature(z)[1] = IF z.role_hierarchy THEN 1 ELSE 0
  BY DEF Configs, signature
<1> QED
  BY <1>1

LEMMA KeyFacts ==
  ASSUME NEW r \in RequestType
  PROVE  /\ KeyOf(r) \in Keys
         /\ KeyOf(r).tenant = r.subject.tenant /\ KeyOf(r).principal = r.subject.principal
         /\ KeyOf(r).config_signature = signature(ConfigOf(r))
         /\ SubjectOf(KeyOf(r)) = r.subject /\ r.subject \in Subjects
         /\ ConfigOf(r) \in Configs
<1>1. r.subject \in Subjects /\ r.engine \in Engines /\ ConfigOf(r) \in Configs
  BY ConfigAssumption DEF RequestType, ConfigOf
<1> QED
  BY <1>1 DEF KeyOf, ConfigOf, Keys, Subjects, SubjectOf

LEMMA KeySubject == ASSUME NEW k \in Keys PROVE SubjectOf(k) \in Subjects
BY DEF SubjectOf, Subjects, Keys

(* Only whether roles are inherited matters for what is collected.          *)
LEMMA SameFlag ==
  ASSUME NEW x, NEW y, x.role_hierarchy = y.role_hierarchy, NEW v, NEW S
  PROVE  OfAssignments(x, v, S) = OfAssignments(y, v, S)
<1>1. \A r : Given(x, v, r) = Given(y, v, r)
  BY DEF Given
<1> QED
  BY <1>1 DEF OfAssignments

(* Grants are exact under the key of a request when they are those of its   *)
(* subject under its configuration.                                         *)
LEMMA ExactForRequest ==
  ASSUME NEW r \in RequestType, NEW grants, NEW s
  PROVE  LET v == View(s, r.subject) IN
         Exact(KeyOf(r), grants, s) <=> grants = OfAssignments(ConfigOf(r), v, v.assignments)
<1> DEFINE k == KeyOf(r)
           v == View(s, r.subject)
<1>1. /\ k.config_signature = signature(ConfigOf(r)) /\ SubjectOf(k) = r.subject
      /\ ConfigOf(r) = Config[r.engine] /\ r.engine \in Engines /\ ConfigOf(r) \in Configs
  BY KeyFacts DEF ConfigOf, RequestType
<1> HIDE DEF k, v
<1>2. ASSUME NEW e \in Engines, signature(ConfigOf(r)) = signature(Config[e])
      PROVE  OfAssignments(Config[e], v, v.assignments)
               = OfAssignments(ConfigOf(r), v, v.assignments)
  <2>1. Config[e] \in Configs
    BY ConfigAssumption
  <2> QED
    BY <1>1, <1>2, <2>1, SignatureTells, SameFlag
<1> QED
  BY <1>1, <1>2 DEF Exact, k, v

(* The grants of the properties are those of the view.                      *)
LEMMA GrantsOfView ==
  ASSUME NEW subject, NEW config
  PROVE  LET v == View(source, subject) IN
         GrantsOf(subject, config) = OfAssignments(config, v, v.assignments)
<1> DEFINE v == View(source, subject)
<1>1. /\ v.parents = source.parents[subject.tenant]
      /\ v.permissions = source.permissions[subject.tenant]
      /\ v.assignments = source.assignments[subject]
  BY DEF View
<1> HIDE DEF v
<1>2. \A r : RolesGiven(config, subject.tenant, r) = Given(config, v, r)
  BY <1>1 DEF RolesGiven, Given, Ancestors, Above
<1>3. GrantsOf(subject, config) = OfAssignments(config, v, v.assignments)
  BY <1>1, <1>2 DEF GrantsOf, OfAssignments, OfRoles, OfRole
<1> QED
  BY <1>3 DEF v

LEMMA ViewTyped ==
  ASSUME NEW s \in SourceType, NEW subject \in Subjects
  PROVE  View(s, subject) \in ViewType
BY DEF View, ViewType, SourceType, Subjects

-------------------------------------------------------------------------------
(* Steps of a task.                                                         *)

TaskType == {Idle} \cup Busy \cup Done

LEMMA WorkingBusy ==
  ASSUME NEW t \in TaskType, Working(t)
  PROVE  /\ t \in Busy /\ t.request \in RequestType
         /\ KeyOf(t.request) \in Keys /\ ConfigOf(t.request) \in Configs
         /\ t.request.subject \in Subjects
<1>1. t \in Busy
  BY DEF TaskType, Working, Idle, Done
<1>2. t.request \in RequestType
  BY <1>1 DEF Busy
<1> QED
  BY <1>1, <1>2, KeyFacts

LEMMA TypeFacts ==
  ASSUME Inv
  PROVE  /\ source \in SourceType /\ task \in [Tasks -> TaskType]
         /\ stored \in [Keys -> (SUBSET Grant) \cup {Miss}]
         /\ pending \in [Clients -> Calls] /\ owed \in [Clients -> SUBSET Keys]
         /\ returned \in [Clients -> (SUBSET Grant) \cup {Miss}]
         /\ armed \in [Admins -> [cleared : SUBSET Keys, fenced : SUBSET Keys]]
         /\ fenced \in SUBSET Keys /\ cleared \in SUBSET Keys
         /\ \A c \in Tasks : InFlight(c) <=> Working(task[c])
         /\ \A c \in Tasks : c \in Clients /\ c \notin Admins
         /\ \A a \in Admins : a \in Clients /\ a \notin Tasks
BY TasksAssumption DEF Inv, TypeOK, CacheType, TaskType, InFlight, Working, Clients

LEMMA TaskFacts ==
  ASSUME Inv, NEW c \in Tasks, Working(task[c])
  PROVE  /\ task[c] \in Busy /\ TaskInv(task[c], source) /\ InFlight(c)
         /\ task[c].request \in RequestType /\ KeyOf(task[c].request) \in Keys
         /\ ConfigOf(task[c].request) \in Configs
         /\ task[c].request.subject \in Subjects
         /\ View(source, task[c].request.subject) \in ViewType
<1>1. task[c] \in TaskType /\ InFlight(c) /\ TaskInv(task[c], source) /\ source \in SourceType
  BY TypeFacts DEF Inv, TasksInv
<1> QED
  BY <1>1, WorkingBusy, ViewTyped

(* A task that moves on keeps the tasks' part of the invariant if it keeps  *)
(* its own, and lets no more keys be out of date.                           *)
LEMMA TaskMoves ==
  ASSUME Inv, NEW c \in Tasks, NEW t \in TaskType, Goto(c, t),
         Working(t) => TaskInv(t, source),
         Working(t) /\ "reads" \in t.changed =>
           /\ Working(task[c]) /\ "reads" \in task[c].changed
           /\ t.request = task[c].request,
         stored' \in [Keys -> (SUBSET Grant) \cup {Miss}],
         UNCHANGED <<source, edits, armed, cleared, fenced>>
  PROVE  /\ TypeOK' /\ TasksInv'
         /\ \A k : (Outdated(k))' => Outdated(k)
<1>1. /\ task \in [Tasks -> TaskType]
      /\ task' = [task EXCEPT ![c] = t] /\ source' = source
  BY TypeFacts DEF Goto
<1>2. /\ task' \in [Tasks -> TaskType] /\ task'[c] = t
      /\ \A d \in Tasks : d # c => task'[d] = task[d]
  BY <1>1
<1>3. TypeOK'
  <2>1. \A d \in Tasks : task[d].at = "permissions" => task[d].roles # << >>
    BY DEF Inv, TypeOK
  <2>2. t.at = "permissions" => t.roles # << >>
    BY DEF TaskInv, InHand, Working
  <2>3. \A d \in Tasks : task'[d].at = "permissions" => task'[d].roles # << >>
    BY <1>2, <2>1, <2>2
  <2> QED
    BY <1>1, <1>2, <2>3 DEF Inv, TypeOK, TaskType
<1>4. TasksInv'
  <2>1. \A d \in Tasks : Working(task'[d]) => TaskInv(task'[d], source)
    BY <1>2 DEF Inv, TasksInv
  <2> QED
    BY <1>1, <2>1 DEF TasksInv
<1>5. ASSUME NEW k, (Outdated(k))' PROVE Outdated(k)
  <2>1. PICK d \in Tasks : /\ Working(task'[d]) /\ KeyOf(task'[d].request) = k
                           /\ "reads" \in task'[d].changed
    BY <1>5 DEF Outdated, InFlight, Working
  <2>2. Working(task[d]) /\ KeyOf(task[d].request) = k /\ "reads" \in task[d].changed
    BY <1>2, <2>1
  <2> QED
    BY <2>2 DEF Outdated, InFlight, Working
<1> QED
  BY <1>3, <1>4, <1>5

(* What is stored under a fenced key stays exact, if it stays, or what is   *)
(* stored there is.                                                         *)
LEMMA FenceKept ==
  ASSUME Inv, UNCHANGED <<source, armed, fenced>>,
         \A k : (Outdated(k))' => Outdated(k),
         \A k \in Keys :
           \/ stored'[k] = Miss
           \/ stored'[k] = stored[k] /\ \A a \in Admins : k \in owed[a] => k \in owed'[a]
           \/ ~ Outdated(k) => Exact(k, stored'[k], source)
  PROVE  FenceInv'
<1>1. /\ fenced \in SUBSET Keys
      /\ \A a \in Admins : armed[a].fenced \in SUBSET Keys
  BY TypeFacts
<1>2. \A k \in fenced : ~ Outdated(k) /\ (stored[k] # Miss => Exact(k, stored[k], source))
  BY DEF Inv, FenceInv
<1>3. \A a \in Admins : \A k \in armed[a].fenced :
        ~ Outdated(k) /\ (stored[k] # Miss /\ k \notin owed[a] => Exact(k, stored[k], source))
  BY DEF Inv, FenceInv
<1>4. \A k \in fenced : stored'[k] # Miss => Exact(k, stored'[k], source)
  BY <1>1, <1>2
<1>5. \A a \in Admins : \A k \in armed[a].fenced :
        stored'[k] # Miss /\ k \notin owed'[a] => Exact(k, stored'[k], source)
  BY <1>1, <1>3
<1>6. \A k \in fenced : ~ (Outdated(k))'
  BY <1>2
<1>7. \A a \in Admins : \A k \in armed[a].fenced : ~ (Outdated(k))'
  BY <1>3
<1>8. \A a \in Admins : armed[a].fenced \subseteq armed[a].cleared
  BY DEF Inv, FenceInv
<1> QED
  BY <1>4, <1>5, <1>6, <1>7, <1>8 DEF FenceInv

(* A step that reads and calls nothing.                                     *)
LEMMA ReadStep ==
  ASSUME Inv, NEW c \in Tasks, NEW t \in TaskType, Goto(c, t), ReadsOnly,
         Working(t) => TaskInv(t, source),
         Working(t) /\ "reads" \in t.changed =>
           /\ Working(task[c]) /\ "reads" \in task[c].changed
           /\ t.request = task[c].request,
         task[c].at \notin {"cache_get", "cache_set"}, t.at \notin {"cache_get", "cache_set"}
  PROVE  Inv'
<1>1. UNCHANGED <<source, stored, pending, returned, owed, edits, armed, cleared, fenced>>
  BY DEF ReadsOnly
<1>2. TypeOK' /\ TasksInv' /\ \A k : (Outdated(k))' => Outdated(k)
  BY <1>1, TypeFacts, TaskMoves
<1>3. CacheType'
  BY <1>1 DEF Inv, CacheType
<1>4. CallsInv'
  <2>1. /\ task'[c] = t /\ \A d \in Tasks : d # c => task'[d] = task[d]
    BY TypeFacts DEF Goto
  <2>2. CallOf(t) = CallOf(task[c])
    BY DEF CallOf
  <2> QED
    BY <1>1, <2>1, <2>2 DEF Inv, CallsInv
<1>5. FenceInv'
  BY <1>1, <1>2, FenceKept
<1> QED
  BY <1>2, <1>3, <1>4, <1>5 DEF Inv

(* A request that ends at a read.                                           *)
LEMMA EndStep ==
  ASSUME Inv, NEW c \in Tasks, NEW t \in {Idle} \cup Done, Goto(c, t), ReadsOnly,
         task[c].at \notin {"cache_get", "cache_set"}
  PROVE  Inv'
<1>1. t \in TaskType /\ t.at \in {"idle", "answered"}
  BY DEF TaskType, Idle, Done
<1> QED
  BY <1>1, ReadStep DEF Working

LEMMA AnsweredType ==
  ASSUME NEW reason \in {"Allow"} \cup Denials \cup Errors
  PROVE  Answered(reason, NoScope) \in Done
BY DEF Answered, Done, NoScope, Scope

(* A request that goes on, to a step that calls no cache.                   *)
LEMMA GoesOn ==
  ASSUME Inv, NEW c \in Tasks, Working(task[c]), NEW t \in Busy, Goto(c, t), ReadsOnly,
         task[c].at \notin {"cache_get", "cache_set"}, t.at \notin {"cache_get", "cache_set"},
         t.request = task[c].request, t.changed = task[c].changed,
         TaskInv(t, source)
  PROVE  Inv'
<1>1. t \in TaskType
  BY DEF TaskType
<1> QED
  BY <1>1, ReadStep

LEMMA ExplainStep ==
  ASSUME Inv, NEW c \in Tasks, NEW r \in Requests, explain(c, r)
  PROVE  Inv'
<1> DEFINE t == NewTask(r)
<1>1. r \in RequestType
  BY RequestsAssumption
<1>2. /\ t.at = "tenant_status" /\ t.grants = {} /\ t.changed = {}
      /\ t.request = r
  BY DEF NewTask
<1>3. t \in Busy
  BY <1>1 DEF NewTask, Busy, NoScope, Scope, NoWalk, WalkType
<1>4. TaskInv(t, source)
  BY <1>2 DEF TaskInv, InHand, Reads, StatusRead
<1>5. task[c].at \notin {"cache_get", "cache_set"}
  BY DEF explain, InFlight
<1>6. Goto(c, t) /\ ReadsOnly
  BY DEF explain
<1>7. t \in TaskType
  BY <1>3 DEF TaskType
<1> HIDE DEF t
<1> QED
  BY <1>2, <1>4, <1>5, <1>6, <1>7, ReadStep

LEMMA TenantStatusStep ==
  ASSUME Inv, NEW c \in Tasks, ReadTenantStatus(c)
  PROVE  Inv'
<1>1. /\ task[c].at = "tenant_status" /\ ReadsOnly /\ Working(task[c])
      /\ task[c].at \notin {"cache_get", "cache_set"}
  BY DEF ReadTenantStatus, Working
<1>2. task[c] \in Busy /\ TaskInv(task[c], source)
  BY <1>1, TaskFacts
<1>3. CASE source.tenants[task[c].request.subject.tenant]
  <2> DEFINE t == [task[c] EXCEPT !.at = "membership_status"]
  <2>1. /\ t \in Busy /\ t.at = "membership_status" /\ t.request = task[c].request
        /\ t.changed = task[c].changed /\ t.grants = task[c].grants
    BY <1>2 DEF Busy
  <2>2. Goto(c, t)
    BY <1>3 DEF ReadTenantStatus
  <2> HIDE DEF t
  <2>3. TaskInv(t, source)
    BY <1>1, <1>2, <1>3, <2>1 DEF TaskInv, InHand, Reads, StatusRead
  <2> QED
    BY <1>1, <2>1, <2>2, <2>3, GoesOn
<1>4. CASE ~ source.tenants[task[c].request.subject.tenant]
  <2>1. Goto(c, Answered("TenantInactive", NoScope))
    BY <1>4 DEF ReadTenantStatus, Answer
  <2> QED
    BY <1>1, <2>1, AnsweredType, EndStep DEF Denials
<1> QED
  BY <1>3, <1>4

LEMMA FailureSteps ==
  ASSUME Inv, NEW c \in Tasks, ExpansionFails(c) \/ SourceFails(c) \/ Dropped(c)
  PROVE  Inv'
<1>1. /\ ReadsOnly
      /\ \E t \in {Idle, Answered("depth", NoScope), Answered("cycle", NoScope),
                   Answered("source_error", NoScope)} : Goto(c, t)
  BY DEF ExpansionFails, SourceFails, Dropped, Answer
<1>2. task[c].at \notin {"cache_get", "cache_set"}
  <2>1. \A p : p \in Drawable(c) => task[c].at = "walk"
    BY DEF Drawable
  <2> QED
    BY <2>1 DEF ExpansionFails, SourceFails, Dropped, Suspended, Fresh
<1>3. \A reason \in Errors : Answered(reason, NoScope) \in Done
  BY AnsweredType
<1> QED
  BY <1>1, <1>2, <1>3, EndStep DEF Errors

-------------------------------------------------------------------------------
(* Collecting the grants.                                                   *)

(* What has been read of the statuses does not change on the way.           *)
LEMMA StatusStays ==
  ASSUME NEW t, NEW u, NEW s, TaskInv(t, s),
         t.at \notin {"tenant_status", "membership_status"},
         u.request = t.request, u.changed = t.changed
  PROVE  "status" \notin u.changed => StatusRead(u, s)
BY DEF TaskInv, StatusRead

LEMMA AssignmentsStep ==
  ASSUME Inv, NEW c \in Tasks, ReadAssignments(c)
  PROVE  Inv'
<1> DEFINE v == View(source, task[c].request.subject)
           t == [task[c] EXCEPT !.at = "assignment_loop",
                                !.todo = source.assignments[task[c].request.subject]]
<1>1. task[c].at = "assignments" /\ Working(task[c]) /\ ReadsOnly /\ Goto(c, t)
  BY DEF ReadAssignments, Working
<1>2. /\ task[c] \in Busy /\ TaskInv(task[c], source) /\ v \in ViewType
      /\ v.assignments = source.assignments[task[c].request.subject]
  BY <1>1, TaskFacts DEF View
<1>3. /\ t \in Busy /\ t.at = "assignment_loop" /\ t.request = task[c].request
      /\ t.changed = task[c].changed /\ t.grants = task[c].grants /\ t.todo = v.assignments
      /\ t.scope = task[c].scope
  BY <1>2 DEF Busy, ViewType
<1> HIDE DEF t, v
<1>4. Collects(t, v)
  <2>1. t.grants = {} /\ Remaining(t, v) = {}
    BY <1>1, <1>2, <1>3 DEF TaskInv, InHand, Remaining
  <2>2. OfRoles(v, {}, t.scope) = {}
    BY CollectedFacts
  <2> QED
    BY <1>3, <2>1, <2>2 DEF Collects
<1>5. TaskInv(t, source)
  BY <1>1, <1>2, <1>3, <1>4, StatusStays DEF TaskInv, InHand, v
<1> QED
  BY <1>1, <1>3, <1>5, GoesOn

LEMMA TakeStep ==
  ASSUME Inv, NEW c \in Tasks, TakeAssignment(c)
  PROVE  Inv'
<1> DEFINE v == View(source, task[c].request.subject)
           config == ConfigOf(task[c].request)
<1>1. task[c].at = "assignment_loop" /\ Working(task[c]) /\ ReadsOnly
  BY DEF TakeAssignment, Working
<1>2. /\ task[c] \in Busy /\ TaskInv(task[c], source) /\ v \in ViewType /\ config \in Configs
  BY <1>1, TaskFacts
<1> DEFINE taken(a) == [task[c] EXCEPT !.todo = @ \ {a}, !.scope = a.scope]
           up(a) == [taken(a) EXCEPT !.at = "expand", !.walk = NotEntered(a.role)]
           on(a) == [taken(a) EXCEPT !.at = "permissions", !.roles = <<a.role>>]
<1>3. PICK a \in task[c].todo :
        IF config.role_hierarchy THEN Goto(c, up(a)) ELSE Goto(c, on(a))
  BY DEF TakeAssignment
<1>4. a \in Assignment /\ a.role \in Roles /\ a.scope \in Scope
  BY <1>2 DEF Busy, Assignment
<1>5. /\ taken(a) \in Busy /\ taken(a).at = "assignment_loop"
      /\ taken(a).request = task[c].request /\ taken(a).changed = task[c].changed
      /\ taken(a).grants = task[c].grants /\ taken(a).todo = task[c].todo \ {a}
      /\ taken(a).scope = a.scope
  BY <1>1, <1>2, <1>4 DEF Busy
(* Whichever step comes next, the roles of this assignment remain.          *)
<1>6. ASSUME NEW t, t.request = task[c].request, t.changed = task[c].changed,
             t.grants = task[c].grants, t.todo = task[c].todo \ {a}, t.scope = a.scope,
             t.at \in {"expand", "permissions"},
             Remaining(t, v) = Given(config, v, a.role), InHand(t)
      PROVE  TaskInv(t, source)
  <2>1. Collects(task[c], v) => Collects(t, v)
    <3> HIDE DEF v, config, taken, up, on
    <3>0. a \in task[c].todo
      OBVIOUS
    <3>1. Remaining(task[c], v) = {} /\ OfRoles(v, {}, task[c].scope) = {}
      BY <1>1, CollectedFacts DEF Remaining
    <3>2. OfAssignments(config, v, task[c].todo)
            = OfAssignments(config, v, task[c].todo \ {a})
              \cup OfRoles(v, Given(config, v, a.role), a.scope)
      BY <3>0, AssignmentTaken
    <3> QED
      BY <1>6, <3>1, <3>2 DEF Collects, config
  <2> HIDE DEF config
  <2> QED
    BY <1>1, <1>2, <1>6, <2>1, StatusStays DEF TaskInv, Reads
<1>7. CASE config.role_hierarchy
  <2> DEFINE t == up(a)
  <2>1. /\ t \in Busy /\ t.at = "expand" /\ t.request = task[c].request
        /\ t.changed = task[c].changed /\ t.grants = task[c].grants
        /\ t.todo = task[c].todo \ {a} /\ t.scope = a.scope /\ t.walk = NotEntered(a.role)
    <3> HIDE DEF taken
    <3>1. NotEntered(a.role) \in WalkType
      BY <1>4 DEF NotEntered, WalkType
    <3> QED
      BY <1>5, <3>1 DEF Busy
  <2>2. t.walk.output = <<a.role>> /\ t.walk.output[1] = a.role /\ t.walk.output # << >>
    BY <2>1 DEF NotEntered
  <2>3. Goto(c, t)
    BY <1>3, <1>7
  <2> HIDE DEF t, taken
  <2>4. Remaining(t, v) = Given(config, v, a.role)
    BY <1>7, <2>1, <2>2 DEF Remaining, Given
  <2>5. InHand(t)
    BY <1>7, <2>1, <2>2 DEF InHand
  <2>6. TaskInv(t, source)
    BY <1>6, <2>1, <2>4, <2>5
  <2> QED
    BY <1>1, <2>1, <2>3, <2>6, GoesOn
<1>8. CASE ~ config.role_hierarchy
  <2> DEFINE t == on(a)
  <2>1. /\ t \in Busy /\ t.at = "permissions" /\ t.request = task[c].request
        /\ t.changed = task[c].changed /\ t.grants = task[c].grants
        /\ t.todo = task[c].todo \ {a} /\ t.scope = a.scope /\ t.roles = <<a.role>>
    <3> HIDE DEF taken
    <3>1. <<a.role>> \in Seq(Roles)
      BY <1>4
    <3> QED
      BY <1>5, <3>1 DEF Busy
  <2>2. Goto(c, t)
    BY <1>3, <1>8
  <2> HIDE DEF t, taken
  <2>3. Range(<<a.role>>) = {a.role} /\ <<a.role>> # << >>
    BY DEF Range
  <2>4. Remaining(t, v) = Given(config, v, a.role)
    BY <1>8, <2>1, <2>3 DEF Remaining, Given
  <2>5. InHand(t)
    BY <2>1, <2>3 DEF InHand
  <2>6. TaskInv(t, source)
    BY <1>6, <2>1, <2>4, <2>5
  <2> QED
    BY <1>1, <2>1, <2>2, <2>6, GoesOn
<1> QED
  BY <1>7, <1>8

(* The walk begins with the parents the root has at this moment.            *)
LEMMA NewWalkSound ==
  ASSUME NEW v \in ViewType, NEW r \in Roles
  PROVE  LET w == NewWalk(r, v.parents[r]) IN
         /\ w \in WalkType /\ w.output # << >> /\ w.output[1] = r
         /\ Sound(w, v.parents, Above(v, r))
<1> DEFINE w == NewWalk(r, v.parents[r])
           f == Frame(r, 0, v.parents[r])
<1>1. w.stack = <<f>> /\ w.visiting = {r} /\ w.visited = {} /\ w.output = <<r>>
  BY DEF NewWalk
<1>2. f \in FrameType /\ f.role = r /\ f.rest = v.parents[r]
  BY DEF Frame, FrameType, ViewType
<1>3. w \in WalkType
  BY <1>2 DEF NewWalk, WalkType
<1> HIDE DEF w, f
<1>4. /\ Height(w) = 1 /\ w.stack[1] = f
      /\ w.output # << >> /\ w.output[1] = r /\ Range(w.output) = {r}
  BY <1>1 DEF Height, Range
<1>5. RoleAt(w, 1) = r /\ RestAt(w, 1) = v.parents[r] /\ 1 .. Height(w) = {1}
  BY <1>2, <1>4 DEF RoleAt, RestAt
<1>6. r \in Above(v, r) /\ v.parents[r] \subseteq Above(v, r)
  BY AboveFacts
<1>7. Explored(w, v.parents)
  BY <1>1, <1>5 DEF Explored
<1>8. Accounted(w)
  BY <1>1, <1>4, <1>5 DEF Accounted
<1>9. Reached(w, Above(v, r))
  BY <1>4, <1>5, <1>6 DEF Reached
<1> QED
  BY <1>3, <1>4, <1>7, <1>8, <1>9 DEF Sound, w

LEMMA OutputRoot ==
  ASSUME NEW w \in WalkType, w.output # << >>
  PROVE  /\ w.output \in Seq(Roles) /\ w.output[1] \in Roles
         /\ w.output[1] \in Range(w.output)
<1>1. w.output \in Seq(Roles) /\ Len(w.output) \in Nat \ {0}
  BY DEF WalkType
<1>2. 1 \in DOMAIN w.output
  BY <1>1
<1> QED
  BY <1>1, <1>2 DEF Range

LEMMA EnterStep ==
  ASSUME Inv, NEW c \in Tasks, EnterRole(c)
  PROVE  Inv'
<1> DEFINE v == View(source, task[c].request.subject)
           r == task[c].walk.output[1]
           t == [task[c] EXCEPT !.at = "walk", !.walk = NewWalk(r, v.parents[r])]
<1>1. task[c].at = "expand" /\ Working(task[c]) /\ ReadsOnly /\ Goto(c, t)
  BY DEF EnterRole, Working, ParentsOf, View
<1>2. task[c] \in Busy /\ TaskInv(task[c], source) /\ v \in ViewType
  BY <1>1, TaskFacts
<1>3. r \in Roles /\ ConfigOf(task[c].request).role_hierarchy
  BY <1>1, <1>2, OutputRoot DEF Busy, TaskInv, InHand
<1>4. /\ NewWalk(r, v.parents[r]) \in WalkType
      /\ NewWalk(r, v.parents[r]).output # << >> /\ NewWalk(r, v.parents[r]).output[1] = r
      /\ Sound(NewWalk(r, v.parents[r]), v.parents, Above(v, r))
  <2> HIDE DEF v, r
  <2> QED
    BY <1>2, <1>3, NewWalkSound
<1>5. /\ t \in Busy /\ t.at = "walk" /\ t.request = task[c].request
      /\ t.changed = task[c].changed /\ t.grants = task[c].grants /\ t.todo = task[c].todo
      /\ t.scope = task[c].scope /\ t.walk = NewWalk(r, v.parents[r])
  <2> HIDE DEF v, r
  <2> QED
    BY <1>2, <1>4 DEF Busy
<1> HIDE DEF t, v
<1>6. Collects(task[c], v) => Collects(t, v)
  <2>1. Remaining(task[c], v) = Above(v, r) /\ Remaining(t, v) = Above(v, r)
    BY <1>1, <1>4, <1>5 DEF Remaining
  <2> HIDE DEF r
  <2> QED
    BY <1>4, <1>5, <2>1 DEF Collects
<1>7. TaskInv(t, source)
  BY <1>1, <1>2, <1>3, <1>4, <1>5, <1>6, StatusStays DEF TaskInv, InHand, Reads, v
<1> QED
  BY <1>1, <1>5, <1>7, GoesOn

(* A step of the walk from the same root that keeps it sound.               *)
LEMMA WalkStep ==
  ASSUME Inv, NEW c \in Tasks, task[c].at = "walk", ReadsOnly,
         NEW w \in WalkType, Goto(c, [task[c] EXCEPT !.walk = w]),
         w.output # << >>, w.output[1] = task[c].walk.output[1],
         LET v == View(source, task[c].request.subject)
             above == Above(v, w.output[1])
         IN  Sound(task[c].walk, v.parents, above) => Sound(w, v.parents, above)
  PROVE  Inv'
<1> DEFINE v == View(source, task[c].request.subject)
           t == [task[c] EXCEPT !.walk = w]
<1>1. Working(task[c])
  BY DEF Working
<1>2. task[c] \in Busy /\ TaskInv(task[c], source)
  BY <1>1, TaskFacts
<1>3. /\ t \in Busy /\ t.at = "walk" /\ t.request = task[c].request
      /\ t.changed = task[c].changed /\ t.grants = task[c].grants /\ t.todo = task[c].todo
      /\ t.scope = task[c].scope /\ t.walk = w
  BY <1>2 DEF Busy
<1>4. Goto(c, t)
  OBVIOUS
<1>5. Sound(task[c].walk, v.parents, Above(v, w.output[1]))
        => Sound(w, v.parents, Above(v, w.output[1]))
  OBVIOUS
<1> HIDE DEF t, v
<1>6. Collects(task[c], v) => Collects(t, v)
  <2>1. Remaining(t, v) = Remaining(task[c], v)
    BY <1>3 DEF Remaining
  <2> QED
    BY <1>3, <1>5, <2>1 DEF Collects
<1>7. TaskInv(t, source)
  BY <1>2, <1>3, <1>6, StatusStays DEF TaskInv, InHand, Reads, v
<1> QED
  BY <1>1, <1>3, <1>4, <1>7, GoesOn

(* What the top role has to come is there to be drawn.                      *)
LEMMA WalkFacts ==
  ASSUME Inv, NEW c \in Tasks, task[c].at = "walk"
  PROVE  /\ Working(task[c]) /\ task[c] \in Busy /\ TaskInv(task[c], source)
         /\ task[c].walk \in WalkType /\ task[c].walk.output # << >>
         /\ View(source, task[c].request.subject) \in ViewType
         /\ \A p : p \in Drawable(c) <=>
              task[c].walk.stack # << >> /\ p \in Top(task[c].walk).rest
         /\ \A p \in Drawable(c) : p \in Roles
<1>1. /\ Working(task[c]) /\ task[c] \in Busy /\ TaskInv(task[c], source)
      /\ View(source, task[c].request.subject) \in ViewType
  BY TaskFacts DEF Working
<1>2. task[c].walk \in WalkType /\ task[c].walk.output # << >>
  BY <1>1 DEF TaskInv, InHand, Busy
<1>3. \A p : p \in Drawable(c) <=>
        task[c].walk.stack # << >> /\ p \in Top(task[c].walk).rest
  BY DEF Drawable
<1>4. task[c].walk.stack # << >> => Top(task[c].walk) \in FrameType
  BY <1>2, StackFacts
<1> QED
  BY <1>1, <1>2, <1>3, <1>4 DEF FrameType

LEMMA SkipStep ==
  ASSUME Inv, NEW c \in Tasks, SkipVisited(c)
  PROVE  Inv'
<1> DEFINE v == View(source, task[c].request.subject)
           w == task[c].walk
<1>1. PICK p \in Drawable(c) :
        Visited(w, p) /\ Goto(c, [task[c] EXCEPT !.walk = Skip(w, p)])
  BY DEF SkipVisited
<1>2. task[c].at = "walk" /\ w.stack # << >> /\ ReadsOnly
  BY <1>1 DEF SkipVisited, Drawable
<1>3. w \in WalkType /\ w.output # << >> /\ p \in Roles /\ v.parents \in [Roles -> SUBSET Roles]
  BY <1>1, <1>2, WalkFacts DEF ViewType
<1>4. p \in w.visited
  BY <1>1 DEF Visited
<1>5. Skip(w, p).output = w.output
  BY DEF Skip
<1>6. \A above : /\ Skip(w, p) \in WalkType
                 /\ Sound(w, v.parents, above) => Sound(Skip(w, p), v.parents, above)
  <2> HIDE DEF v, w
  <2> QED
    BY <1>2, <1>3, <1>4, SkipWalk
<1> DEFINE x == Skip(w, p)
<1> QED
  <2> HIDE DEF x
  <2>1. Goto(c, [task[c] EXCEPT !.walk = x]) /\ x \in WalkType /\ x.output = w.output
        /\ \A above : Sound(w, v.parents, above) => Sound(x, v.parents, above)
    BY <1>1, <1>5, <1>6 DEF x
  <2> QED
    BY <1>2, <1>3, <2>1, WalkStep

LEMMA VisitStep ==
  ASSUME Inv, NEW c \in Tasks, VisitParent(c)
  PROVE  Inv'
<1> DEFINE v == View(source, task[c].request.subject)
           w == task[c].walk
           root == w.output[1]
<1>1. PICK p \in Drawable(c) :
        Goto(c, [task[c] EXCEPT !.walk = Descend(w, p, v.parents[p])])
  BY DEF VisitParent, ParentsOf, View
<1>2. task[c].at = "walk" /\ w.stack # << >> /\ ReadsOnly
  BY <1>1 DEF VisitParent, Drawable
<1>3. /\ w \in WalkType /\ w.output # << >> /\ p \in Roles /\ v \in ViewType
      /\ v.parents \in [Roles -> SUBSET Roles] /\ p \in Top(w).rest
  BY <1>1, <1>2, WalkFacts DEF ViewType
<1> DEFINE x == Descend(w, p, v.parents[p])
<1>4. x.output # << >> /\ x.output[1] = root
  <2>1. w.output \in Seq(Roles) /\ x.output = Append(w.output, p)
    BY <1>3, OutputRoot DEF Descend
  <2> HIDE DEF x, w
  <2> QED
    BY <1>3, <2>1 DEF w
<1>5. x \in WalkType /\ (Sound(w, v.parents, Above(v, root))
                           => Sound(x, v.parents, Above(v, root)))
  <2>1. /\ v.parents[p] \in SUBSET Roles
        /\ \A above : /\ x \in WalkType
                      /\ Sound(w, v.parents, above) /\ v.parents[p] \subseteq above
                           => Sound(x, v.parents, above)
    <3> HIDE DEF v, w
    <3> QED
      BY <1>2, <1>3, DescendWalk
  <2>2. ASSUME Sound(w, v.parents, Above(v, root)) PROVE v.parents[p] \subseteq Above(v, root)
    <3> HIDE DEF v, w, x
    <3>1. Height(w) \in 1 .. Height(w) /\ RestAt(w, Height(w)) = Top(w).rest
      BY <1>2, <1>3, StackFacts DEF RestAt
    <3>2. p \in Above(v, root)
      BY <1>3, <2>2, <3>1 DEF Sound, Reached
    <3>3. root \in Roles
      BY <1>3, OutputRoot
    <3> QED
      BY <1>3, <3>2, <3>3, AboveFacts
  <2> HIDE DEF v, w, x
  <2> QED
    BY <2>1, <2>2
<1>6. Goto(c, [task[c] EXCEPT !.walk = x])
  BY <1>1
<1> HIDE DEF x
<1> QED
  BY <1>2, <1>4, <1>5, <1>6, WalkStep

LEMMA LeaveStep ==
  ASSUME Inv, NEW c \in Tasks, LeaveRole(c)
  PROVE  Inv'
<1> DEFINE v == View(source, task[c].request.subject)
           w == task[c].walk
           x == Leave(w)
<1>1. /\ task[c].at = "walk" /\ w.stack # << >> /\ Top(w).rest = {} /\ ReadsOnly
      /\ Goto(c, [task[c] EXCEPT !.walk = x])
  BY DEF LeaveRole, Drawable
<1>2. w \in WalkType /\ w.output # << >> /\ v.parents \in [Roles -> SUBSET Roles]
  BY <1>1, WalkFacts DEF ViewType
<1>3. x.output = w.output
  BY DEF Leave
<1>4. \A above : /\ x \in WalkType
                 /\ Sound(w, v.parents, above) => Sound(x, v.parents, above)
  <2> HIDE DEF v, w
  <2> QED
    BY <1>1, <1>2, LeaveWalk
<1> HIDE DEF x
<1> QED
  BY <1>1, <1>2, <1>3, <1>4, WalkStep

(* When the stack is empty, exactly the roles above the root are put out.   *)
LEMMA WalkEnds ==
  ASSUME NEW v \in ViewType, NEW w \in WalkType, w.output # << >>, w.stack = << >>,
         Sound(w, v.parents, Above(v, w.output[1]))
  PROVE  Range(w.output) = Above(v, w.output[1])
<1> DEFINE r == w.output[1]
<1>1. r \in Roles /\ r \in Range(w.output)
  BY OutputRoot
<1>2. Range(w.output) = w.visited
  <2>1. 1 .. Height(w) = {}
    BY DEF Height
  <2> QED
    BY <2>1 DEF Sound, Accounted
<1>3. \A x \in w.visited : v.parents[x] \subseteq w.visited
  BY DEF Sound, Explored
<1>4. w.visited \in SUBSET Roles
  BY DEF WalkType
<1>5. Above(v, r) \subseteq w.visited
  <2> HIDE DEF r
  <2> QED
    BY <1>1, <1>2, <1>3, <1>4, AboveFacts
<1> QED
  BY <1>2, <1>5 DEF Sound, Reached

LEMMA FinishExpansionStep ==
  ASSUME Inv, NEW c \in Tasks, FinishExpansion(c)
  PROVE  Inv'
<1> DEFINE v == View(source, task[c].request.subject)
           w == task[c].walk
           t == [task[c] EXCEPT !.at = "permissions", !.walk = NoWalk, !.roles = w.output]
<1>1. task[c].at = "walk" /\ w.stack = << >> /\ ReadsOnly /\ Goto(c, t)
  BY DEF FinishExpansion
<1>2. /\ Working(task[c]) /\ task[c] \in Busy /\ TaskInv(task[c], source) /\ v \in ViewType
      /\ w \in WalkType /\ w.output # << >> /\ w.output \in Seq(Roles)
  BY <1>1, WalkFacts, OutputRoot
<1>3. /\ t \in Busy /\ t.at = "permissions" /\ t.request = task[c].request
      /\ t.changed = task[c].changed /\ t.grants = task[c].grants /\ t.todo = task[c].todo
      /\ t.scope = task[c].scope /\ t.roles = w.output
  <2>1. NoWalk \in WalkType
    BY DEF NoWalk, WalkType
  <2> HIDE DEF w
  <2> QED
    BY <1>2, <2>1 DEF Busy
<1> HIDE DEF t, v
<1>4. Collects(task[c], v) => Collects(t, v)
  <2> SUFFICES ASSUME Collects(task[c], v) PROVE Collects(t, v)
    OBVIOUS
  <2>1. Sound(w, v.parents, Above(v, w.output[1]))
    BY <1>1 DEF Collects
  <2>2. Range(w.output) = Above(v, w.output[1])
    BY <1>1, <1>2, <2>1, WalkEnds
  <2>3. Remaining(t, v) = Remaining(task[c], v)
    BY <1>1, <1>3, <2>2 DEF Remaining
  <2> QED
    BY <1>3, <2>3 DEF Collects
<1>5. TaskInv(t, source)
  BY <1>1, <1>2, <1>3, <1>4, StatusStays DEF TaskInv, InHand, Reads, v
<1> QED
  BY <1>1, <1>2, <1>3, <1>5, GoesOn

LEMMA HeadAndTail ==
  ASSUME NEW T, NEW q \in Seq(T), q # << >>
  PROVE  /\ Head(q) \in T /\ Tail(q) \in Seq(T) /\ Range(q) = Range(Tail(q)) \cup {Head(q)}
<1> SUFFICES ASSUME NEW u, u = Tail(q)
             PROVE  Head(q) \in T /\ u \in Seq(T) /\ Range(q) = Range(u) \cup {Head(q)}
  OBVIOUS
<1>1. /\ u \in Seq(T) /\ Len(q) \in Nat \ {0} /\ Len(u) = Len(q) - 1
      /\ Head(q) = q[1] /\ q[1] \in T
      /\ \A i \in 1 .. Len(q) - 1 : u[i] = q[i + 1]
      /\ DOMAIN u = 1 .. Len(q) - 1 /\ DOMAIN q = 1 .. Len(q)
  BY HeadTailProperties
<1>2. \A i \in 1 .. Len(q) : i = 1 \/ (i - 1 \in 1 .. Len(q) - 1 /\ q[i] = u[i - 1])
  BY <1>1
<1>3. 1 \in 1 .. Len(q) /\ \A i \in 1 .. Len(q) - 1 : i + 1 \in 1 .. Len(q)
  BY <1>1
<1>4. ASSUME NEW x \in Range(q) PROVE x \in Range(u) \cup {Head(q)}
  <2>1. PICK i \in 1 .. Len(q) : x = q[i]
    BY <1>1, <1>4 DEF Range
  <2>2. i = 1 \/ (i - 1 \in DOMAIN u /\ x = u[i - 1])
    BY <1>1, <1>2, <2>1
  <2> QED
    BY <1>1, <2>1, <2>2 DEF Range
<1>5. ASSUME NEW x \in Range(u) PROVE x \in Range(q)
  <2>1. PICK i \in 1 .. Len(q) - 1 : x = u[i]
    BY <1>1, <1>5 DEF Range
  <2>2. x = q[i + 1] /\ i + 1 \in DOMAIN q
    BY <1>1, <1>3, <2>1
  <2> QED
    BY <2>2 DEF Range
<1>6. Head(q) \in Range(q)
  BY <1>1, <1>3 DEF Range
<1>7. Range(q) = Range(u) \cup {Head(q)}
  BY <1>4, <1>5, <1>6
<1> QED
  BY <1>1, <1>7

LEMMA PermissionsStep ==
  ASSUME Inv, NEW c \in Tasks, ReadPermissions(c)
  PROVE  Inv'
<1> DEFINE v == View(source, task[c].request.subject)
           r == Head(task[c].roles)
           left == Tail(task[c].roles)
           scope == task[c].scope
           granted == {[role |-> r, permission |-> p, scope |-> scope] :
                         p \in source.permissions[task[c].request.subject.tenant][r]}
           at == IF left = << >> THEN "assignment_loop" ELSE "permissions"
           next == IF left = << >> THEN NoScope ELSE scope
           grants == task[c].grants \cup granted
           t == [task[c] EXCEPT !.at = at, !.roles = left, !.grants = grants, !.scope = next]
<1>1. task[c].at = "permissions" /\ Working(task[c]) /\ ReadsOnly /\ Goto(c, t)
  BY DEF ReadPermissions, Working
<1>2. /\ task[c] \in Busy /\ TaskInv(task[c], source) /\ v \in ViewType
      /\ task[c].roles \in Seq(Roles) /\ task[c].roles # << >> /\ scope \in Scope
      /\ task[c].grants \in SUBSET Grant
  BY <1>1, TaskFacts DEF TaskInv, InHand, Busy
<1>3. r \in Roles /\ left \in Seq(Roles) /\ Range(task[c].roles) = Range(left) \cup {r}
  BY <1>2, HeadAndTail
<1>4. granted = OfRole(v, r, scope)
  BY DEF OfRole, View
<1>5. granted \in SUBSET Grant /\ next \in Scope
  <2> HIDE DEF v, r, scope, granted
  <2>1. granted \in SUBSET Grant
    BY <1>2, <1>3, <1>4, CollectedType
  <2> QED
    BY <1>2, <2>1 DEF NoScope, Scope
<1>6. /\ t \in Busy /\ t.at = at /\ t.request = task[c].request
      /\ t.changed = task[c].changed /\ t.grants = grants /\ t.todo = task[c].todo
      /\ t.scope = next /\ t.roles = left
  <2>1. at \in {"assignment_loop", "permissions"} /\ grants \in SUBSET Grant
    BY <1>2, <1>5
  <2> HIDE DEF at, next, grants, left
  <2> QED
    BY <1>2, <1>3, <1>5, <2>1 DEF Busy
<1>7. /\ left = << >> => at = "assignment_loop"
      /\ left # << >> => at = "permissions" /\ next = scope
      /\ grants = task[c].grants \cup OfRole(v, r, scope)
  BY <1>4
<1> HIDE DEF t, v, at, next, grants, granted, r, left
<1>8. OfRoles(v, Remaining(t, v), t.scope) = OfRoles(v, Range(left), scope)
  <2>1. CASE left = << >>
    <3>1. Range(left) = {} /\ Remaining(t, v) = {}
      BY <1>6, <1>7, <2>1 DEF Range, Remaining
    <3> QED
      BY <3>1, CollectedFacts
  <2>2. CASE left # << >>
    BY <1>6, <1>7, <2>2 DEF Remaining
  <2> QED
    BY <2>1, <2>2
<1>9. Collects(task[c], v) => Collects(t, v)
  <2>1. Remaining(task[c], v) = Range(left) \cup {r}
    BY <1>1, <1>3 DEF Remaining
  <2>2. OfRoles(v, Range(left) \cup {r}, scope)
          = OfRole(v, r, scope) \cup OfRoles(v, Range(left), scope)
    BY CollectedFacts
  <2>3. t.at # "walk"
    BY <1>6, <1>7
  <2> QED
    BY <1>6, <1>7, <1>8, <2>1, <2>2, <2>3 DEF Collects
<1>10. TaskInv(t, source)
  BY <1>1, <1>2, <1>6, <1>7, <1>9, StatusStays DEF TaskInv, InHand, Reads, v
<1>11. t.at \notin {"cache_get", "cache_set"}
  BY <1>6, <1>7
<1> QED
  BY <1>1, <1>6, <1>10, <1>11, GoesOn

-------------------------------------------------------------------------------
(* Calls of the cache.                                                      *)

(* A step of a task that calls the cache, or one in which it answers.       *)
LEMMA CacheStep ==
  ASSUME Inv, NEW c \in Tasks, Working(task[c]), NEW t \in TaskType, Goto(c, t), UsesCache,
         Working(t) => /\ TaskInv(t, source)
                       /\ t.request = task[c].request /\ t.changed = task[c].changed,
         pending' = [pending EXCEPT ![c] = CallOf(t)], CacheType',
         stored' \in [Keys -> (SUBSET Grant) \cup {Miss}],
         \A k \in Keys :
           \/ stored'[k] = Miss
           \/ stored'[k] = stored[k] /\ \A a \in Admins : k \in owed[a] => k \in owed'[a]
           \/ ~ Outdated(k) => Exact(k, stored'[k], source)
  PROVE  Inv'
<1>1. UNCHANGED <<source, edits, armed, cleared, fenced>>
  BY DEF UsesCache
<1>2. TypeOK' /\ TasksInv' /\ \A k : (Outdated(k))' => Outdated(k)
  BY <1>1, TaskMoves
<1>3. CallsInv'
  <2>1. /\ task'[c] = t /\ \A d \in Tasks : d # c => task'[d] = task[d]
        /\ pending'[c] = CallOf(t) /\ \A d \in Clients : d # c => pending'[d] = pending[d]
    BY TypeFacts DEF Goto
  <2>2. \A d \in Tasks : pending'[d] = CallOf(task'[d])
    BY <2>1, TypeFacts DEF Inv, CallsInv
  <2>3. \A a \in Admins : pending'[a] = pending[a]
    BY <2>1, TypeFacts
  <2> QED
    BY <2>2, <2>3 DEF Inv, CallsInv
<1>4. FenceInv'
  BY <1>1, <1>2, FenceKept
<1> QED
  BY <1>2, <1>3, <1>4 DEF Inv

LEMMA CallStep ==
  ASSUME Inv, NEW c \in Tasks, Working(task[c]), NEW t \in Busy, Goto(c, t), UsesCache,
         Cache!Call(c, CallOf(t)), t.at \in {"cache_get", "cache_set"},
         TaskInv(t, source), t.request = task[c].request, t.changed = task[c].changed
  PROVE  Inv'
<1>1. /\ pending' = [pending EXCEPT ![c] = CallOf(t)]
      /\ returned' = [returned EXCEPT ![c] = Miss]
      /\ stored' = stored /\ owed' = owed
  BY DEF Cache!Call
<1>2. CallOf(t) \in Calls
  <2>1. KeyOf(t.request) \in Keys /\ t.grants \in SUBSET Grant
    BY KeyFacts DEF Busy
  <2> QED
    BY <2>1 DEF CallOf, Calls, Cache!FillsAndGets
<1>3. CacheType'
  BY <1>1, <1>2, TypeFacts DEF CacheType
<1>4. t \in TaskType
  BY DEF TaskType
<1> QED
  BY <1>1, <1>3, <1>4, TypeFacts, CacheStep

LEMMA MembershipStatusStep ==
  ASSUME Inv, NEW c \in Tasks, ReadMembershipStatus(c)
  PROVE  Inv'
<1>1. task[c].at = "membership_status" /\ Working(task[c]) /\ UsesCache
  BY DEF ReadMembershipStatus, Working
<1>2. task[c] \in Busy /\ TaskInv(task[c], source)
  BY <1>1, TaskFacts
<1>3. CASE source.members[task[c].request.subject]
  <2> DEFINE t == [task[c] EXCEPT !.at = "cache_get"]
  <2>1. /\ t \in Busy /\ t.at = "cache_get" /\ t.request = task[c].request
        /\ t.changed = task[c].changed /\ t.grants = task[c].grants
    BY <1>2 DEF Busy
  <2>2. Goto(c, t) /\ Cache!Call(c, [op |-> "get", key |-> KeyOf(task[c].request)])
    BY <1>3 DEF ReadMembershipStatus
  <2> HIDE DEF t
  <2>3. TaskInv(t, source)
    BY <1>1, <1>2, <1>3, <2>1 DEF TaskInv, InHand, Reads, StatusRead
  <2>4. CallOf(t) = [op |-> "get", key |-> KeyOf(task[c].request)]
    BY <2>1 DEF CallOf
  <2> QED
    BY <1>1, <2>1, <2>2, <2>3, <2>4, CallStep
<1>4. CASE ~ source.members[task[c].request.subject]
  <2>1. Goto(c, Answered("PrincipalInactive", NoScope)) /\ ReadsOnly
    BY <1>4 DEF ReadMembershipStatus, Answer, ReadsOnly, UsesCache, cacheVars
  <2> QED
    BY <1>1, <2>1, AnsweredType, EndStep DEF Denials
<1> QED
  BY <1>3, <1>4

LEMMA FinishAssignmentsStep ==
  ASSUME Inv, NEW c \in Tasks, FinishAssignments(c)
  PROVE  Inv'
<1> DEFINE v == View(source, task[c].request.subject)
           t == [task[c] EXCEPT !.at = "cache_set"]
<1>1. /\ task[c].at = "assignment_loop" /\ task[c].todo = {} /\ Working(task[c]) /\ UsesCache
      /\ Goto(c, t)
      /\ Cache!Call(c, [op |-> "set", key |-> KeyOf(task[c].request), grants |-> task[c].grants])
  BY DEF FinishAssignments, Working
<1>2. task[c] \in Busy /\ TaskInv(task[c], source)
  BY <1>1, TaskFacts
<1>3. /\ t \in Busy /\ t.at = "cache_set" /\ t.request = task[c].request
      /\ t.changed = task[c].changed /\ t.grants = task[c].grants /\ t.todo = task[c].todo
      /\ t.scope = task[c].scope
  BY <1>2 DEF Busy
<1> HIDE DEF t, v
<1>4. Collects(task[c], v) => Collects(t, v)
  BY <1>1, <1>3 DEF Collects, Remaining
<1>5. TaskInv(t, source)
  BY <1>1, <1>2, <1>3, <1>4, StatusStays DEF TaskInv, InHand, Reads, v
<1>6. CallOf(t) = [op |-> "set", key |-> KeyOf(task[c].request), grants |-> task[c].grants]
  BY <1>3 DEF CallOf
<1> QED
  BY <1>1, <1>3, <1>5, <1>6, CallStep

(* The task is answered with what its grants decide.                        *)
LEMMA Decides ==
  ASSUME NEW c, NEW grants \in SUBSET Grant, Decide(c, grants)
  PROVE  \E t \in Done : Goto(c, t)
<1> DEFINE request == task[c].request
           matched == {g \in grants : matches(g.permission, request.permission,
                                              ConfigOf(request).wildcard)}
           scope == merge({g.scope : g \in matched})
           reason == Decision(scope, request.target)
<1>1. Goto(c, Answered(reason, scope))
  BY DEF Decide, Answer
<1>2. scope \in Scope
  <2> DEFINE scopes == {g.scope : g \in matched}
  <2>1. scopes \in SUBSET Scope
    BY DEF Grant
  <2> HIDE DEF scopes
  <2>2. compact_paths(UNION {s.roots : s \in scopes}) \in SUBSET Seq(STRING)
    BY <2>1 DEF compact_paths, Scope
  <2>3. merge(scopes) \in Scope
    BY <2>2 DEF merge, TenantScope, Paths, Scope
  <2> QED
    BY <2>3 DEF scopes
<1> HIDE DEF scope
<1>3. reason \in {"Allow"} \cup Denials
  BY DEF Decision, explain_tenant, explain_access_scope, Denials
<1>4. Answered(reason, scope) \in Done
  BY <1>2, <1>3 DEF Answered, Done
<1> QED
  BY <1>1, <1>4

LEMMA DoneFacts ==
  ASSUME NEW t \in Done
  PROVE  t \in TaskType /\ ~ Working(t) /\ CallOf(t) = Cache!NoCall
BY DEF TaskType, Done, Working, CallOf

LEMMA CacheAnswersStep ==
  ASSUME Inv, NEW c \in Tasks, CacheAnswers(c)
  PROVE  Inv'
<1>1. task[c].at = "cache_get" /\ Working(task[c]) /\ UsesCache
  BY DEF CacheAnswers, Working
<1>2. task[c] \in Busy /\ TaskInv(task[c], source) /\ KeyOf(task[c].request) \in Keys
  BY <1>1, TaskFacts
<1>3. PICK lost \in Losses : Cache!Answer(c, lost)
  BY DEF CacheAnswers
<1>4. pending[c] = [op |-> "get", key |-> KeyOf(task[c].request)]
  BY <1>1 DEF Inv, CallsInv, CallOf
<1>5. /\ \/ returned' = [returned EXCEPT ![c] = stored[KeyOf(task[c].request)]]
         \/ returned' = [returned EXCEPT ![c] = Miss]
      /\ pending' = [pending EXCEPT ![c] = Cache!NoCall]
      /\ stored' = [k \in Keys |-> IF k \in lost THEN Miss ELSE stored[k]]
      /\ owed' = [d \in Clients |-> owed[d] \ lost]
  BY <1>3, <1>4 DEF Cache!Answer, Cache!Return, Cache!Lose, Clients
<1>6. stored[KeyOf(task[c].request)] \in (SUBSET Grant) \cup {Miss}
  BY <1>2, TypeFacts
<1>7. CacheType' /\ stored' \in [Keys -> (SUBSET Grant) \cup {Miss}]
  <2>1. pending' \in [Clients -> Calls]
    BY <1>5, TypeFacts DEF Calls
  <2>2. returned' \in [Clients -> (SUBSET Grant) \cup {Miss}]
    BY <1>5, <1>6, TypeFacts
  <2>3. owed' \in [Clients -> SUBSET Keys]
    BY <1>5, TypeFacts
  <2>4. stored' \in [Keys -> (SUBSET Grant) \cup {Miss}]
    BY <1>5, TypeFacts
  <2> QED
    BY <2>1, <2>2, <2>3, <2>4 DEF CacheType
<1>8. \A k \in Keys :
        \/ stored'[k] = Miss
        \/ stored'[k] = stored[k] /\ \A a \in Admins : k \in owed[a] => k \in owed'[a]
  BY <1>5, TypeFacts
<1>9. \E t \in TaskType :
        /\ Goto(c, t) /\ CallOf(t) = Cache!NoCall
        /\ Working(t) => /\ TaskInv(t, source)
                         /\ t.request = task[c].request /\ t.changed = task[c].changed
  <2>1. CASE returned'[c] # Miss
    <3>1. returned'[c] \in SUBSET Grant
      BY <1>7, <2>1, TypeFacts DEF CacheType
    <3>2. Decide(c, returned'[c])
      BY <2>1 DEF CacheAnswers
    <3> QED
      BY <3>1, <3>2, Decides, DoneFacts
  <2>2. CASE returned'[c] = Miss
    <3> DEFINE t == [task[c] EXCEPT !.at = "assignments"]
    <3>1. Goto(c, t)
      BY <2>2 DEF CacheAnswers
    <3>2. /\ t \in Busy /\ t.at = "assignments" /\ t.request = task[c].request
          /\ t.changed = task[c].changed /\ t.grants = task[c].grants
      BY <1>2 DEF Busy
    <3> HIDE DEF t
    <3>3. TaskInv(t, source)
      BY <1>1, <1>2, <3>2, StatusStays DEF TaskInv, InHand, Reads
    <3>4. t \in TaskType /\ CallOf(t) = Cache!NoCall
      BY <3>2 DEF TaskType, CallOf
    <3> QED
      BY <3>1, <3>2, <3>3, <3>4
  <2> QED
    BY <2>1, <2>2
<1> QED
  BY <1>1, <1>5, <1>7, <1>8, <1>9, CacheStep

(* What a task stores is exact, unless it has read an older source.         *)
LEMMA FilledExact ==
  ASSUME Inv, NEW c \in Tasks, task[c].at = "cache_set", "reads" \notin task[c].changed
  PROVE  LET v == View(source, task[c].request.subject) IN
         /\ task[c].grants = OfAssignments(ConfigOf(task[c].request), v, v.assignments)
         /\ Exact(KeyOf(task[c].request), task[c].grants, source)
<1> DEFINE v == View(source, task[c].request.subject)
           config == ConfigOf(task[c].request)
<1>1. /\ Working(task[c]) /\ TaskInv(task[c], source) /\ task[c].request \in RequestType
  BY TaskFacts DEF Working
<1>2. Collects(task[c], v) /\ task[c].todo = {} /\ Remaining(task[c], v) = {}
  BY <1>1 DEF TaskInv, InHand, Reads, Remaining
<1>3. OfAssignments(config, v, {}) = {} /\ OfRoles(v, {}, task[c].scope) = {}
  <2> HIDE DEF v, config
  <2> QED
    BY CollectedFacts
<1>4. task[c].grants = OfAssignments(config, v, v.assignments)
  BY <1>2, <1>3 DEF Collects
<1> QED
  BY <1>1, <1>4, ExactForRequest

LEMMA CacheStoresStep ==
  ASSUME Inv, NEW c \in Tasks, CacheStores(c)
  PROVE  Inv'
<1> DEFINE key == KeyOf(task[c].request)
<1>1. task[c].at = "cache_set" /\ Working(task[c]) /\ UsesCache /\ Decide(c, task[c].grants)
  BY DEF CacheStores, Working
<1>2. task[c] \in Busy /\ key \in Keys /\ task[c].grants \in SUBSET Grant
  BY <1>1, TaskFacts DEF Busy
<1>3. PICK lost \in Losses : Cache!Fill(c, lost)
  BY DEF CacheStores
<1>4. pending[c] = [op |-> "set", key |-> key, grants |-> task[c].grants]
  BY <1>1 DEF Inv, CallsInv, CallOf
<1>5. /\ returned' = [returned EXCEPT ![c] = Miss]
      /\ pending' = [pending EXCEPT ![c] = Cache!NoCall]
      /\ stored' = [k \in Keys |-> IF k \in lost THEN Miss
                                   ELSE IF k = key THEN task[c].grants ELSE stored[k]]
      /\ owed' = [d \in Clients |-> owed[d] \ (lost \cup {key})]
  BY <1>3, <1>4 DEF Cache!Fill, Cache!Return, Clients
<1>6. "reads" \notin task[c].changed => Exact(key, task[c].grants, source)
  BY <1>1, FilledExact
<1>7. ~ Outdated(key) => "reads" \notin task[c].changed
  BY <1>1 DEF Outdated, InFlight
<1> HIDE DEF key
<1>8. CacheType' /\ stored' \in [Keys -> (SUBSET Grant) \cup {Miss}]
  <2>1. pending' \in [Clients -> Calls]
    BY <1>5, TypeFacts DEF Calls
  <2>2. returned' \in [Clients -> (SUBSET Grant) \cup {Miss}]
    BY <1>5, TypeFacts
  <2>3. owed' \in [Clients -> SUBSET Keys]
    BY <1>5, TypeFacts
  <2>4. stored' \in [Keys -> (SUBSET Grant) \cup {Miss}]
    BY <1>2, <1>5, TypeFacts
  <2> QED
    BY <2>1, <2>2, <2>3, <2>4 DEF CacheType
<1>9. \A k \in Keys :
        \/ stored'[k] = Miss
        \/ stored'[k] = stored[k] /\ \A a \in Admins : k \in owed[a] => k \in owed'[a]
        \/ ~ Outdated(k) => Exact(k, stored'[k], source)
  <2> SUFFICES ASSUME NEW k \in Keys, k \notin lost
               PROVE  \/ /\ stored'[k] = stored[k]
                         /\ \A a \in Admins : k \in owed[a] => k \in owed'[a]
                      \/ ~ Outdated(k) => Exact(k, stored'[k], source)
    BY <1>5
  <2>1. CASE k = key
    BY <1>5, <1>6, <1>7, <2>1
  <2>2. CASE k # key
    BY <1>5, <2>2, TypeFacts
  <2> QED
    BY <2>1, <2>2
<1>10. PICK t \in Done : Goto(c, t)
  BY <1>1, <1>2, Decides
<1>11. t \in TaskType /\ ~ Working(t) /\ CallOf(t) = Cache!NoCall
  BY <1>10, DoneFacts
<1> QED
  BY <1>1, <1>5, <1>8, <1>9, <1>10, <1>11, CacheStep

-------------------------------------------------------------------------------
(* Steps of an administrator.                                               *)

LEMMA SameTasks ==
  ASSUME Inv, UNCHANGED <<source, task, edits>>
  PROVE  /\ TasksInv'
         /\ \A k : (Outdated(k))' <=> Outdated(k)
         /\ \A d \in Tasks : CallOf(task'[d]) = CallOf(task[d])
BY DEF Inv, TasksInv, Outdated, InFlight

LEMMA TypesKept ==
  ASSUME Inv, UNCHANGED <<source, task, edits>>,
         stored' \in [Keys -> (SUBSET Grant) \cup {Miss}],
         armed' \in [Admins -> [cleared : SUBSET Keys, fenced : SUBSET Keys]],
         fenced' \subseteq cleared', cleared' \subseteq Keys
  PROVE  TypeOK'
BY DEF Inv, TypeOK

LEMMA AdminCalls ==
  ASSUME Inv, UNCHANGED <<source, task, edits>>, NEW a \in Admins,
         NEW call \in {Cache!NoCall, Cache!Sweeping},
         pending' = [pending EXCEPT ![a] = call]
  PROVE  CallsInv' /\ pending' \in [Clients -> Calls]
<1>1. pending' \in [Clients -> Calls]
  BY TypeFacts DEF Calls
<1>2. pending'[a] = call /\ \A d \in Clients : d # a => pending'[d] = pending[d]
  BY TypeFacts
<1>3. \A d \in Tasks : pending'[d] = CallOf(task'[d])
  BY <1>2, TypeFacts DEF Inv, CallsInv
<1>4. \A d \in Admins : pending'[d] \in {Cache!NoCall, Cache!Sweeping}
  BY <1>2, TypeFacts DEF Inv, CallsInv
<1> QED
  BY <1>1, <1>3, <1>4 DEF CallsInv

(* Every entry there is when an invalidation is called is owed by it.       *)
LEMMA InvalidateStep ==
  ASSUME Inv, NEW a \in Admins, NEW target \in SUBSET Keys, Invalidate(a, target)
  PROVE  Inv'
<1> DEFINE arm == [cleared |-> target, fenced |-> {k \in target : ~ Outdated(k)}]
<1>1. /\ pending' = [pending EXCEPT ![a] = Cache!Sweeping]
      /\ returned' = [returned EXCEPT ![a] = Miss]
      /\ owed' = [owed EXCEPT ![a] = {k \in target : stored[k] # Miss}]
      /\ stored' = stored
      /\ armed' = [armed EXCEPT ![a] = arm]
      /\ UNCHANGED <<source, task, edits, cleared, fenced>>
  BY DEF Invalidate, Cache!CallInvalidate, Cache!Filled
<1>2. /\ arm \in [cleared : SUBSET Keys, fenced : SUBSET Keys]
      /\ \A k : k \in arm.fenced <=> k \in target /\ ~ Outdated(k)
  OBVIOUS
<1> HIDE DEF arm
<1>3. armed' \in [Admins -> [cleared : SUBSET Keys, fenced : SUBSET Keys]]
  BY <1>1, <1>2, TypeFacts
<1>4. TypeOK'
  <2>1. fenced \subseteq cleared /\ cleared \subseteq Keys
    BY DEF Inv, TypeOK
  <2> QED
    BY <1>1, <1>3, <2>1, TypeFacts, TypesKept
<1>5. CallsInv' /\ pending' \in [Clients -> Calls]
  BY <1>1, AdminCalls
<1>6. CacheType'
  <2>1. owed' \in [Clients -> SUBSET Keys]
    BY <1>1, TypeFacts
  <2>2. returned' \in [Clients -> (SUBSET Grant) \cup {Miss}]
    BY <1>1, TypeFacts
  <2> QED
    BY <1>5, <2>1, <2>2 DEF CacheType
<1>7. FenceInv'
  <2>1. ASSUME NEW b \in Admins, NEW k \in armed'[b].fenced
        PROVE  /\ ~ (Outdated(k))'
               /\ stored'[k] # Miss /\ k \notin owed'[b] => Exact(k, stored'[k], source')
    <3>1. CASE b = a
      <4>1. k \in target /\ ~ Outdated(k)
        BY <1>1, <1>2, <2>1, <3>1, TypeFacts
      <4>2. owed'[b] = {x \in target : stored[x] # Miss}
        BY <1>1, <3>1, TypeFacts
      <4> QED
        BY <1>1, <4>1, <4>2, SameTasks
    <3>2. CASE b # a
      <4>1. armed'[b] = armed[b] /\ owed'[b] = owed[b]
        BY <1>1, <3>2, TypeFacts
      <4> QED
        BY <1>1, <2>1, <4>1, SameTasks DEF Inv, FenceInv
    <3> QED
      BY <3>1, <3>2
  <2>2. \A k \in fenced' :
          ~ (Outdated(k))' /\ (stored'[k] # Miss => Exact(k, stored'[k], source'))
    BY <1>1, SameTasks DEF Inv, FenceInv
  <2>3. \A b \in Admins : armed'[b].fenced \subseteq armed'[b].cleared
    <3>1. arm.fenced \subseteq arm.cleared
      BY DEF arm
    <3> QED
      BY <1>1, <3>1, TypeFacts DEF Inv, FenceInv
  <2> QED
    BY <2>1, <2>2, <2>3 DEF FenceInv
<1> QED
  BY <1>1, <1>4, <1>5, <1>6, <1>7, SameTasks DEF Inv

LEMMA ClearStep ==
  ASSUME Inv, NEW a \in Admins, CacheClears(a)
  PROVE  Inv'
<1>1. PICK lost \in Losses \ {{}} : Cache!Clear(a, lost)
  BY DEF CacheClears
<1>2. /\ stored' = [k \in Keys |-> IF k \in lost THEN Miss ELSE stored[k]]
      /\ owed' = [d \in Clients |-> owed[d] \ lost]
      /\ UNCHANGED <<pending, returned, source, task, edits, armed, cleared, fenced>>
  BY <1>1 DEF CacheClears, Cache!Clear, Cache!Lose, Clients
<1>3. /\ stored' \in [Keys -> (SUBSET Grant) \cup {Miss}]
      /\ owed' \in [Clients -> SUBSET Keys]
  BY <1>2, TypeFacts
<1>4. TypeOK'
  <2>1. fenced \subseteq cleared /\ cleared \subseteq Keys
    BY DEF Inv, TypeOK
  <2> QED
    BY <1>2, <1>3, <2>1, TypeFacts, TypesKept
<1>5. CacheType' /\ CallsInv'
  BY <1>2, <1>3, TypeFacts DEF CacheType, CallsInv, Inv
<1>6. FenceInv'
  <2>1. \A k \in Keys :
          \/ stored'[k] = Miss
          \/ stored'[k] = stored[k] /\ \A b \in Admins : k \in owed[b] => k \in owed'[b]
    BY <1>2, TypeFacts
  <2> QED
    BY <1>2, <2>1, SameTasks, FenceKept
<1> QED
  BY <1>2, <1>4, <1>5, <1>6, SameTasks DEF Inv

(* When an invalidation returns nothing that it owed is left.               *)
LEMMA ReturnStep ==
  ASSUME Inv, NEW a \in Admins, InvalidationReturns(a)
  PROVE  Inv'
<1> DEFINE arm == [cleared |-> {}, fenced |-> {}]
<1>1. PICK lost \in Losses : Cache!Finish(a, lost)
  BY DEF InvalidationReturns
<1>2. /\ owed[a] \subseteq lost
      /\ stored' = [k \in Keys |-> IF k \in lost THEN Miss ELSE stored[k]]
      /\ owed' = [d \in Clients |-> owed[d] \ lost]
      /\ pending' = [pending EXCEPT ![a] = Cache!NoCall]
      /\ returned' = [returned EXCEPT ![a] = Miss]
      /\ cleared' = cleared \cup armed[a].cleared
      /\ fenced' = fenced \cup armed[a].fenced
      /\ armed' = [armed EXCEPT ![a] = arm]
      /\ UNCHANGED <<source, task, edits>>
  BY <1>1 DEF InvalidationReturns, Cache!Finish, Cache!Lose, Cache!Return, Clients
<1>3. arm \in [cleared : SUBSET Keys, fenced : SUBSET Keys] /\ arm.fenced = {}
  OBVIOUS
<1> HIDE DEF arm
<1>4. /\ stored' \in [Keys -> (SUBSET Grant) \cup {Miss}]
      /\ owed' \in [Clients -> SUBSET Keys]
      /\ returned' \in [Clients -> (SUBSET Grant) \cup {Miss}]
  BY <1>2, TypeFacts
<1>5. armed' \in [Admins -> [cleared : SUBSET Keys, fenced : SUBSET Keys]]
  BY <1>2, <1>3, TypeFacts
<1>6. TypeOK'
  <2>1. fenced' \subseteq cleared' /\ cleared' \subseteq Keys
    <3>1. /\ fenced \subseteq cleared /\ cleared \subseteq Keys
          /\ armed[a].fenced \subseteq armed[a].cleared
      BY DEF Inv, TypeOK, FenceInv
    <3> QED
      BY <1>2, <3>1, TypeFacts
  <2> QED
    BY <1>2, <1>4, <1>5, <2>1, TypesKept
<1>7. CallsInv' /\ CacheType'
  BY <1>2, <1>4, AdminCalls DEF CacheType
<1>8. \A k \in Keys :
        stored'[k] # Miss => /\ stored'[k] = stored[k] /\ k \notin owed[a]
                             /\ \A b \in Admins : k \in owed[b] => k \in owed'[b]
  BY <1>2, TypeFacts
<1>9. FenceInv'
  <2>1. ASSUME NEW k \in fenced'
        PROVE  ~ (Outdated(k))' /\ (stored'[k] # Miss => Exact(k, stored'[k], source'))
    <3>1. k \in Keys
      BY <1>2, <2>1, TypeFacts
    <3>2. CASE k \in fenced
      BY <1>2, <1>8, <3>1, <3>2, SameTasks DEF Inv, FenceInv
    <3>3. CASE k \in armed[a].fenced
      BY <1>2, <1>8, <3>1, <3>3, SameTasks DEF Inv, FenceInv
    <3> QED
      BY <1>2, <2>1, <3>2, <3>3
  <2>2. ASSUME NEW b \in Admins, NEW k \in armed'[b].fenced
        PROVE  /\ ~ (Outdated(k))'
               /\ stored'[k] # Miss /\ k \notin owed'[b] => Exact(k, stored'[k], source')
    <3>1. b # a /\ armed'[b] = armed[b]
      BY <1>2, <1>3, <2>2, TypeFacts
    <3>2. k \in Keys
      BY <2>2, <3>1, TypeFacts
    <3> QED
      BY <1>2, <1>8, <2>2, <3>1, <3>2, SameTasks DEF Inv, FenceInv
  <2>3. \A b \in Admins : armed'[b].fenced \subseteq armed'[b].cleared
    BY <1>2, <1>3, TypeFacts DEF Inv, FenceInv
  <2> QED
    BY <2>1, <2>2, <2>3 DEF FenceInv
<1> QED
  BY <1>2, <1>6, <1>7, <1>9, SameTasks DEF Inv

LEMMA AdminSteps ==
  ASSUME Inv, NEW a \in Admins, AdminStep(a)
  PROVE  Inv'
<1>1. \A t, p : PrincipalKeys(t, p) \in SUBSET Keys /\ TenantKeys(t) \in SUBSET Keys
  BY DEF PrincipalKeys, TenantKeys
<1>2. (\E target \in SUBSET Keys : Invalidate(a, target)) \/ CacheClears(a)
      \/ InvalidationReturns(a)
  BY <1>1 DEF AdminStep, invalidate_principal, invalidate_role, invalidate_tenant,
              invalidate_all
<1> QED
  BY <1>2, InvalidateStep, ClearStep, ReturnStep

-------------------------------------------------------------------------------
(* Edits of the source.                                                     *)

LEMMA ChangedFacts ==
  ASSUME NEW t \in Busy, NEW changed \in SUBSET {"status", "reads"}
  PROVE  LET u == Changed(t, changed) IN
         /\ u \in Busy /\ u.at = t.at /\ u.request = t.request /\ u.changed = t.changed \cup changed
         /\ u.grants = t.grants /\ u.todo = t.todo /\ u.roles = t.roles /\ u.scope = t.scope
         /\ u.walk = t.walk
<1> DEFINE new == t.changed \cup changed
           u == [t EXCEPT !.changed = new]
<1>1. new \in SUBSET {"status", "reads"}
  BY DEF Busy
<1> HIDE DEF new
<1>2. /\ u \in Busy /\ u.at = t.at /\ u.request = t.request /\ u.changed = new
      /\ u.grants = t.grants /\ u.todo = t.todo /\ u.roles = t.roles /\ u.scope = t.scope
      /\ u.walk = t.walk
  BY <1>1 DEF Busy
<1> QED
  BY <1>2 DEF Changed, new

(* A task that is told of an edit has the same in hand; what it has read    *)
(* stands if the edit does not touch it.                                    *)
LEMMA ToldTask ==
  ASSUME NEW t \in TaskType, Working(t), NEW s, TaskInv(t, s), NEW edited,
         NEW changed \in SUBSET {"status", "reads"},
         \/ Reads(t) /\ "reads" \in changed
         \/ ~ Reads(t)
         \/ View(edited, t.request.subject) = View(s, t.request.subject),
         \/ "status" \in changed
         \/ /\ edited.tenants[t.request.subject.tenant] = s.tenants[t.request.subject.tenant]
            /\ edited.members[t.request.subject] = s.members[t.request.subject]
  PROVE  TaskInv(Changed(t, changed), edited)
<1> DEFINE u == Changed(t, changed)
<1>1. t \in Busy
  BY WorkingBusy
<1>2. /\ u \in Busy /\ u.at = t.at /\ u.request = t.request
      /\ u.changed = t.changed \cup changed
      /\ u.grants = t.grants /\ u.todo = t.todo /\ u.roles = t.roles /\ u.scope = t.scope
      /\ u.walk = t.walk
  BY <1>1, ChangedFacts
<1> HIDE DEF u
<1>3. \A v : Collects(u, v) <=> Collects(t, v)
  BY <1>2 DEF Collects, Remaining
<1>4. InHand(u) /\ (Reads(u) <=> Reads(t))
  BY <1>2 DEF TaskInv, InHand, Reads
<1>5. Reads(u) /\ "reads" \notin u.changed => Collects(u, View(edited, u.request.subject))
  BY <1>2, <1>3, <1>4 DEF TaskInv
<1>6. "status" \notin u.changed => StatusRead(u, edited)
  BY <1>2 DEF TaskInv, StatusRead
<1> QED
  BY <1>4, <1>5, <1>6 DEF TaskInv, u

LEMMA ChangedNothing ==
  ASSUME NEW t \in Busy
  PROVE  Changed(t, {}) = t
<1> DEFINE u == [t EXCEPT !.changed = t.changed]
<1>1. u = t
  BY DEF Busy
<1> QED
  BY <1>1 DEF Changed

(* What edits do to the tasks: some are told.                               *)
Told(c, keys, what) ==
  /\ IF what = "status" THEN InFlight(c) ELSE Computing(c)
  /\ KeyOf(task[c].request) \in keys

(* An edit of what may, outside the keys, be read.                          *)
Edits(keys, what, edited) ==
  /\ edits < MaxEdits /\ edits' = edits + 1 /\ source' = edited
  /\ UNCHANGED <<stored, pending, returned, owed>>
  /\ task' = [c \in Tasks |-> IF Told(c, keys, what) THEN Changed(task[c], {what}) ELSE task[c]]

Spares(keys, what, edited) ==
  /\ \A k \in Keys : k \notin keys \/ what = "status" =>
       View(edited, SubjectOf(k)) = View(source, SubjectOf(k))
  /\ \A k \in Keys : k \notin keys \/ what = "reads" =>
       /\ edited.tenants[k.tenant] = source.tenants[k.tenant]
       /\ edited.members[SubjectOf(k)] = source.members[SubjectOf(k)]

LEMMA EditedTasks ==
  ASSUME Inv, NEW keys, NEW what \in {"status", "reads"}, NEW edited \in SourceType,
         Edits(keys, what, edited), Spares(keys, what, edited)
  PROVE  /\ source' \in SourceType /\ task' \in [Tasks -> {Idle} \cup Busy \cup Done]
         /\ \A c \in Tasks : task'[c].at = "permissions" => task'[c].roles # << >>
         /\ edits' \in 0 .. MaxEdits
         /\ TasksInv' /\ CallsInv' /\ CacheType'
         /\ \A k : (Outdated(k))' => Outdated(k) \/ (what = "reads" /\ k \in keys)
<1>0. /\ edits < MaxEdits /\ edits' = edits + 1 /\ source' = edited
      /\ UNCHANGED <<stored, pending, returned, owed>>
      /\ task' = [c \in Tasks |-> task'[c]]
      /\ \A c \in Tasks :
           task'[c] = IF Told(c, keys, what) THEN Changed(task[c], {what}) ELSE task[c]
  BY DEF Edits
<1>1. /\ task \in [Tasks -> TaskType]
      /\ \A c \in Tasks : task[c].at = "permissions" => task[c].roles # << >>
      /\ \A c \in Tasks : Working(task[c]) => TaskInv(task[c], source)
      /\ \A c \in Tasks : pending[c] = CallOf(task[c])
  BY TypeFacts DEF Inv, TypeOK, TasksInv, CallsInv
(* Each task is told of the edit, or left as it was.                        *)
<1>2. ASSUME NEW c \in Tasks, Working(task[c])
      PROVE  \E changed \in SUBSET {what} :
               /\ task'[c] = Changed(task[c], changed)
               /\ \/ what # "reads" \/ "reads" \in changed \/ ~ Reads(task[c])
                  \/ KeyOf(task[c].request) \notin keys
               /\ \/ what # "status" \/ "status" \in changed
                  \/ KeyOf(task[c].request) \notin keys
               /\ what \in changed => KeyOf(task[c].request) \in keys
  <2>1. task[c] \in Busy /\ InFlight(c) /\ (Computing(c) <=> Reads(task[c]))
    BY <1>2, TaskFacts DEF Computing, Reads
  <2>2. CASE task'[c] = Changed(task[c], {what}) /\ KeyOf(task[c].request) \in keys
    BY <2>2
  <2>3. CASE /\ task'[c] = task[c]
             /\ \/ what = "reads" /\ ~ Computing(c)
                \/ KeyOf(task[c].request) \notin keys
    <3>1. task'[c] = Changed(task[c], {})
      BY <2>1, <2>3, ChangedNothing
    <3> QED
      BY <2>1, <2>3, <3>1
  <2> QED
    BY <1>0, <2>1, <2>2, <2>3 DEF Told
<1>3. ASSUME NEW c \in Tasks, ~ Working(task[c]) PROVE task'[c] = task[c]
  BY <1>0, <1>3 DEF Working, InFlight, Computing, Told
<1>4. ASSUME NEW c \in Tasks, Working(task[c])
      PROVE  /\ task'[c] \in Busy /\ Working(task'[c]) /\ TaskInv(task'[c], edited)
             /\ task'[c].at = task[c].at /\ task'[c].roles = task[c].roles
             /\ task'[c].request = task[c].request /\ CallOf(task'[c]) = CallOf(task[c])
             /\ "reads" \in task'[c].changed =>
                  \/ "reads" \in task[c].changed
                  \/ what = "reads" /\ KeyOf(task[c].request) \in keys
  <2> DEFINE t == task[c]
             k == KeyOf(t.request)
  <2>1. /\ t \in Busy /\ t \in TaskType /\ k \in Keys /\ TaskInv(t, source)
        /\ k.tenant = t.request.subject.tenant /\ SubjectOf(k) = t.request.subject
    BY <1>1, <1>4, TaskFacts, KeyFacts
  <2>2. PICK changed \in SUBSET {what} :
          /\ task'[c] = Changed(t, changed)
          /\ \/ what # "reads" \/ "reads" \in changed \/ ~ Reads(t) \/ k \notin keys
          /\ \/ what # "status" \/ "status" \in changed \/ k \notin keys
          /\ what \in changed => k \in keys
    BY <1>2, <1>4
  <2>3. changed \in SUBSET {"status", "reads"}
    BY <2>2
  <2> DEFINE u == Changed(t, changed)
  <2>4. /\ u \in Busy /\ u.at = t.at /\ u.request = t.request
        /\ u.changed = t.changed \cup changed /\ u.grants = t.grants /\ u.roles = t.roles
    BY <2>1, <2>3, ChangedFacts
  <2>5. \/ Reads(t) /\ "reads" \in changed
        \/ ~ Reads(t)
        \/ View(edited, t.request.subject) = View(source, t.request.subject)
    BY <2>1, <2>2 DEF Spares
  <2>6. \/ "status" \in changed
        \/ /\ edited.tenants[t.request.subject.tenant]
                = source.tenants[t.request.subject.tenant]
           /\ edited.members[t.request.subject] = source.members[t.request.subject]
    BY <2>1, <2>2 DEF Spares
  <2>7. TaskInv(u, edited)
    BY <1>4, <2>1, <2>3, <2>5, <2>6, ToldTask
  <2> HIDE DEF t, k
  <2>8. Working(u) /\ CallOf(u) = CallOf(t)
    BY <1>4, <2>4 DEF Working, CallOf, t
  <2> HIDE DEF u
  <2>9. task'[c] = u
    BY <2>2 DEF u
  <2> QED
    BY <2>2, <2>4, <2>7, <2>8, <2>9 DEF t, k
<1>5. task' \in [Tasks -> {Idle} \cup Busy \cup Done]
  <2>1. \A c \in Tasks : task'[c] \in {Idle} \cup Busy \cup Done
    BY <1>1, <1>3, <1>4 DEF TaskType
  <2> QED
    BY <1>0, <2>1
<1>6. \A c \in Tasks : task'[c].at = "permissions" => task'[c].roles # << >>
  BY <1>1, <1>3, <1>4
<1>7. TasksInv'
  BY <1>0, <1>3, <1>4 DEF TasksInv
<1>8. CallsInv' /\ CacheType'
  BY <1>0, <1>1, <1>3, <1>4 DEF Inv, CallsInv, CacheType
<1>9. ASSUME NEW k, (Outdated(k))' PROVE Outdated(k) \/ (what = "reads" /\ k \in keys)
  <2>1. PICK c \in Tasks : /\ Working(task'[c]) /\ KeyOf(task'[c].request) = k
                           /\ "reads" \in task'[c].changed
    BY <1>9 DEF Outdated, InFlight, Working
  <2>2. Working(task[c])
    BY <1>3, <2>1
  <2>3. \/ Working(task[c]) /\ KeyOf(task[c].request) = k /\ "reads" \in task[c].changed
        \/ what = "reads" /\ k \in keys
    BY <1>4, <2>1, <2>2
  <2> QED
    BY <2>3 DEF Outdated, InFlight, Working
<1>10. edits' \in 0 .. MaxEdits
  BY <1>0, BoundsAssumption DEF Inv, TypeOK
<1> QED
  BY <1>0, <1>5, <1>6, <1>7, <1>8, <1>9, <1>10

LEMMA StatusEdit ==
  ASSUME Inv, NEW keys, NEW edited \in SourceType, EditStatus(keys, edited),
         Spares(keys, "status", edited)
  PROVE  Inv'
<1>1. /\ edits < MaxEdits /\ edits' = edits + 1 /\ source' = edited
      /\ UNCHANGED <<stored, pending, returned, owed, armed, cleared, fenced>>
      /\ task' = [c \in Tasks |->
                    IF InFlight(c) /\ KeyOf(task[c].request) \in keys
                    THEN Changed(task[c], {"status"}) ELSE task[c]]
  BY DEF EditStatus
<1>2. /\ source' \in SourceType /\ task' \in [Tasks -> {Idle} \cup Busy \cup Done]
      /\ \A c \in Tasks : task'[c].at = "permissions" => task'[c].roles # << >>
      /\ edits' \in 0 .. MaxEdits
      /\ TasksInv' /\ CallsInv' /\ CacheType'
      /\ \A k : (Outdated(k))' => Outdated(k)
  <2>1. Edits(keys, "status", edited)
    BY <1>1 DEF Edits, Told
  <2> QED
    BY <2>1, EditedTasks
<1>3. TypeOK'
  BY <1>1, <1>2 DEF Inv, TypeOK
<1>4. FenceInv'
  <2>1. \A k \in Keys : \A grants : Exact(k, grants, source) <=> Exact(k, grants, source')
    BY <1>1 DEF Exact, Spares
  <2>2. fenced \in SUBSET Keys /\ \A a \in Admins : armed[a].fenced \in SUBSET Keys
    BY TypeFacts
  <2> QED
    BY <1>1, <1>2, <2>1, <2>2 DEF Inv, FenceInv
<1> QED
  BY <1>2, <1>3, <1>4 DEF Inv

LEMMA GrantsEdit ==
  ASSUME Inv, NEW keys, NEW edited \in SourceType, EditGrants(keys, edited),
         Spares(keys, "reads", edited)
  PROVE  Inv'
<1>1. /\ edits < MaxEdits /\ edits' = edits + 1 /\ source' = edited
      /\ UNCHANGED <<stored, pending, returned, owed>>
      /\ armed' = [a \in Admins |-> [cleared |-> armed[a].cleared \ keys,
                                     fenced  |-> armed[a].fenced \ keys]]
      /\ cleared' = cleared \ keys /\ fenced' = fenced \ keys
      /\ task' = [c \in Tasks |->
                    IF Computing(c) /\ KeyOf(task[c].request) \in keys
                    THEN Changed(task[c], {"reads"}) ELSE task[c]]
  BY DEF EditGrants
<1>2. /\ source' \in SourceType /\ task' \in [Tasks -> {Idle} \cup Busy \cup Done]
      /\ \A c \in Tasks : task'[c].at = "permissions" => task'[c].roles # << >>
      /\ edits' \in 0 .. MaxEdits
      /\ TasksInv' /\ CallsInv' /\ CacheType'
      /\ \A k : (Outdated(k))' => Outdated(k) \/ k \in keys
  <2>1. Edits(keys, "reads", edited)
    BY <1>1 DEF Edits, Told
  <2> QED
    BY <2>1, EditedTasks
<1>3. /\ \A a \in Admins : /\ armed'[a].cleared = armed[a].cleared \ keys
                           /\ armed'[a].fenced = armed[a].fenced \ keys
      /\ armed' \in [Admins -> [cleared : SUBSET Keys, fenced : SUBSET Keys]]
  BY <1>1, TypeFacts
<1>4. TypeOK'
  <2>1. fenced \subseteq cleared /\ cleared \subseteq Keys
    BY DEF Inv, TypeOK
  <2> QED
    BY <1>1, <1>2, <1>3, <2>1, TypeFacts DEF TypeOK
<1>5. FenceInv'
  <2>1. \A k \in Keys : k \notin keys =>
          \A grants : Exact(k, grants, source) <=> Exact(k, grants, source')
    BY <1>1 DEF Exact, Spares
  <2>2. fenced \in SUBSET Keys /\ \A a \in Admins : armed[a].fenced \in SUBSET Keys
    BY TypeFacts
  <2>3. \A k \in fenced' :
          ~ (Outdated(k))' /\ (stored'[k] # Miss => Exact(k, stored'[k], source'))
    BY <1>1, <1>2, <2>1, <2>2 DEF Inv, FenceInv
  <2>4. \A a \in Admins : \A k \in armed'[a].fenced :
          /\ ~ (Outdated(k))'
          /\ stored'[k] # Miss /\ k \notin owed'[a] => Exact(k, stored'[k], source')
    BY <1>1, <1>2, <1>3, <2>1, <2>2 DEF Inv, FenceInv
  <2>5. \A a \in Admins : armed'[a].fenced \subseteq armed'[a].cleared
    BY <1>3 DEF Inv, FenceInv
  <2> QED
    BY <2>3, <2>4, <2>5 DEF FenceInv
<1> QED
  BY <1>2, <1>4, <1>5 DEF Inv

(* Where an edit that keeps the rest of a source is seen.                   *)
LEMMA TenantsEdited ==
  ASSUME Inv, NEW t \in Tenants, set_tenant_status(t)
  PROVE  Inv'
<1> DEFINE new == [source.tenants EXCEPT ![t] = ~ source.tenants[t]]
           edited == [source EXCEPT !.tenants = new]
<1>1. EditStatus(TenantKeys(t), edited)
  BY DEF set_tenant_status
<1>2. source \in SourceType
  BY TypeFacts
<1>3. new \in [Tenants -> BOOLEAN] /\ \A x \in Tenants : x # t => new[x] = source.tenants[x]
  BY <1>2 DEF SourceType
<1> HIDE DEF new
<1>4. /\ edited \in SourceType /\ edited.tenants = new /\ edited.members = source.members
      /\ edited.assignments = source.assignments /\ edited.permissions = source.permissions
      /\ edited.parents = source.parents
  BY <1>2, <1>3 DEF SourceType
<1> HIDE DEF edited
<1>5. Spares(TenantKeys(t), "status", edited)
  <2>1. \A k \in Keys : k.tenant \in Tenants
    BY DEF Keys
  <2> QED
    BY <1>3, <1>4, <2>1 DEF Spares, View, TenantKeys
<1> QED
  BY <1>1, <1>4, <1>5, StatusEdit

LEMMA MembersEdited ==
  ASSUME Inv, NEW m \in Subjects, set_membership_status(m)
  PROVE  Inv'
<1> DEFINE new == [source.members EXCEPT ![m] = ~ source.members[m]]
           edited == [source EXCEPT !.members = new]
           keys == PrincipalKeys(m.tenant, m.principal)
<1>1. EditStatus(keys, edited)
  BY DEF set_membership_status
<1>2. source \in SourceType
  BY TypeFacts
<1>3. new \in [Subjects -> BOOLEAN] /\ \A x \in Subjects : x # m => new[x] = source.members[x]
  BY <1>2 DEF SourceType
<1> HIDE DEF new
<1>4. /\ edited \in SourceType /\ edited.members = new /\ edited.tenants = source.tenants
      /\ edited.assignments = source.assignments /\ edited.permissions = source.permissions
      /\ edited.parents = source.parents
  BY <1>2, <1>3 DEF SourceType
<1> HIDE DEF edited
<1>5. Spares(keys, "status", edited)
  <2>1. \A k \in Keys : SubjectOf(k) \in Subjects
    BY KeySubject
  <2>2. \A k \in Keys : k \notin keys => SubjectOf(k) # m
    BY DEF SubjectOf, PrincipalKeys
  <2> QED
    BY <1>3, <1>4, <2>1, <2>2 DEF Spares, View
<1> QED
  BY <1>1, <1>4, <1>5, StatusEdit

LEMMA ToggleType ==
  ASSUME NEW T, NEW S \in SUBSET T, NEW x \in T
  PROVE  Toggle(S, x) \in SUBSET T
BY DEF Toggle

LEMMA AssignmentsEdited ==
  ASSUME Inv, NEW m \in Subjects, NEW a \in AssignmentPool, edit_role_assignment(m, a)
  PROVE  Inv'
<1> DEFINE new == [source.assignments EXCEPT ![m] = Toggle(source.assignments[m], a)]
           edited == [source EXCEPT !.assignments = new]
           keys == PrincipalKeys(m.tenant, m.principal)
<1>1. EditGrants(keys, edited)
  BY DEF edit_role_assignment
<1>2. source \in SourceType /\ a \in Assignment
  BY TypeFacts, PoolAssumption
<1>3. /\ new \in [Subjects -> SUBSET Assignment]
      /\ \A x \in Subjects : x # m => new[x] = source.assignments[x]
  <2>1. Toggle(source.assignments[m], a) \in SUBSET Assignment
    BY <1>2, ToggleType DEF SourceType
  <2> QED
    BY <1>2, <2>1 DEF SourceType
<1> HIDE DEF new
<1>4. /\ edited \in SourceType /\ edited.assignments = new /\ edited.tenants = source.tenants
      /\ edited.members = source.members /\ edited.permissions = source.permissions
      /\ edited.parents = source.parents
  BY <1>2, <1>3 DEF SourceType
<1> HIDE DEF edited
<1>5. Spares(keys, "reads", edited)
  <2>1. \A k \in Keys : SubjectOf(k) \in Subjects
    BY KeySubject
  <2>2. \A k \in Keys : k \notin keys => SubjectOf(k) # m
    BY DEF SubjectOf, PrincipalKeys
  <2> QED
    BY <1>3, <1>4, <2>1, <2>2 DEF Spares, View
<1> QED
  BY <1>1, <1>4, <1>5, GrantsEdit

LEMMA PermissionsEdited ==
  ASSUME Inv, NEW t \in Tenants, NEW r \in Roles, NEW p \in PermissionPool,
         edit_role_permission(t, r, p)
  PROVE  Inv'
<1> DEFINE ofTenant == [source.permissions[t] EXCEPT ![r] = Toggle(source.permissions[t][r], p)]
           new == [source.permissions EXCEPT ![t] = ofTenant]
           edited == [source EXCEPT !.permissions = new]
<1>1. EditGrants(TenantKeys(t), edited)
  BY DEF edit_role_permission
<1>2. source \in SourceType /\ p \in Permissions
  BY TypeFacts DEF Permissions
<1>3. ofTenant \in [Roles -> SUBSET Permissions]
  <2>1. source.permissions[t] \in [Roles -> SUBSET Permissions]
    BY <1>2 DEF SourceType
  <2>2. Toggle(source.permissions[t][r], p) \in SUBSET Permissions
    BY <1>2, <2>1, ToggleType
  <2> QED
    BY <2>1, <2>2
<1> HIDE DEF ofTenant
<1>4. /\ new \in [Tenants -> [Roles -> SUBSET Permissions]]
      /\ \A x \in Tenants : x # t => new[x] = source.permissions[x]
  BY <1>2, <1>3 DEF SourceType
<1> HIDE DEF new
<1>5. /\ edited \in SourceType /\ edited.permissions = new /\ edited.tenants = source.tenants
      /\ edited.members = source.members /\ edited.assignments = source.assignments
      /\ edited.parents = source.parents
  BY <1>2, <1>4 DEF SourceType
<1> HIDE DEF edited
<1>6. Spares(TenantKeys(t), "reads", edited)
  <2>1. \A k \in Keys : k.tenant \in Tenants /\ SubjectOf(k).tenant = k.tenant
    BY DEF Keys, SubjectOf
  <2> QED
    BY <1>4, <1>5, <2>1 DEF Spares, View, TenantKeys
<1> QED
  BY <1>1, <1>5, <1>6, GrantsEdit

LEMMA ParentsEdited ==
  ASSUME Inv, NEW t \in Tenants, NEW r \in Roles, NEW p \in Roles, edit_parent_role(t, r, p)
  PROVE  Inv'
<1> DEFINE ofTenant == [source.parents[t] EXCEPT ![r] = Toggle(source.parents[t][r], p)]
           new == [source.parents EXCEPT ![t] = ofTenant]
           edited == [source EXCEPT !.parents = new]
<1>1. EditGrants(TenantKeys(t), edited)
  BY DEF edit_parent_role
<1>2. source \in SourceType
  BY TypeFacts
<1>3. ofTenant \in [Roles -> SUBSET Roles]
  <2>1. source.parents[t] \in [Roles -> SUBSET Roles]
    BY <1>2 DEF SourceType
  <2>2. Toggle(source.parents[t][r], p) \in SUBSET Roles
    BY <2>1, ToggleType
  <2> QED
    BY <2>1, <2>2
<1> HIDE DEF ofTenant
<1>4. /\ new \in [Tenants -> [Roles -> SUBSET Roles]]
      /\ \A x \in Tenants : x # t => new[x] = source.parents[x]
  BY <1>2, <1>3 DEF SourceType
<1> HIDE DEF new
<1>5. /\ edited \in SourceType /\ edited.parents = new /\ edited.tenants = source.tenants
      /\ edited.members = source.members /\ edited.assignments = source.assignments
      /\ edited.permissions = source.permissions
  BY <1>2, <1>4 DEF SourceType
<1> HIDE DEF edited
<1>6. Spares(TenantKeys(t), "reads", edited)
  <2>1. \A k \in Keys : k.tenant \in Tenants /\ SubjectOf(k).tenant = k.tenant
    BY DEF Keys, SubjectOf
  <2> QED
    BY <1>4, <1>5, <2>1 DEF Spares, View, TenantKeys
<1> QED
  BY <1>1, <1>5, <1>6, GrantsEdit

LEMMA EditSteps == Inv /\ Edit => Inv'
BY TenantsEdited, MembersEdited, AssignmentsEdited, PermissionsEdited, ParentsEdited DEF Edit

-------------------------------------------------------------------------------
(* The invariant holds always.                                              *)

LEMMA InitInv == Init => Inv
<1> SUFFICES ASSUME Init PROVE Inv
  OBVIOUS
<1>1. /\ source \in SourceType /\ task = [c \in Tasks |-> Idle] /\ edits = 0
      /\ stored = [k \in Keys |-> Miss] /\ pending = [c \in Clients |-> Cache!NoCall]
      /\ returned = [c \in Clients |-> Miss] /\ owed = [c \in Clients |-> {}]
      /\ cleared = Keys /\ fenced = Keys
  BY SourcesAssumption DEF Init, Cache!Init, Clients
<1>2. /\ \A a \in Admins : armed[a].fenced = {} /\ armed[a].cleared = {}
      /\ armed \in [Admins -> [cleared : SUBSET Keys, fenced : SUBSET Keys]]
  BY DEF Init
<1>3. \A c \in Tasks : task[c] = Idle /\ task[c].at = "idle"
  BY <1>1 DEF Idle
<1>4. TypeOK
  BY <1>1, <1>2, <1>3, BoundsAssumption DEF TypeOK
<1>5. CacheType
  BY <1>1 DEF CacheType, Calls
<1>6. TasksInv
  BY <1>3 DEF TasksInv, Working
<1>7. CallsInv
  BY <1>1, <1>3 DEF CallsInv, CallOf, Clients
<1>8. FenceInv
  <2>1. \A k : ~ Outdated(k)
    BY <1>3 DEF Outdated, InFlight
  <2> QED
    BY <1>1, <1>2, <2>1 DEF FenceInv
<1> QED
  BY <1>4, <1>5, <1>6, <1>7, <1>8 DEF Inv

LEMMA StutterInv == Inv /\ UNCHANGED vars => Inv'
<1> SUFFICES ASSUME Inv, UNCHANGED vars PROVE Inv'
  OBVIOUS
<1>1. UNCHANGED <<source, task, stored, pending, returned, owed, edits, armed, cleared, fenced>>
  BY DEF vars
<1>2. TypeOK'
  BY <1>1 DEF Inv, TypeOK
<1>3. CacheType' /\ CallsInv'
  BY <1>1 DEF Inv, CacheType, CallsInv
<1>4. FenceInv'
  BY <1>1, SameTasks DEF Inv, FenceInv
<1> QED
  BY <1>1, <1>2, <1>3, <1>4, SameTasks DEF Inv

LEMMA TaskSteps ==
  ASSUME Inv, NEW c \in Tasks, Progress(c) \/ Dropped(c) \/ \E r \in Requests : explain(c, r)
  PROVE  Inv'
BY ExplainStep, TenantStatusStep, MembershipStatusStep, CacheAnswersStep, AssignmentsStep,
   TakeStep, EnterStep, SkipStep, VisitStep, LeaveStep, FinishExpansionStep, PermissionsStep,
   FinishAssignmentsStep, CacheStoresStep, FailureSteps DEF Progress

LEMMA Inductive == Inv /\ [Next]_vars => Inv'
BY TaskSteps, AdminSteps, EditSteps, StutterInv DEF Next

LEMMA Invariance == Spec => []Inv
BY InitInv, Inductive, PTL DEF Spec

-------------------------------------------------------------------------------
(* The theorems.                                                            *)

(* Every variable keeps its type, whatever is requested, edited and lost.   *)
THEOREM TypeCorrect == Spec => []TypeOK
<1>1. Inv => TypeOK
  BY DEF Inv
<1> QED
  BY <1>1, Invariance, PTL

(* What is stored under a key that was invalidated after the last edit,     *)
(* with no older computation of it left, is exactly its subject's grants.   *)
THEOREM FencedHoldsExact == Spec => []FencedEntriesExact
<1>1. Inv => FencedEntriesExact
  <2> SUFFICES ASSUME Inv, NEW k \in fenced, NEW e \in Engines, stored[k] # Miss,
                      k.config_signature = signature(Config[e])
               PROVE  stored[k] = GrantsOf(SubjectOf(k), Config[e])
    BY DEF FencedEntriesExact, SubjectOf
  <2>1. Exact(k, stored[k], source)
    BY DEF Inv, FenceInv
  <2> QED
    BY <2>1, GrantsOfView DEF Exact
<1> QED
  BY <1>1, Invariance, PTL

-------------------------------------------------------------------------------
(* What a request is answered.                                              *)

(* A request that other tasks, administrators or edits take a step of is    *)
(* answered no more than before.                                            *)
LEMMA StepsOfOthers ==
  ASSUME Inv, NEW c \in Tasks, Answers(c),
         \/ \E d \in Tasks : d # c /\ \E t : Goto(d, t)
         \/ UNCHANGED task
         \/ Edit
  PROVE  FALSE
<1>1. /\ Working(task[c]) /\ task'[c].at = "answered" /\ task \in [Tasks -> TaskType]
      /\ task[c].at # "answered"
  BY TypeFacts DEF Answers, Working, InFlight
<1>2. ASSUME NEW d \in Tasks, NEW t, d # c, Goto(d, t) PROVE FALSE
  <2>1. task'[c] = task[c]
    BY <1>1, <1>2 DEF Goto
  <2> QED
    BY <1>1, <2>1
<1>3. ASSUME Edit PROVE FALSE
  <2>1. \/ \E keys, edited : EditStatus(keys, edited)
        \/ \E keys, edited : EditGrants(keys, edited)
    <3>1. ASSUME NEW t, set_tenant_status(t) PROVE \E keys, edited : EditStatus(keys, edited)
      BY <3>1, Zenon DEF set_tenant_status
    <3>2. ASSUME NEW m, set_membership_status(m)
          PROVE  \E keys, edited : EditStatus(keys, edited)
      BY <3>2, Zenon DEF set_membership_status
    <3>3. ASSUME NEW m, NEW a, edit_role_assignment(m, a)
          PROVE  \E keys, edited : EditGrants(keys, edited)
      BY <3>3, Zenon DEF edit_role_assignment
    <3>4. ASSUME NEW t, NEW r, NEW p, edit_role_permission(t, r, p)
          PROVE  \E keys, edited : EditGrants(keys, edited)
      BY <3>4, Zenon DEF edit_role_permission
    <3>5. ASSUME NEW t, NEW r, NEW p, edit_parent_role(t, r, p)
          PROVE  \E keys, edited : EditGrants(keys, edited)
      BY <3>5, Zenon DEF edit_parent_role
    <3> QED
      BY <1>3, <3>1, <3>2, <3>3, <3>4, <3>5 DEF Edit
  <2>2. PICK what \in {"status", "reads"} :
          task'[c] = Changed(task[c], {what}) \/ task'[c] = task[c]
    BY <2>1 DEF EditStatus, EditGrants
  <2>3. task[c] \in Busy /\ {what} \in SUBSET {"status", "reads"}
    BY <1>1, TaskFacts
  <2>4. Changed(task[c], {what}).at = task[c].at
    BY <2>3, ChangedFacts
  <2> QED
    BY <1>1, <2>2, <2>4
<1> QED
  BY <1>1, <1>2, <1>3

(* Requests are answered, other than with an error, at four steps only.     *)
LEMMA Answering ==
  ASSUME Inv, Next, NEW c \in Tasks, Answers(c)
  PROVE  ReadTenantStatus(c) \/ ReadMembershipStatus(c) \/ CacheAnswers(c) \/ CacheStores(c)
<1>1. /\ task[c] \in Busy /\ InFlight(c) /\ task[c].at # "answered"
      /\ task'[c].at = "answered" /\ task'[c].reason \notin Errors
      /\ task \in [Tasks -> TaskType]
  BY TypeFacts, TaskFacts DEF Answers, InFlight, Working
<1>2. PICK d \in Tasks : Progress(d) \/ Dropped(d) \/ \E r \in Requests : explain(d, r)
  <2>1. ASSUME NEW a \in Admins, AdminStep(a) PROVE UNCHANGED task
    BY <2>1 DEF AdminStep, invalidate_principal, invalidate_role, invalidate_tenant,
                invalidate_all, Invalidate, CacheClears, InvalidationReturns
  <2> QED
    BY <2>1, StepsOfOthers DEF Next
<1>3. \E t : Goto(d, t)
  BY <1>2 DEF Progress, Dropped, explain, ReadTenantStatus, ReadMembershipStatus,
              CacheAnswers, ReadAssignments, TakeAssignment, EnterRole, ExpansionFails,
              SkipVisited, VisitParent, LeaveRole, FinishExpansion, ReadPermissions,
              FinishAssignments, CacheStores, SourceFails, Answer, Decide
<1>4. d = c
  BY <1>3, StepsOfOthers
<1>5. \A t : Goto(c, t) => task'[c] = t
  BY <1>1 DEF Goto
<1>6. /\ ~ ReadAssignments(c) /\ ~ EnterRole(c)
      /\ ~ FinishExpansion(c) /\ ~ FinishAssignments(c) /\ ~ TakeAssignment(c)
  <2>1. ~ ReadAssignments(c)
    BY <1>1, <1>5 DEF ReadAssignments, Busy
  <2>2. ~ EnterRole(c)
    BY <1>1, <1>5 DEF EnterRole, Busy
  <2>3. ~ FinishExpansion(c)
    BY <1>1, <1>5 DEF FinishExpansion, Busy
  <2>4. ~ FinishAssignments(c)
    BY <1>1, <1>5 DEF FinishAssignments, Busy
  <2>5. ASSUME TakeAssignment(c) PROVE FALSE
    <3>1. PICK a \in task[c].todo :
            \/ Goto(c, [[task[c] EXCEPT !.todo = task[c].todo \ {a}, !.scope = a.scope]
                          EXCEPT !.at = "expand", !.walk = NotEntered(a.role)])
            \/ Goto(c, [[task[c] EXCEPT !.todo = task[c].todo \ {a}, !.scope = a.scope]
                          EXCEPT !.at = "permissions", !.roles = <<a.role>>])
      BY <2>5 DEF TakeAssignment
    <3>2. task'[c].at \in {"expand", "permissions"}
      BY <1>1, <1>5, <3>1 DEF Busy
    <3> QED
      BY <1>1, <3>2
  <2> QED
    BY <2>1, <2>2, <2>3, <2>4, <2>5
<1>7. ~ (SkipVisited(c) \/ VisitParent(c) \/ LeaveRole(c))
  BY <1>1, <1>5 DEF SkipVisited, VisitParent, LeaveRole, Busy
<1>8. ~ ReadPermissions(c)
  BY <1>1, <1>5 DEF ReadPermissions, Busy
<1>9. ~ (ExpansionFails(c) \/ SourceFails(c) \/ Dropped(c))
  BY <1>1, <1>5 DEF ExpansionFails, SourceFails, Dropped, Answer, Answered, Errors, Idle
<1>10. ~ \E r \in Requests : explain(c, r)
  BY <1>1 DEF explain
<1> QED
  BY <1>2, <1>4, <1>6, <1>7, <1>8, <1>9, <1>10 DEF Progress

(* The grants a decision is made from allow what one of them does.          *)
LEMMA DecideExact ==
  ASSUME NEW c, c \in DOMAIN task, task[c] \in Busy,
         NEW grants \in SUBSET Grant, Decide(c, grants)
  PROVE  LET request == task[c].request IN
         task'[c].reason = "Allow" <=>
           \E g \in grants :
             /\ matches(g.permission, request.permission, ConfigOf(request).wildcard)
             /\ g.scope.whole \/ \E root \in g.scope.roots :
                                   request.target # WholeTenant /\ allows(root, request.target)
<1> DEFINE request == task[c].request
           Matches(g) == matches(g.permission, request.permission, ConfigOf(request).wildcard)
           matched == {g \in grants : Matches(g)}
           scopes == {g.scope : g \in matched}
           Allows(s) == s.whole \/ \E root \in s.roots :
                                     request.target # WholeTenant /\ allows(root, request.target)
<1>1. task'[c].reason = Decision(merge(scopes), request.target)
  BY DEF Decide, Answer, Goto, Answered
<1>2. scopes \in SUBSET Scope /\ request.target \in Seq(STRING)
  BY DEF Grant, Busy, RequestType
<1>3. Decision(merge(scopes), request.target) = "Allow" <=> \E s \in scopes : Allows(s)
  <2> HIDE DEF scopes, request
  <2> QED
    BY <1>2, DecisionExact
<1>4. (\E s \in scopes : Allows(s)) <=> \E g \in grants : Matches(g) /\ Allows(g.scope)
  <2> HIDE DEF Matches, Allows
  <2> QED
    OBVIOUS
<1> QED
  BY <1>1, <1>3, <1>4

(* A decision made from the grants of the subject, while the tenant and its *)
(* membership are active, is the one the source gives.                      *)
LEMMA DecideRight ==
  ASSUME Inv, NEW c \in Tasks, Working(task[c]), NEW grants \in SUBSET Grant, Decide(c, grants),
         grants = GrantsOf(task[c].request.subject, ConfigOf(task[c].request)),
         source.tenants[task[c].request.subject.tenant],
         source.members[task[c].request.subject]
  PROVE  Right(c)
<1>1. c \in DOMAIN task /\ task[c] \in Busy
  BY TypeFacts, TaskFacts
<1> QED
  BY <1>1, DecideExact DEF Right, Allowed

(* What a cache hit returns is what was stored under the request's key.     *)
LEMMA HitStored ==
  ASSUME Inv, NEW c \in Tasks, CacheAnswers(c), returned'[c] # Miss
  PROVE  /\ Decide(c, returned'[c]) /\ returned'[c] \in SUBSET Grant
         /\ returned'[c] = stored[KeyOf(task[c].request)]
<1>1. task[c].at = "cache_get" /\ Working(task[c])
  BY DEF CacheAnswers, Working
<1>2. KeyOf(task[c].request) \in Keys /\ c \in Clients
  BY <1>1, TaskFacts, TypeFacts
<1>3. pending[c] = [op |-> "get", key |-> KeyOf(task[c].request)]
  BY <1>1 DEF Inv, CallsInv, CallOf
<1>4. \/ returned' = [returned EXCEPT ![c] = stored[KeyOf(task[c].request)]]
      \/ returned' = [returned EXCEPT ![c] = Miss]
  BY <1>3 DEF CacheAnswers, Cache!Answer, Cache!Return
<1>5. returned'[c] = stored[KeyOf(task[c].request)]
  BY <1>2, <1>4, TypeFacts
<1>6. returned'[c] \in SUBSET Grant
  BY <1>2, <1>5, TypeFacts
<1> QED
  BY <1>5, <1>6 DEF CacheAnswers

(* A request whose tenant or membership is not active is refused at once.   *)
LEMMA Refused ==
  ASSUME Inv, NEW c \in Tasks, Answers(c), ReadTenantStatus(c) \/ ReadMembershipStatus(c)
  PROVE  /\ task'[c].reason # "Allow"
         /\ ~ Allowed(task[c].request)
<1>1. /\ task[c] \in Busy /\ task'[c].at = "answered" /\ \A t : Goto(c, t) => task'[c] = t
  BY TypeFacts, TaskFacts DEF Answers, Goto
<1>2. CASE ReadTenantStatus(c)
  <2>1. ~ source.tenants[task[c].request.subject.tenant]
    BY <1>1, <1>2 DEF ReadTenantStatus, Busy
  <2>2. task'[c] = Answered("TenantInactive", NoScope)
    BY <1>1, <1>2, <2>1 DEF ReadTenantStatus, Answer
  <2> QED
    BY <2>1, <2>2 DEF Answered, Allowed
<1>3. CASE ReadMembershipStatus(c)
  <2>1. ~ source.members[task[c].request.subject]
    BY <1>1, <1>3 DEF ReadMembershipStatus, Busy
  <2>2. task'[c] = Answered("PrincipalInactive", NoScope)
    BY <1>1, <1>3, <2>1 DEF ReadMembershipStatus, Answer
  <2> QED
    BY <2>1, <2>2 DEF Answered, Allowed
<1> QED
  BY <1>2, <1>3

(* However stale the cache, a request whose tenant and membership were not  *)
(* edited since it began is allowed only while both are active: they are    *)
(* read before the cache is asked.                                          *)
THEOREM InactiveAreDenied == Spec => InactiveDenied
<1> DEFINE Denied(c) ==
      Answers(c) /\ task'[c].reason = "Allow" /\ "status" \notin task[c].changed =>
        /\ source.tenants[task[c].request.subject.tenant]
        /\ source.members[task[c].request.subject]
<1>1. ASSUME Inv, Next, NEW c \in Tasks PROVE Denied(c)
  <2> SUFFICES ASSUME Answers(c), task'[c].reason = "Allow", "status" \notin task[c].changed
               PROVE  /\ source.tenants[task[c].request.subject.tenant]
                      /\ source.members[task[c].request.subject]
    OBVIOUS
  <2>1. CacheAnswers(c) \/ CacheStores(c)
    BY <1>1, Answering, Refused
  <2>2. task[c].at \in {"cache_get", "cache_set"} /\ Working(task[c])
    BY <2>1 DEF CacheAnswers, CacheStores, Working
  <2>3. StatusRead(task[c], source)
    BY <1>1, <2>2, TaskFacts DEF TaskInv
  <2> QED
    BY <2>2, <2>3 DEF StatusRead
<1>2. Inv /\ [Next]_vars => [\A c \in Tasks : Denied(c)]_vars
  BY <1>1
<1> QED
  BY <1>2, Invariance, PTL DEF Spec, InactiveDenied

(* A request that no edit overtook is answered as the source says: by its   *)
(* statuses, by the grants it collected, or by what is cached once its key  *)
(* was invalidated with no older computation left.                          *)
THEOREM AnswersAreExact == Spec => AnswersExact
<1> DEFINE Exactly(c) == Answers(c) /\ Undisturbed(c) => Right(c)
<1>1. ASSUME Inv, Next, NEW c \in Tasks PROVE Exactly(c)
  <2> SUFFICES ASSUME Answers(c), Undisturbed(c) PROVE Right(c)
    OBVIOUS
  <2>1. /\ Working(task[c]) /\ task[c].changed = {} /\ TaskInv(task[c], source)
        /\ task[c] \in Busy /\ task[c].request \in RequestType
    BY <1>1, TypeFacts, TaskFacts DEF Answers, Undisturbed
  <2>2. CASE ReadTenantStatus(c) \/ ReadMembershipStatus(c)
    BY <1>1, <2>2, Refused DEF Right
  <2> DEFINE request == task[c].request
             v == View(source, request.subject)
             exact == OfAssignments(ConfigOf(request), v, v.assignments)
  <2>3. exact = GrantsOf(request.subject, ConfigOf(request))
    BY GrantsOfView
  <2>4. ASSUME task[c].at \in {"cache_get", "cache_set"}
        PROVE  source.tenants[request.subject.tenant] /\ source.members[request.subject]
    BY <2>1, <2>4 DEF TaskInv, StatusRead
  <2>5. CASE CacheAnswers(c)
    <3>1. task[c].at = "cache_get"
      BY <2>5 DEF CacheAnswers
    <3>2. returned'[c] # Miss
      <4> SUFFICES ASSUME returned'[c] = Miss PROVE FALSE
        OBVIOUS
      <4>1. Goto(c, [task[c] EXCEPT !.at = "assignments"])
        BY <2>5 DEF CacheAnswers
      <4>2. task'[c].at = "assignments"
        BY <1>1, <2>1, <4>1, TypeFacts DEF Goto, Busy
      <4> QED
        BY <4>2 DEF Answers
    <3>3. /\ Decide(c, returned'[c]) /\ returned'[c] \in SUBSET Grant
          /\ returned'[c] = stored[KeyOf(request)]
      BY <1>1, <2>5, <3>2, HitStored
    <3>4. KeyOf(request) \in fenced
      BY <3>1 DEF Undisturbed, FromCache
    <3>5. Exact(KeyOf(request), returned'[c], source)
      BY <1>1, <3>2, <3>3, <3>4 DEF Inv, FenceInv
    <3>6. returned'[c] = exact
      BY <2>1, <3>5, ExactForRequest
    <3> QED
      BY <1>1, <2>1, <2>3, <2>4, <3>1, <3>3, <3>6, DecideRight
  <2>6. CASE CacheStores(c)
    <3>1. task[c].at = "cache_set" /\ Decide(c, task[c].grants)
      BY <2>6 DEF CacheStores
    <3>2. task[c].grants = exact
      BY <1>1, <2>1, <3>1, FilledExact
    <3>3. task[c].grants \in SUBSET Grant
      BY <2>1 DEF Busy
    <3> QED
      BY <1>1, <2>1, <2>3, <2>4, <3>1, <3>2, <3>3, DecideRight
  <2> QED
    BY <1>1, <2>2, <2>5, <2>6, Answering
<1>2. Inv /\ [Next]_vars => [\A c \in Tasks : Exactly(c)]_vars
  BY <1>1
<1> QED
  BY <1>2, Invariance, PTL DEF Spec, AnswersExact

-------------------------------------------------------------------------------
(* How the engine uses its cache.                                           *)

LEMMA LossesAreKeys == Losses \subseteq SUBSET Keys
BY DEF Losses

LEMMA CacheUnchanged ==
  ASSUME UNCHANGED cacheVars
  PROVE  [Cache!Next]_(Cache!vars)
BY DEF cacheVars, Cache!vars

(* A get and a set are for a key of the cache; what is set are grants.      *)
LEMMA CallIsAllowed ==
  ASSUME Inv, NEW c \in Tasks, Working(task[c]),
         \/ Cache!Call(c, [op |-> "get", key |-> KeyOf(task[c].request)])
         \/ Cache!Call(c, [op |-> "set", key |-> KeyOf(task[c].request),
                           grants |-> task[c].grants])
  PROVE  Cache!Next
<1>1. KeyOf(task[c].request) \in Keys /\ task[c].grants \in SUBSET Grant
  BY TaskFacts DEF Busy
<1>2. PICK request \in Cache!FillsAndGets : Cache!Call(c, request)
  BY <1>1 DEF Cache!FillsAndGets
<1> QED
  BY <1>2 DEF Cache!Next

LEMMA TaskUsesCache ==
  ASSUME Inv, NEW c \in Tasks,
         Progress(c) \/ Dropped(c) \/ \E r \in Requests : explain(c, r)
  PROVE  [Cache!Next]_(Cache!vars)
<1>1. CASE ReadMembershipStatus(c)
  <2>1. Working(task[c])
    BY <1>1 DEF ReadMembershipStatus, Working
  <2>2. CASE UNCHANGED cacheVars
    BY <2>2, CacheUnchanged
  <2>3. CASE Cache!Call(c, [op |-> "get", key |-> KeyOf(task[c].request)])
    BY <2>1, <2>3, CallIsAllowed
  <2> QED
    BY <1>1, <2>2, <2>3 DEF ReadMembershipStatus
<1>2. CASE FinishAssignments(c)
  <2>1. Working(task[c])
    BY <1>2 DEF FinishAssignments, Working
  <2> QED
    BY <1>2, <2>1, CallIsAllowed DEF FinishAssignments
<1>3. CASE CacheAnswers(c)
  <2>1. PICK lost \in SUBSET Keys : Cache!Answer(c, lost)
    BY <1>3, LossesAreKeys DEF CacheAnswers
  <2> QED
    BY <2>1 DEF Cache!Next
<1>4. CASE CacheStores(c)
  <2>1. PICK lost \in SUBSET Keys : Cache!Fill(c, lost)
    BY <1>4, LossesAreKeys DEF CacheStores
  <2> QED
    BY <2>1 DEF Cache!Next
<1>5. CASE ReadsOnly
  BY <1>5, CacheUnchanged DEF ReadsOnly, cacheVars
<1> QED
  BY <1>1, <1>2, <1>3, <1>4, <1>5
  DEF Progress, Dropped, explain, ReadTenantStatus, ReadAssignments, TakeAssignment,
      EnterRole, ExpansionFails, SkipVisited, VisitParent, LeaveRole, FinishExpansion,
      ReadPermissions, SourceFails

LEMMA AdminUsesCache ==
  ASSUME NEW a \in Admins, AdminStep(a)
  PROVE  Cache!Next
<1>1. ASSUME NEW target \in SUBSET Keys, Invalidate(a, target)
      PROVE  Cache!Next
  BY <1>1 DEF Invalidate, Cache!Next
<1>2. /\ Keys \in SUBSET Keys
      /\ \A t \in Tenants : TenantKeys(t) \in SUBSET Keys
      /\ \A t \in Tenants, p \in Principals : PrincipalKeys(t, p) \in SUBSET Keys
  BY DEF TenantKeys, PrincipalKeys
<1>3. CASE \E target \in SUBSET Keys : Invalidate(a, target)
  BY <1>1, <1>3
<1>4. CASE CacheClears(a)
  <2>1. PICK lost \in SUBSET Keys : Cache!Clear(a, lost)
    BY <1>4, LossesAreKeys DEF CacheClears
  <2> QED
    BY <2>1 DEF Cache!Next
<1>5. CASE InvalidationReturns(a)
  <2>1. PICK lost \in SUBSET Keys : Cache!Finish(a, lost)
    BY <1>5, LossesAreKeys DEF InvalidationReturns
  <2> QED
    BY <2>1 DEF Cache!Next
<1> QED
  BY <1>2, <1>3, <1>4, <1>5
  DEF AdminStep, invalidate_principal, invalidate_role, invalidate_tenant, invalidate_all

(* The engine, its administrators and its cache together are a behaviour of *)
(* the contract: each asks for one thing at a time, for keys of the cache,  *)
(* with grants it computed, and edits and reads leave the cache alone.  The *)
(* other side, that a cache keeps the contract, is shown of MemoryCache.    *)
THEOREM KeepsToTheContract == Spec => Cache!Spec
<1>1. Init => Cache!Init
  BY DEF Init
<1>2. Inv /\ [Next]_vars => [Cache!Next]_(Cache!vars)
  <2> SUFFICES ASSUME Inv, [Next]_vars PROVE [Cache!Next]_(Cache!vars)
    OBVIOUS
  <2>1. CASE Edit
    <3>1. UNCHANGED cacheVars
      BY <2>1 DEF Edit, EditStatus, EditGrants, set_tenant_status, set_membership_status,
                  edit_role_assignment, edit_role_permission, edit_parent_role, cacheVars
    <3> QED
      BY <3>1, CacheUnchanged
  <2>2. CASE UNCHANGED vars
    BY <2>2, CacheUnchanged DEF vars, cacheVars
  <2> QED
    BY <2>1, <2>2, TaskUsesCache, AdminUsesCache DEF Next
<1> QED
  BY <1>1, <1>2, Invariance, PTL DEF Spec, Cache!Spec

==============================================================================
