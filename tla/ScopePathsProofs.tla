--------------------------- MODULE ScopePathsProofs ---------------------------
(***************************************************************************)
(* For any texts and any list of grants: compacting, storing and merging   *)
(* keep what is covered, no root that is kept lies below another, and by   *)
(* segments the scopes are those of AccessScopes.                          *)
(***************************************************************************)
EXTENDS ScopePaths, SequenceLemmas

Bytes == Seq(Nat)
Kinds == {"pending", "error", "none", "tenant", "paths"}
Roots == {path \in Bytes : parse(path) = path}
Covers(paths, target) == \E root \in paths : allows(root, target)
Grant == [whole : BOOLEAN, texts : SUBSET Texts]

(* What the loop is to cover, by whom it was called.                        *)
Goal ==
  CASE phase = "new" -> Parsed(Current.texts)
    [] phase = "load" -> LastRoots
    [] phase = "merge" -> AllRoots

TypeInv ==
  /\ grants \in Seq(Grant)
  /\ made \in Seq([whole : BOOLEAN, roots : Seq(Roots)])
  /\ todo \in SUBSET Roots
  /\ compacted \in Seq(Roots)
  /\ phase \in {"grant", "new", "load", "merge", "done"}
  /\ result \in [kind : Kinds, roots : Seq(Roots)]

(* Where the loop was called from, and what it is to be called for.         *)
ControlInv ==
  /\ Len(made) <= Len(grants)
  /\ phase = "new" => Len(made) < Len(grants) /\ ~ Current.whole
  /\ phase = "load" => made # << >> /\ ~ made[Len(made)].whole
  /\ phase = "merge" => Len(made) = Len(grants) /\ \A i \in DOMAIN made : ~ made[i].whole
  /\ \A i \in DOMAIN made : made[i].whole => grants[i].whole
  /\ phase # "done" => result = Pending

(* What remains to be taken sorts after what is kept, and both together     *)
(* cover what the loop was given.                                           *)
LoopInv ==
  /\ \A kept \in Range(compacted), path \in todo : ~ Less(path, kept)
  /\ NoneBelow(compacted)
  /\ phase \in {"new", "load", "merge"} =>
       \A target \in Bytes :
         Covers(todo \cup Range(compacted), target) <=> Covers(Goal, target)

MadeInv ==
  \A i \in DOMAIN made :
    /\ NoneBelow(made[i].roots)
    /\ \A target \in Bytes :
         (made[i].whole \/ Covers(Range(made[i].roots), target))
           <=> GrantCovers(grants[i], target)

ResultInv ==
  /\ NoneBelow(result.roots)
  /\ phase = "done" /\ result # Error =>
       \A target \in Bytes :
         allows_path(result, target) <=> \E i \in DOMAIN grants : GrantCovers(grants[i], target)

Inv == TypeInv /\ ControlInv /\ LoopInv /\ MadeInv /\ ResultInv

-------------------------------------------------------------------------------
(* Texts                                                                    *)

(* A set of positions of a text has a largest and a smallest element.       *)
LEMMA LargestPosition ==
  ASSUME NEW n \in Nat, NEW S \in SUBSET (1 .. n), S # {}
  PROVE  /\ Max(S) \in S /\ \A x \in S : x <= Max(S)
         /\ Min(S) \in S /\ \A x \in S : Min(S) <= x
<1>1. PICK least \in S : \A x \in S : least <= x
  <2>1. S \in SUBSET Nat
    OBVIOUS
  <2> QED
    BY <2>1, SmallestNat
<1>2. PICK gap \in {n - x : x \in S} : \A y \in {n - x : x \in S} : gap <= y
  <2>1. {n - x : x \in S} \in SUBSET Nat /\ {n - x : x \in S} # {}
    OBVIOUS
  <2> QED
    BY <2>1, SmallestNat
<1>3. \E x \in S : \A y \in S : x >= y
  <2>1. PICK x \in S : gap = n - x
    BY <1>2
  <2>2. \A y \in S : n - x <= n - y
    BY <1>2, <2>1
  <2> QED
    BY <2>2
<1>4. Max(S) \in S /\ \A x \in S : Max(S) >= x
  BY <1>3 DEF Max
<1>5. Min(S) \in S /\ \A x \in S : Min(S) <= x
  BY <1>1 DEF Min
<1> QED
  BY <1>4, <1>5

(* What is left by trimming does not begin or end in white space.           *)
LEMMA TrimTwice ==
  ASSUME NEW value \in Bytes
  PROVE  Trim(value) \in Bytes /\ Trim(Trim(value)) = Trim(value)
<1> DEFINE kept(text) == {i \in 1 .. Len(text) : text[i] \notin WhiteSpace}
<1>1. CASE kept(value) = {}
  <2>1. Trim(value) = << >>
    BY <1>1 DEF Trim
  <2>2. kept(<< >>) = {}
    OBVIOUS
  <2>3. Trim(<< >>) = << >>
    BY <2>2 DEF Trim
  <2> QED
    BY <2>1, <2>3 DEF Bytes
<1>2. CASE kept(value) # {}
  <2> DEFINE m == Min(kept(value))
             n == Max(kept(value))
  <2>1. Len(value) \in Nat /\ kept(value) \in SUBSET (1 .. Len(value))
    BY DEF Bytes
  <2>2. /\ m \in kept(value) /\ n \in kept(value)
        /\ \A x \in kept(value) : m <= x /\ x <= n
    BY <2>1, <1>2, LargestPosition
  <2>3. m \in 1 .. Len(value) /\ n \in 1 .. Len(value) /\ m <= n
    BY <2>1, <2>2
  <2>4. value[m] \notin WhiteSpace /\ value[n] \notin WhiteSpace
    BY <2>2
  <2>5. Trim(value) = SubSeq(value, m, n)
    BY <1>2 DEF Trim
  <2> HIDE DEF m, n
  <2>6. PICK u : u = Trim(value)
    OBVIOUS
  <2>7. u \in Bytes /\ Len(u) = n - m + 1 /\ u[1] = value[m] /\ u[Len(u)] = value[n]
    BY <2>1, <2>3, <2>5, <2>6 DEF Bytes
  <2>8. 1 \in kept(u) /\ Len(u) \in kept(u)
    BY <2>1, <2>3, <2>4, <2>7
  <2>9. Len(u) \in Nat /\ kept(u) \in SUBSET (1 .. Len(u)) /\ kept(u) # {}
    BY <2>7, <2>8 DEF Bytes
  <2>10. /\ Min(kept(u)) \in kept(u) /\ Max(kept(u)) \in kept(u)
         /\ \A x \in kept(u) : Min(kept(u)) <= x /\ x <= Max(kept(u))
    BY <2>9, LargestPosition
  <2>11. Min(kept(u)) = 1 /\ Max(kept(u)) = Len(u)
    <3>1. /\ Min(kept(u)) \in 1 .. Len(u) /\ Max(kept(u)) \in 1 .. Len(u)
          /\ Min(kept(u)) <= 1 /\ Len(u) <= Max(kept(u))
      BY <2>8, <2>9, <2>10
    <3> QED
      BY <2>9, <3>1
  <2>12. Trim(u) = SubSeq(u, 1, Len(u))
    BY <2>9, <2>11 DEF Trim
  <2>13. SubSeq(u, 1, Len(u)) = u
    BY <2>7 DEF Bytes
  <2> QED
    BY <2>6, <2>7, <2>12, <2>13
<1> QED
  BY <1>1, <1>2

(* A path that was parsed parses to itself.                                 *)
LEMMA ParseTwice ==
  ASSUME NEW value \in Bytes
  PROVE  parse(value) \in Roots
<1>1. << >> \in Bytes /\ parse(<< >>) = << >>
  <2>1. << >> \in Bytes
    BY DEF Bytes
  <2>2. {i \in 1 .. Len(<< >>) : << >>[i] \notin WhiteSpace} = {}
    OBVIOUS
  <2>3. Trim(<< >>) = << >>
    BY <2>2 DEF Trim
  <2> QED
    BY <2>1, <2>3 DEF parse, InvalidScope
<1>2. CASE parse(value) = InvalidScope
  BY <1>1, <1>2 DEF InvalidScope, Roots
<1>3. CASE parse(value) # InvalidScope
  <2>1. parse(value) = Trim(value)
    BY <1>3 DEF parse
  <2>2. Trim(value) \in Bytes /\ Trim(Trim(value)) = Trim(value)
    BY TrimTwice
  <2>3. parse(Trim(value)) = parse(value)
    BY <2>2 DEF parse
  <2> QED
    BY <2>1, <2>2, <2>3 DEF Roots
<1> QED
  BY <1>2, <1>3

LEMMA ParsedType ==
  /\ \A texts \in SUBSET Bytes : Parsed(texts) \in SUBSET Roots
  /\ \A paths \in SUBSET Roots : Parsed(paths) = paths
<1>1. \A texts \in SUBSET Bytes : Parsed(texts) \in SUBSET Roots
  BY ParseTwice DEF Parsed
<1>2. \A paths \in SUBSET Roots : Parsed(paths) = paths
  BY DEF Parsed, Roots
<1> QED
  BY <1>1, <1>2

(* Going on with a slash is starting with the path and a slash.             *)
LEMMA AllowsIsBelow ==
  ASSUME NEW p \in Bytes, NEW t \in Bytes
  PROVE  allows(p, t) <=> Below(t, p)
<1>1. /\ Len(p) \in Nat /\ Len(t) \in Nat
      /\ Len(Append(p, Slash)) = Len(p) + 1
      /\ \A i \in 1 .. Len(p) : Append(p, Slash)[i] = p[i]
      /\ Append(p, Slash)[Len(p) + 1] = Slash
  BY DEF Bytes, Slash
<1>2. starts_with(t, Append(p, Slash)) <=>
        /\ Len(t) > Len(p) /\ t[Len(p) + 1] = Slash
        /\ \A i \in 1 .. Len(p) : t[i] = p[i]
  BY <1>1 DEF starts_with
<1> QED
  BY <1>2 DEF allows, is_ancestor_of, Below

LEMMA AllowsTransitive ==
  ASSUME NEW p \in Bytes, NEW q \in Bytes, NEW t \in Bytes, allows(p, q), allows(q, t)
  PROVE  allows(p, t)
<1>1. Below(q, p) /\ Below(t, q)
  BY AllowsIsBelow
<1>2. CASE p = q \/ q = t
  BY <1>2
<1>3. CASE p # q /\ q # t
  <2>1. /\ Len(p) \in Nat /\ Len(q) \in Nat /\ Len(t) \in Nat
        /\ Len(q) > Len(p) /\ q[Len(p) + 1] = Slash /\ \A i \in 1 .. Len(p) : q[i] = p[i]
        /\ Len(t) > Len(q) /\ \A i \in 1 .. Len(q) : t[i] = q[i]
    BY <1>1, <1>3 DEF Below, Bytes
  <2>2. Len(t) > Len(p) /\ t[Len(p) + 1] = Slash /\ \A i \in 1 .. Len(p) : t[i] = p[i]
    BY <2>1
  <2> QED
    BY <2>2, AllowsIsBelow DEF Below
<1> QED
  BY <1>2, <1>3

(* A path sorts before its descendants.                                     *)
LEMMA AncestorIsLess ==
  ASSUME NEW p \in Bytes, NEW t \in Bytes, Below(t, p), t # p
  PROVE  Less(p, t)
<1>1. /\ Len(p) \in Nat /\ Len(t) \in Nat
      /\ Len(t) > Len(p) /\ \A i \in 1 .. Len(p) : t[i] = p[i]
  BY DEF Below, Bytes
<1> QED
  BY <1>1 DEF Less

LEMMA AppendRange ==
  ASSUME NEW T, NEW s \in Seq(T), NEW x \in T
  PROVE  /\ Append(s, x) \in Seq(T)
         /\ Range(Append(s, x)) = Range(s) \cup {x}
         /\ DOMAIN Append(s, x) = 1 .. Len(s) + 1 /\ Len(s) \in Nat
         /\ DOMAIN s = 1 .. Len(s)
         /\ \A i \in 1 .. Len(s) : Append(s, x)[i] = s[i]
         /\ Append(s, x)[Len(s) + 1] = x
<1>1. /\ Append(s, x) \in Seq(T)
      /\ DOMAIN Append(s, x) = 1 .. Len(s) + 1 /\ Len(s) \in Nat
      /\ DOMAIN s = 1 .. Len(s)
      /\ \A i \in 1 .. Len(s) : Append(s, x)[i] = s[i]
      /\ Append(s, x)[Len(s) + 1] = x
  OBVIOUS
<1>2. Range(Append(s, x)) = Range(s) \cup {x}
  BY <1>1 DEF Range
<1> QED
  BY <1>1, <1>2

LEMMA EmptyRange == Range(<< >>) = {} /\ NoneBelow(<< >>)
BY DEF Range, NoneBelow

-------------------------------------------------------------------------------
(* Segments                                                                 *)

Pieces == Seq(Bytes) \ {<< >>}

(* The function that Split defines, as far as n, by what each of its values *)
(* is of the one before.                                                    *)
Cut(f, text, i) == IF i = 0 THEN << << >> >> ELSE Extended(f[i - 1], text[i])
IsCutting(f, text, n) == f = [i \in 0 .. n |-> Cut(f, text, i)]

LEMMA CuttingExists ==
  ASSUME NEW text, NEW n \in Nat
  PROVE  \E f : IsCutting(f, text, n)
<1> DEFINE S == {m \in Nat : ~ \E f : IsCutting(f, text, m)}
<1>1. ASSUME S # {} PROVE FALSE
  <2>1. PICK m \in S : \A x \in S : m <= x
    BY <1>1, SmallestNat
  <2>2. m # 0
    <3> SUFFICES ASSUME m = 0 PROVE FALSE
      OBVIOUS
    <3> DEFINE f == [i \in 0 .. 0 |-> << << >> >>]
    <3>1. \A i \in 0 .. 0 : Cut(f, text, i) = << << >> >>
      BY DEF Cut
    <3>2. IsCutting(f, text, 0)
      BY <3>1 DEF IsCutting
    <3> QED
      BY <2>1, <3>2
  <2>3. m - 1 \in Nat /\ m - 1 \notin S
    BY <2>1, <2>2
  <2>4. PICK f : IsCutting(f, text, m - 1)
    BY <2>3
  <2> DEFINE g == [i \in 0 .. m |-> Cut(f, text, i)]
  <2>5. \A i \in 0 .. m - 1 : g[i] = f[i]
    BY <2>3, <2>4 DEF IsCutting
  <2>6. \A i \in 0 .. m : Cut(g, text, i) = Cut(f, text, i)
    <3> HIDE DEF g
    <3> QED
      BY <2>1, <2>3, <2>5 DEF Cut
  <2>7. IsCutting(g, text, m)
    BY <2>6 DEF IsCutting
  <2> QED
    BY <2>1, <2>7
<1> QED
  BY <1>1

LEMMA CuttingAt ==
  ASSUME NEW text, NEW n \in Nat, NEW f, IsCutting(f, text, n), NEW i \in 0 .. n
  PROVE  f[i] = Cut(f, text, i)
BY Zenon DEF IsCutting

LEMMA SplitValue ==
  ASSUME NEW text \in Bytes
  PROVE  \E f : IsCutting(f, text, Len(text)) /\ Split(text) = f[Len(text)]
<1> DEFINE f == CHOOSE f : IsCutting(f, text, Len(text))
<1>1. IsCutting(f, text, Len(text))
  BY CuttingExists DEF Bytes
<1>2. Split(text) = f[Len(text)]
  BY DEF Split, IsCutting, Cut
<1> QED
  BY <1>1, <1>2

(* A slash begins a segment, another byte goes on the last one.             *)
LEMMA ExtendedFacts ==
  ASSUME NEW p \in Pieces, NEW byte \in Nat
  PROVE  LET q == Extended(p, byte)
             n == Len(p)
         IN  /\ q \in Pieces /\ n \in Nat \ {0}
             /\ \A k \in 1 .. n - 1 : q[k] = p[k]
             /\ byte = Slash => Len(q) = n + 1 /\ q[n] = p[n]
             /\ byte # Slash => Len(q) = n /\ q[n] = Append(p[n], byte)
             /\ Len(q) \in Nat \ {0}
<1> DEFINE q == Extended(p, byte)
           n == Len(p)
<1>1. p \in Seq(Bytes) /\ n \in Nat \ {0} /\ n \in DOMAIN p /\ p[n] \in Bytes
  BY DEF Pieces
<1>2. CASE byte = Slash
  <2>1. << >> \in Bytes /\ q = Append(p, << >>)
    BY <1>2 DEF Extended, Bytes
  <2>2. q \in Seq(Bytes) /\ Len(q) = n + 1 /\ \A k \in 1 .. n : q[k] = p[k]
    BY <1>1, <2>1
  <2>3. q # << >>
    BY <1>1, <2>2
  <2> HIDE DEF q
  <2> QED
    BY <1>1, <1>2, <2>2, <2>3 DEF Pieces, q
<1>3. CASE byte # Slash
  <2> DEFINE last == Append(p[n], byte)
  <2>1. last \in Bytes
    BY <1>1 DEF Bytes
  <2>2. q = [p EXCEPT ![n] = last]
    BY <1>3 DEF Extended
  <2> HIDE DEF last
  <2>3. q \in Seq(Bytes) /\ Len(q) = n /\ q[n] = last /\ \A k \in 1 .. n - 1 : q[k] = p[k]
    BY <1>1, <2>1, <2>2
  <2>4. q # << >>
    BY <1>1, <2>3
  <2> HIDE DEF q
  <2> QED
    BY <1>1, <1>3, <2>3, <2>4 DEF Pieces, q, last
<1> QED
  BY <1>2, <1>3

LEMMA CuttingType ==
  ASSUME NEW text \in Bytes, NEW f, IsCutting(f, text, Len(text)), NEW i \in 0 .. Len(text)
  PROVE  f[i] \in Pieces
<1> DEFINE S == {m \in 0 .. Len(text) : f[m] \notin Pieces}
<1>0. Len(text) \in Nat
  BY DEF Bytes
<1>1. ASSUME S # {} PROVE FALSE
  <2>1. S \in SUBSET Nat
    OBVIOUS
  <2>2. PICK m \in S : \A x \in S : m <= x
    BY <1>1, <2>1, SmallestNat
  <2>3. f[m] = Cut(f, text, m)
    BY <1>0, <2>2, CuttingAt
  <2>4. << << >> >> \in Pieces
    <3>1. << >> \in Bytes
      BY DEF Bytes
    <3> QED
      BY <3>1 DEF Pieces
  <2>5. m # 0
    BY <2>2, <2>3, <2>4 DEF Cut
  <2>6. m - 1 \in 0 .. Len(text) /\ m - 1 \notin S
    BY <1>0, <2>2, <2>5
  <2>7. f[m - 1] \in Pieces /\ text[m] \in Nat
    BY <1>0, <2>2, <2>5, <2>6 DEF Bytes
  <2>8. Extended(f[m - 1], text[m]) \in Pieces
    BY <2>7, ExtendedFacts
  <2> QED
    BY <2>2, <2>3, <2>5, <2>8 DEF Cut
<1> QED
  BY <1>1

(* Texts are cut the same way as far as they are the same.                  *)
LEMMA CuttingShared ==
  ASSUME NEW s \in Bytes, NEW t \in Bytes,
         NEW f, IsCutting(f, s, Len(s)), NEW g, IsCutting(g, t, Len(t)),
         NEW n \in Nat, n <= Len(s), n <= Len(t), \A i \in 1 .. n : s[i] = t[i]
  PROVE  f[n] = g[n]
<1> DEFINE S == {i \in 0 .. n : f[i] # g[i]}
<1>0. Len(s) \in Nat /\ Len(t) \in Nat
  BY DEF Bytes
<1>1. ASSUME S # {} PROVE FALSE
  <2>1. S \in SUBSET Nat
    OBVIOUS
  <2>2. PICK m \in S : \A x \in S : m <= x
    BY <1>1, <2>1, SmallestNat
  <2>3. f[m] = Cut(f, s, m) /\ g[m] = Cut(g, t, m)
    BY <1>0, <2>2, CuttingAt
  <2>4. m # 0
    BY <2>2, <2>3 DEF Cut
  <2>5. m - 1 \in 0 .. n /\ m - 1 \notin S /\ s[m] = t[m]
    BY <2>2, <2>4
  <2>6. f[m - 1] = g[m - 1]
    BY <2>5
  <2> QED
    BY <2>2, <2>3, <2>4, <2>5, <2>6 DEF Cut
<1> QED
  BY <1>1

(* What is cut later keeps the segments before the last, and the last one   *)
(* at least begins what becomes of it.                                      *)
Grows(p, q) ==
  /\ Len(p) <= Len(q)
  /\ \A k \in 1 .. Len(p) - 1 : q[k] = p[k]
  /\ starts_with(q[Len(p)], p[Len(p)])

LEMMA GrowsTransitive ==
  ASSUME NEW p \in Pieces, NEW q \in Pieces, NEW r \in Pieces, Grows(p, q), Grows(q, r)
  PROVE  Grows(p, r)
<1> DEFINE n == Len(p)
<1>1. /\ n \in Nat \ {0} /\ Len(q) \in Nat /\ Len(r) \in Nat /\ n <= Len(q) /\ Len(q) <= Len(r)
      /\ n \in DOMAIN p /\ n \in DOMAIN q /\ n \in DOMAIN r
  BY DEF Pieces, Grows
<1>2. p[n] \in Bytes /\ q[n] \in Bytes /\ r[n] \in Bytes
  BY <1>1 DEF Pieces
<1>3. \A k \in 1 .. n - 1 : r[k] = p[k]
  BY <1>1 DEF Grows
<1>4. starts_with(q[n], p[n]) /\ starts_with(r[n], q[n])
  <2>1. starts_with(q[n], p[n])
    BY DEF Grows
  <2>2. CASE n = Len(q)
    BY <2>1, <2>2 DEF Grows
  <2>3. CASE n < Len(q)
    <3>1. r[n] = q[n]
      BY <1>1, <2>3 DEF Grows
    <3> QED
      BY <1>2, <2>1, <3>1 DEF starts_with, Bytes
  <2> QED
    BY <1>1, <2>1, <2>2, <2>3
<1>5. starts_with(r[n], p[n])
  BY <1>2, <1>4 DEF starts_with, Bytes
<1> QED
  BY <1>1, <1>3, <1>5 DEF Grows

LEMMA ExtendedGrows ==
  ASSUME NEW p \in Pieces, NEW byte \in Nat
  PROVE  Grows(p, Extended(p, byte))
<1> DEFINE q == Extended(p, byte)
           n == Len(p)
<1>1. /\ q \in Pieces /\ n \in Nat \ {0}
      /\ \A k \in 1 .. n - 1 : q[k] = p[k]
      /\ byte = Slash => Len(q) = n + 1 /\ q[n] = p[n]
      /\ byte # Slash => Len(q) = n /\ q[n] = Append(p[n], byte)
  BY ExtendedFacts
<1>2. p[n] \in Bytes
  BY <1>1 DEF Pieces
<1> HIDE DEF q
<1>3. starts_with(q[n], p[n])
  BY <1>1, <1>2 DEF starts_with, Bytes
<1> QED
  BY <1>1, <1>3 DEF Grows, q

LEMMA CuttingGrows ==
  ASSUME NEW text \in Bytes, NEW f, IsCutting(f, text, Len(text)),
         NEW i \in Nat, NEW j \in 0 .. Len(text), i <= j
  PROVE  Grows(f[i], f[j])
<1> DEFINE S == {m \in i .. Len(text) : ~ Grows(f[i], f[m])}
<1>0. Len(text) \in Nat /\ \A m \in 0 .. Len(text) : f[m] \in Pieces
  BY CuttingType DEF Bytes
<1>1. ASSUME S # {} PROVE FALSE
  <2>1. S \in SUBSET Nat
    OBVIOUS
  <2>2. PICK m \in S : \A x \in S : m <= x
    BY <1>1, <2>1, SmallestNat
  <2>3. f[i] \in Pieces /\ f[m] \in Pieces
    BY <1>0, <2>2
  <2>4. Grows(f[i], f[i])
    <3>1. Len(f[i]) \in Nat \ {0} /\ f[i][Len(f[i])] \in Bytes
      BY <2>3 DEF Pieces
    <3> QED
      BY <3>1 DEF Grows, starts_with, Bytes
  <2>5. m # i
    BY <2>2, <2>4
  <2>6. m - 1 \in i .. Len(text) /\ m - 1 \notin S /\ m # 0
    BY <1>0, <2>2, <2>5
  <2>7. Grows(f[i], f[m - 1]) /\ f[m - 1] \in Pieces /\ text[m] \in Nat
    BY <1>0, <2>2, <2>6 DEF Bytes
  <2>8. f[m] = Extended(f[m - 1], text[m])
    BY <1>0, <2>2, <2>6, CuttingAt DEF Cut
  <2> QED
    BY <2>2, <2>3, <2>7, <2>8, ExtendedGrows, GrowsTransitive
<1> QED
  BY <1>0, <1>1

(* After a slash the segments so far stay; another byte is never lost from  *)
(* the segment it went on.                                                  *)
LEMMA GoesOn ==
  ASSUME NEW text \in Bytes, NEW f, IsCutting(f, text, Len(text)),
         NEW i \in 0 .. Len(text) - 1
  PROVE  LET n == Len(f[i])
             all == f[Len(text)]
         IN  /\ text[i + 1] = Slash => Len(all) > n /\ \A k \in 1 .. n : all[k] = f[i][k]
             /\ text[i + 1] # Slash =>
                  Len(all) >= n /\ starts_with(all[n], Append(f[i][n], text[i + 1]))
<1> DEFINE p == f[i]
           q == f[i + 1]
           all == f[Len(text)]
           n == Len(p)
           byte == text[i + 1]
<1>1. Len(text) \in Nat /\ i \in 0 .. Len(text) /\ i + 1 \in 1 .. Len(text) /\ i + 1 - 1 = i
  BY DEF Bytes
<1>2. p \in Pieces /\ q \in Pieces /\ all \in Pieces /\ byte \in Nat
  BY <1>1, CuttingType DEF Bytes
<1>3. q = Extended(p, byte)
  BY <1>1, CuttingAt DEF Cut
<1>4. Grows(q, all)
  BY <1>1, CuttingGrows
<1> HIDE DEF p, q, all, byte
<1>5. /\ n \in Nat \ {0}
      /\ \A k \in 1 .. n - 1 : q[k] = p[k]
      /\ byte = Slash => Len(q) = n + 1 /\ q[n] = p[n]
      /\ byte # Slash => Len(q) = n /\ q[n] = Append(p[n], byte)
  BY <1>2, <1>3, ExtendedFacts
<1>6. Len(q) <= Len(all) /\ Len(all) \in Nat /\ Len(q) \in Nat
  BY <1>2, <1>4 DEF Grows, Pieces
<1>7. CASE byte = Slash
  <2>1. \A k \in 1 .. n : all[k] = q[k] /\ q[k] = p[k]
    BY <1>4, <1>5, <1>7 DEF Grows
  <2> QED
    BY <1>5, <1>6, <1>7, <2>1 DEF p, all, byte
<1>8. CASE byte # Slash
  BY <1>4, <1>5, <1>6, <1>8 DEF Grows, p, all, byte
<1> QED
  BY <1>7, <1>8

LEMMA PrefixByParts ==
  ASSUME NEW p \in Pieces, NEW q \in Pieces
  PROVE  /\ Len(p) \in Nat \ {0} /\ Len(q) \in Nat \ {0}
         /\ \A k \in 1 .. Len(p) : p[k] \in Bytes
         /\ \A k \in 1 .. Len(q) : q[k] \in Bytes
         /\ IsPrefix(p, q) <=> Len(p) <= Len(q) /\ \A k \in 1 .. Len(p) : q[k] = p[k]
<1>1. /\ p \in Seq(Bytes) /\ q \in Seq(Bytes) /\ Len(p) \in Nat \ {0} /\ Len(q) \in Nat \ {0}
      /\ \A k \in 1 .. Len(p) : p[k] \in Bytes
      /\ \A k \in 1 .. Len(q) : q[k] \in Bytes
  BY DEF Pieces
<1>2. SubSeq(p, 1, Len(p)) = p
  BY <1>1
<1>3. Len(p) <= Len(q) =>
        (SubSeq(q, 1, Len(p)) = p <=> \A k \in 1 .. Len(p) : q[k] = p[k])
  <2> SUFFICES ASSUME Len(p) <= Len(q)
               PROVE  SubSeq(q, 1, Len(p)) = p <=> \A k \in 1 .. Len(p) : q[k] = p[k]
    OBVIOUS
  <2> DEFINE s == SubSeq(q, 1, Len(p))
  <2>1. s \in Seq(Bytes) /\ Len(s) = Len(p) /\ \A k \in 1 .. Len(p) : s[k] = q[k]
    BY <1>1
  <2> HIDE DEF s
  <2>2. s = p <=> \A k \in 1 .. Len(p) : s[k] = p[k]
    BY <1>1, <2>1
  <2> QED
    BY <2>1, <2>2 DEF s
<1> QED
  BY <1>1, <1>2, <1>3 DEF IsPrefix

(* A path lies below another by their bytes if and only if it does by their *)
(* segments.                                                                *)
LEMMA BelowBySegments ==
  ASSUME NEW r \in Bytes, NEW t \in Bytes
  PROVE  Below(t, r) <=> IsPrefix(Split(r), Split(t))
<1>1. PICK f : IsCutting(f, r, Len(r)) /\ Split(r) = f[Len(r)]
  BY SplitValue
<1>2. PICK g : IsCutting(g, t, Len(t)) /\ Split(t) = g[Len(t)]
  BY SplitValue
<1>3. /\ Len(r) \in Nat /\ Len(t) \in Nat
      /\ DOMAIN r = 1 .. Len(r) /\ DOMAIN t = 1 .. Len(t)
  BY DEF Bytes
<1> DEFINE P == Split(r)
           Q == Split(t)
<1>4. P \in Pieces /\ Q \in Pieces
  BY <1>1, <1>2, <1>3, CuttingType
<1> HIDE DEF P, Q
<1>5. /\ Len(P) \in Nat \ {0} /\ Len(Q) \in Nat \ {0}
      /\ \A k \in 1 .. Len(P) : P[k] \in Bytes
      /\ \A k \in 1 .. Len(Q) : Q[k] \in Bytes
      /\ IsPrefix(P, Q) <=> Len(P) <= Len(Q) /\ \A k \in 1 .. Len(P) : Q[k] = P[k]
  BY <1>4, PrefixByParts
<1>6. ASSUME NEW s, NEW w \in Bytes, NEW byte, starts_with(s, Append(w, byte))
      PROVE  s # w
  <2>1. Len(Append(w, byte)) = Len(w) + 1 /\ Len(w) \in Nat
    BY DEF Bytes
  <2> QED
    BY <1>6, <2>1 DEF starts_with
<1>7. CASE Len(r) <= Len(t) /\ \A i \in 1 .. Len(r) : t[i] = r[i]
  <2>1. CASE Len(t) = Len(r)
    <3>1. t = r
      BY <1>3, <1>7, <2>1 DEF Bytes
    <3> QED
      BY <1>5, <3>1 DEF Below, P, Q
  <2>2. CASE Len(t) > Len(r)
    <3>1. g[Len(r)] = P
      BY <1>1, <1>2, <1>3, <1>7, CuttingShared DEF P
    <3>2. Len(r) \in 0 .. Len(t) - 1
      BY <1>3, <2>2
    <3>3. t # r
      BY <2>2
    <3>4. CASE t[Len(r) + 1] = Slash
      <4>1. Len(Q) > Len(P) /\ \A k \in 1 .. Len(P) : Q[k] = P[k]
        BY <1>2, <3>1, <3>2, <3>4, GoesOn DEF Q
      <4> QED
        BY <1>5, <1>7, <2>2, <3>4, <4>1 DEF Below, P, Q
    <3>5. CASE t[Len(r) + 1] # Slash
      <4>1. starts_with(Q[Len(P)], Append(P[Len(P)], t[Len(r) + 1]))
        BY <1>2, <3>1, <3>2, <3>5, GoesOn DEF Q
      <4>2. Q[Len(P)] # P[Len(P)]
        BY <1>5, <1>6, <4>1
      <4> QED
        BY <1>5, <3>3, <3>5, <4>2 DEF Below, P, Q
    <3> QED
      BY <3>4, <3>5
  <2>3. Len(t) = Len(r) \/ Len(t) > Len(r)
    <3>1. Len(r) \in Nat /\ Len(t) \in Nat /\ Len(r) <= Len(t)
      BY <1>3, <1>7, Zenon
    <3> QED
      BY <3>1
  <2> QED
    BY <2>1, <2>2, <2>3
<1>8. CASE Len(t) < Len(r) /\ \A i \in 1 .. Len(t) : t[i] = r[i]
  <2>1. ~ Below(t, r)
    BY <1>3, <1>8 DEF Below
  <2>2. f[Len(t)] = Q
    BY <1>1, <1>2, <1>3, <1>8, CuttingShared DEF Q
  <2>3. Len(t) \in 0 .. Len(r) - 1
    BY <1>3, <1>8
  <2>4. CASE r[Len(t) + 1] = Slash
    <3>1. Len(P) > Len(Q)
      BY <1>1, <2>2, <2>3, <2>4, GoesOn DEF P
    <3> QED
      BY <1>5, <2>1, <3>1 DEF P, Q
  <2>5. CASE r[Len(t) + 1] # Slash
    <3>1. Len(P) >= Len(Q) /\ starts_with(P[Len(Q)], Append(Q[Len(Q)], r[Len(t) + 1]))
      BY <1>1, <2>2, <2>3, <2>5, GoesOn DEF P
    <3>2. P[Len(Q)] # Q[Len(Q)]
      BY <1>5, <1>6, <3>1
    <3> QED
      BY <1>5, <2>1, <3>1, <3>2 DEF P, Q
  <2> QED
    BY <2>4, <2>5
<1>9. CASE \E i \in 1 .. Len(r) : i <= Len(t) /\ t[i] # r[i]
  <2> DEFINE S == {i \in 1 .. Len(r) : i <= Len(t) /\ t[i] # r[i]}
  <2>1. S \in SUBSET Nat /\ S # {}
    BY <1>9
  <2>2. PICK d \in S : \A x \in S : d <= x
    BY <2>1, SmallestNat
  <2>3. /\ d \in 1 .. Len(r) /\ d \in 1 .. Len(t) /\ t[d] # r[d]
        /\ \A i \in 1 .. d - 1 : t[i] = r[i]
    BY <1>3, <2>2
  <2> HIDE DEF S
  <2>4. ~ Below(t, r)
    BY <1>3, <2>3 DEF Below
  <2>5. d - 1 \in 0 .. Len(r) - 1 /\ d - 1 \in 0 .. Len(t) - 1 /\ d - 1 + 1 = d
        /\ d - 1 \in Nat /\ d - 1 \in 0 .. Len(r)
    BY <1>3, <2>3
  <2>6. PICK W : W = f[d - 1]
    OBVIOUS
  <2>7. W = g[d - 1]
    <3>1. PICK e \in Nat : e = d - 1
      BY <2>5
    <3>2. e <= Len(r) /\ e <= Len(t) /\ \A i \in 1 .. e : r[i] = t[i]
      BY <1>3, <2>3, <3>1
    <3>3. f[e] = g[e]
      BY <1>1, <1>2, <3>2, CuttingShared
    <3> QED
      BY <2>6, <3>1, <3>3
  <2> DEFINE n == Len(W)
  <2>8. W \in Pieces /\ n \in Nat \ {0} /\ W[n] \in Bytes
    <3>1. W \in Pieces
      BY <1>1, <2>5, <2>6, CuttingType
    <3> QED
      BY <3>1, PrefixByParts
  <2>9. /\ r[d] = Slash => Len(P) > n /\ \A k \in 1 .. n : P[k] = W[k]
        /\ r[d] # Slash => Len(P) >= n /\ starts_with(P[n], Append(W[n], r[d]))
    BY <1>1, <2>5, <2>6, GoesOn DEF P
  <2>10. /\ t[d] = Slash => Len(Q) > n /\ \A k \in 1 .. n : Q[k] = W[k]
         /\ t[d] # Slash => Len(Q) >= n /\ starts_with(Q[n], Append(W[n], t[d]))
    BY <1>2, <2>5, <2>7, GoesOn DEF Q
  <2>11. P[n] # Q[n]
    <3>1. CASE r[d] = Slash
      BY <1>6, <2>3, <2>8, <2>9, <2>10, <3>1
    <3>2. CASE t[d] = Slash
      BY <1>6, <2>3, <2>8, <2>9, <2>10, <3>2
    <3>3. CASE r[d] # Slash /\ t[d] # Slash
      <4>1. starts_with(P[n], Append(W[n], r[d])) /\ starts_with(Q[n], Append(W[n], t[d]))
        BY <2>9, <2>10, <3>3
      <4>2. /\ Len(W[n]) \in Nat
            /\ Len(Append(W[n], r[d])) = Len(W[n]) + 1
            /\ Len(Append(W[n], t[d])) = Len(W[n]) + 1
            /\ Append(W[n], r[d])[Len(W[n]) + 1] = r[d]
            /\ Append(W[n], t[d])[Len(W[n]) + 1] = t[d]
        BY <2>8 DEF Bytes
      <4>3. P[n][Len(W[n]) + 1] = r[d] /\ Q[n][Len(W[n]) + 1] = t[d]
        BY <4>1, <4>2 DEF starts_with
      <4> QED
        BY <2>3, <4>3
    <3> QED
      BY <3>1, <3>2, <3>3
  <2>12. n \in 1 .. Len(P)
    BY <1>5, <2>8, <2>9
  <2> QED
    BY <1>5, <2>4, <2>11, <2>12 DEF P, Q
<1> QED
  BY <1>3, <1>7, <1>8, <1>9

LEMMA BelowOrder ==
  /\ \A p \in Bytes : Below(p, p)
  /\ \A p, q \in Bytes : Below(p, q) /\ Below(q, p) => p = q
  /\ \A p, q, r \in Bytes : Below(p, q) /\ Below(q, r) => Below(p, r)
<1>1. \A p \in Bytes : Below(p, p)
  BY DEF Below
<1>2. ASSUME NEW p \in Bytes, NEW q \in Bytes, Below(p, q), Below(q, p) PROVE p = q
  <2>1. Len(p) \in Nat /\ Len(q) \in Nat
    BY DEF Bytes
  <2> QED
    BY <1>2, <2>1 DEF Below
<1>3. \A p, q, r \in Bytes : Below(p, q) /\ Below(q, r) => Below(p, r)
  BY AllowsIsBelow, AllowsTransitive
<1> QED
  BY <1>1, <1>2, <1>3

(* No two paths have the same segments.                                     *)
LEMMA SplitInjective ==
  ASSUME NEW r \in Bytes, NEW t \in Bytes, Split(r) = Split(t)
  PROVE  r = t
<1>1. Below(r, r) /\ Below(t, t)
  BY BelowOrder
<1>2. Below(t, r) /\ Below(r, t)
  BY <1>1, BelowBySegments
<1> QED
  BY <1>2, BelowOrder

(* The roots that no other one covers.                                      *)
Topmost(paths) == {p \in paths : \A q \in paths : Below(p, q) => q = p}

LEMMA CompactBySegments ==
  ASSUME NEW paths \in SUBSET Bytes
  PROVE  Scopes!compact_paths(Segments(paths)) = Segments(Topmost(paths))
<1>1. ASSUME NEW p \in paths
      PROVE  (\A s \in Segments(paths) : IsPrefix(s, Split(p)) => s = Split(p))
               <=> p \in Topmost(paths)
  <2>1. \A q \in paths : IsPrefix(Split(q), Split(p)) <=> Below(p, q)
    BY BelowBySegments
  <2>2. \A q \in paths : Split(q) = Split(p) <=> q = p
    BY SplitInjective
  <2> QED
    BY <2>1, <2>2 DEF Segments, Topmost
<1>2. Topmost(paths) \subseteq paths
  BY DEF Topmost
<1>3. \A s, t : Scopes!IsPrefix(s, t) <=> IsPrefix(s, t)
  BY DEF Scopes!IsPrefix, IsPrefix
<1> QED
  BY <1>1, <1>2, <1>3 DEF Scopes!compact_paths, Scopes!allows, Segments

(* Roots of which none lies below another are the topmost of any paths that *)
(* cover the same.                                                          *)
LEMMA SameCover ==
  ASSUME NEW roots \in SUBSET Bytes, NEW paths \in SUBSET Bytes,
         \A p, q \in roots : Below(p, q) => p = q,
         \A target \in Bytes :
           (\E p \in roots : Below(target, p)) <=> (\E p \in paths : Below(target, p))
  PROVE  roots = Topmost(paths)
<1>1. ASSUME NEW p \in roots PROVE p \in Topmost(paths)
  <2>1. PICK q \in paths : Below(p, q)
    BY BelowOrder
  <2>2. ASSUME NEW x \in paths, Below(p, x) PROVE x = p
    <3>1. PICK y \in roots : Below(x, y)
      BY BelowOrder
    <3>2. Below(p, y)
      BY <2>2, <3>1, BelowOrder
    <3>3. y = p
      BY <3>2
    <3> QED
      BY <2>2, <3>1, <3>3, BelowOrder
  <2> QED
    BY <2>1, <2>2 DEF Topmost
<1>2. ASSUME NEW p \in Topmost(paths) PROVE p \in roots
  <2>1. p \in paths /\ \A q \in paths : Below(p, q) => q = p
    BY DEF Topmost
  <2>2. PICK y \in roots : Below(p, y)
    BY <2>1, BelowOrder
  <2>3. PICK q \in paths : Below(y, q)
    BY BelowOrder
  <2>4. q = p
    BY <2>1, <2>2, <2>3, BelowOrder
  <2>5. y = p
    BY <2>1, <2>2, <2>3, <2>4, BelowOrder
  <2> QED
    BY <2>5
<1> QED
  BY <1>1, <1>2

(* Of two paths that differ one is before the other.                        *)
LEMMA LessTotal ==
  ASSUME NEW p \in Bytes, NEW q \in Bytes
  PROVE  Less(p, q) \/ Less(q, p) \/ p = q
<1>1. Len(p) \in Nat /\ Len(q) \in Nat
  BY DEF Bytes
<1> DEFINE S == {i \in 1 .. Len(p) : i <= Len(q) /\ p[i] # q[i]}
<1>2. CASE S # {}
  <2>1. S \in SUBSET Nat
    BY <1>1
  <2>2. PICK d \in S : \A x \in S : d <= x
    BY <1>2, <2>1, SmallestNat
  <2>3. /\ d \in 1 .. Len(p) /\ d \in 1 .. Len(q) /\ p[d] # q[d]
        /\ \A j \in 1 .. d - 1 : j <= Len(p) /\ j <= Len(q) /\ p[j] = q[j]
    BY <1>1, <2>2
  <2>4. p[d] < q[d] \/ q[d] < p[d]
    BY <2>3 DEF Bytes
  <2> QED
    BY <1>1, <2>3, <2>4 DEF Less
<1>3. CASE S = {}
  <2>1. \A i \in 1 .. Len(p) : i <= Len(q) => p[i] = q[i]
    BY <1>3
  <2>2. CASE Len(p) = Len(q)
    BY <1>1, <2>1, <2>2 DEF Bytes
  <2>3. CASE Len(p) < Len(q)
    <3>1. Len(p) + 1 \in 1 .. Len(q) /\ \A j \in 1 .. Len(p) + 1 - 1 : j <= Len(p) /\ p[j] = q[j]
      BY <1>1, <2>1, <2>3
    <3> QED
      BY <3>1 DEF Less
  <2>4. CASE Len(q) < Len(p)
    <3>1. Len(q) + 1 \in 1 .. Len(p) /\ \A j \in 1 .. Len(q) + 1 - 1 : j <= Len(q) /\ q[j] = p[j]
      BY <1>1, <2>1, <2>4
    <3> QED
      BY <3>1 DEF Less
  <2> QED
    BY <1>1, <2>2, <2>3, <2>4
<1> QED
  BY <1>2, <1>3

-------------------------------------------------------------------------------
(* The invariant                                                            *)

LEMMA InitInv == Init => Inv
<1> SUFFICES ASSUME Init PROVE Inv
  OBVIOUS
<1> USE DEF Init
<1>1. TypeInv
  <2>1. grants \in Seq(Grant)
    BY InputsAssumption DEF Grant
  <2>2. << >> \in Seq(Roots) /\ << >> \in Seq([whole : BOOLEAN, roots : Seq(Roots)])
    OBVIOUS
  <2>3. Pending \in [kind : Kinds, roots : Seq(Roots)]
    BY <2>2 DEF Pending, Kinds
  <2> QED
    BY <2>1, <2>2, <2>3 DEF TypeInv
<1>2. ControlInv
  <2>1. Len(grants) \in Nat
    BY <1>1 DEF TypeInv
  <2> QED
    BY <2>1 DEF ControlInv
<1>3. LoopInv
  BY EmptyRange DEF LoopInv
<1>4. MadeInv
  BY DEF MadeInv
<1>5. ResultInv
  BY EmptyRange DEF ResultInv, Pending
<1> QED
  BY <1>1, <1>2, <1>3, <1>4, <1>5 DEF Inv

LEMMA EndInv ==
  ASSUME Inv, NEW scope \in [kind : Kinds, roots : Seq(Roots)], End(scope),
         NoneBelow(scope.roots),
         scope # Error =>
           \A target \in Bytes :
             allows_path(scope, target) <=> \E i \in DOMAIN grants : GrantCovers(grants[i], target)
  PROVE  Inv'
<1>1. /\ phase' = "done" /\ result' = scope
      /\ UNCHANGED <<grants, made, todo, compacted>>
  BY DEF End
<1>2. TypeInv'
  BY <1>1 DEF Inv, TypeInv
<1>3. ControlInv'
  BY <1>1 DEF Inv, ControlInv
<1>4. LoopInv'
  BY <1>1 DEF Inv, LoopInv
<1>5. MadeInv'
  BY <1>1 DEF Inv, MadeInv
<1>6. ResultInv'
  BY <1>1 DEF ResultInv
<1> QED
  BY <1>2, <1>3, <1>4, <1>5, <1>6 DEF Inv

LEMMA ErrorInv ==
  ASSUME Inv, End(Error)
  PROVE  Inv'
<1>1. << >> \in Seq(Roots)
  OBVIOUS
<1>2. Error \in [kind : Kinds, roots : Seq(Roots)] /\ NoneBelow(Error.roots)
  BY <1>1, EmptyRange DEF Error, Kinds
<1> QED
  BY <1>2, EndInv

(* A loop that starts covers its goal and has kept nothing.                 *)
LEMMA LoopStarts ==
  ASSUME Inv, phase \in {"grant"}, NEW goal \in SUBSET Roots,
         todo' = goal, compacted' = << >>, Goal' = goal,
         UNCHANGED <<grants, made, result>>,
         phase' \in {"new", "load", "merge"}, ControlInv'
  PROVE  Inv'
<1>1. TypeInv'
  BY DEF Inv, TypeInv
<1>2. LoopInv'
  <2>1. todo' \cup Range(compacted') = goal
    BY EmptyRange
  <2> QED
    BY <2>1, EmptyRange DEF LoopInv
<1>3. MadeInv'
  BY DEF Inv, MadeInv
<1>4. ResultInv'
  BY DEF Inv, ResultInv
<1> QED
  BY <1>1, <1>2, <1>3, <1>4 DEF Inv

LEMMA ElementType ==
  ASSUME NEW T, NEW q \in Seq(T), NEW i \in DOMAIN q
  PROVE  q[i] \in T
OBVIOUS

LEMMA MadeRoots ==
  ASSUME TypeInv, NEW i \in DOMAIN made
  PROVE  made[i].roots \in Seq(Roots) /\ Range(made[i].roots) \in SUBSET Roots
<1>1. made[i] \in [whole : BOOLEAN, roots : Seq(Roots)]
  BY ElementType DEF TypeInv
<1>2. made[i].roots \in Seq(Roots)
  BY <1>1
<1> QED
  BY <1>2 DEF Range

LEMMA CurrentType ==
  ASSUME TypeInv, More
  PROVE  /\ Len(made) + 1 \in DOMAIN grants
         /\ Current \in Grant /\ Current.texts \in SUBSET Bytes
         /\ Parsed(Current.texts) \in SUBSET Roots
<1>1. Len(made) + 1 \in DOMAIN grants
  BY DEF TypeInv, More
<1>2. Current \in Grant
  BY <1>1 DEF TypeInv, Current
<1>3. Current.texts \in SUBSET Bytes
  BY <1>2, TextsAssumption DEF Grant, Bytes
<1> QED
  BY <1>1, <1>2, <1>3, ParsedType

LEMMA GrantTenantInv == Inv /\ GrantTenant => Inv'
<1> SUFFICES ASSUME Inv, GrantTenant PROVE Inv'
  OBVIOUS
<1> DEFINE new == [whole |-> TRUE, roots |-> << >>]
<1>1. /\ phase = "grant" /\ Len(made) < Len(grants) /\ Current.whole
      /\ made' = Append(made, new)
      /\ UNCHANGED <<grants, todo, compacted, phase, result>>
  BY DEF GrantTenant, More
<1>2. TypeInv /\ ControlInv /\ LoopInv /\ MadeInv /\ ResultInv
  BY DEF Inv
<1>3. /\ new \in [whole : BOOLEAN, roots : Seq(Roots)]
      /\ made \in Seq([whole : BOOLEAN, roots : Seq(Roots)])
      /\ Len(grants) \in Nat
  BY <1>2 DEF TypeInv
<1>4. /\ made' \in Seq([whole : BOOLEAN, roots : Seq(Roots)])
      /\ DOMAIN made' = 1 .. Len(made) + 1 /\ DOMAIN made = 1 .. Len(made) /\ Len(made) \in Nat
      /\ Len(made') = Len(made) + 1
      /\ \A i \in 1 .. Len(made) : made'[i] = made[i]
      /\ made'[Len(made) + 1] = new
  BY <1>1, <1>3
<1>5. TypeInv'
  BY <1>1, <1>2, <1>4 DEF TypeInv
<1>6. ControlInv'
  BY <1>1, <1>2, <1>3, <1>4 DEF ControlInv, Current
<1>7. LoopInv'
  BY <1>1, <1>2 DEF LoopInv
<1>8. MadeInv'
  <2> SUFFICES ASSUME NEW i \in 1 .. Len(made) + 1
               PROVE  /\ NoneBelow(made'[i].roots)
                      /\ \A target \in Bytes :
                           (made'[i].whole \/ Covers(Range(made'[i].roots), target))
                             <=> GrantCovers(grants[i], target)
    BY <1>1, <1>4 DEF MadeInv
  <2>1. CASE i \in 1 .. Len(made)
    BY <2>1, <1>2, <1>4 DEF MadeInv
  <2>2. CASE i = Len(made) + 1
    BY <2>2, <1>1, <1>4, EmptyRange DEF GrantCovers, Current
  <2> QED
    BY <1>4, <2>1, <2>2
<1>9. ResultInv'
  BY <1>1, <1>2 DEF ResultInv
<1> QED
  BY <1>5, <1>6, <1>7, <1>8, <1>9 DEF Inv

LEMMA GrantPathsInv == Inv /\ GrantPaths => Inv'
<1> SUFFICES ASSUME Inv, GrantPaths PROVE Inv'
  OBVIOUS
<1>1. More /\ ~ Current.whole /\ Compact(Current.texts, "new")
  BY DEF GrantPaths
<1>2. CASE End(Error)
  BY <1>2, ErrorInv
<1>3. CASE ~ End(Error)
  <2>1. /\ phase' = "new" /\ todo' = Parsed(Current.texts) /\ compacted' = << >>
        /\ UNCHANGED <<grants, made, result>>
    BY <1>1, <1>3 DEF Compact
  <2>2. Parsed(Current.texts) \in SUBSET Roots
    BY <1>1, CurrentType DEF Inv
  <2>3. ControlInv'
    BY <1>1, <2>1 DEF Inv, ControlInv, More, Current
  <2>4. Goal' = Parsed(Current.texts)
    BY <2>1 DEF Goal, Current
  <2>5. phase = "grant"
    BY <1>1 DEF More
  <2> QED
    BY <2>1, <2>2, <2>3, <2>4, <2>5, LoopStarts
<1> QED
  BY <1>2, <1>3

LEMMA DeserializeInv == Inv /\ Deserialize => Inv'
<1> SUFFICES ASSUME Inv, Deserialize PROVE Inv'
  OBVIOUS
<1>1. /\ phase = "grant" /\ made # << >> /\ ~ made[Len(made)].whole
      /\ Compact(LastRoots, "load")
  BY DEF Deserialize
<1>2. TypeInv /\ ControlInv /\ MadeInv
  BY DEF Inv
<1>3. Len(made) \in DOMAIN made
  BY <1>1, <1>2 DEF TypeInv
<1>4. LastRoots \in SUBSET Roots /\ Parsed(LastRoots) = LastRoots
  BY <1>2, <1>3, MadeRoots, ParsedType DEF LastRoots
<1>5. CASE End(Error)
  BY <1>5, ErrorInv
<1>6. CASE ~ End(Error)
  <2>1. /\ phase' = "load" /\ todo' = LastRoots /\ compacted' = << >>
        /\ UNCHANGED <<grants, made, result>>
    BY <1>1, <1>4, <1>6 DEF Compact
  <2>2. ControlInv'
    BY <1>1, <1>2, <2>1 DEF ControlInv
  <2>3. Goal' = LastRoots
    BY <2>1 DEF Goal, LastRoots
  <2> QED
    BY <1>1, <1>4, <2>1, <2>2, <2>3, LoopStarts
<1> QED
  BY <1>5, <1>6

LEMMA TakeInv ==
  ASSUME Inv, NEW p \in todo, Take(p)
  PROVE  Inv'
<1> DEFINE skipped == \E root \in Range(compacted) : allows(root, p)
<1>1. /\ phase \in {"new", "load", "merge"} /\ \A q \in todo : ~ Less(q, p)
      /\ todo' = todo \ {p}
      /\ compacted' = IF skipped THEN compacted ELSE Append(compacted, p)
      /\ UNCHANGED <<grants, made, phase, result>>
  BY DEF Take, Least
<1>2. TypeInv /\ ControlInv /\ LoopInv /\ MadeInv /\ ResultInv
  BY DEF Inv
<1>3. /\ compacted \in Seq(Roots) /\ p \in Roots /\ p \in Bytes /\ todo \in SUBSET Bytes
      /\ Roots \in SUBSET Bytes
  BY <1>2 DEF TypeInv, Roots
<1>4. Range(compacted) \in SUBSET Bytes
  BY <1>3 DEF Range
<1>5. Goal' = Goal
  BY <1>1 DEF Goal, Current, LastRoots, AllRoots
<1>6. TypeInv'
  <2>1. Append(compacted, p) \in Seq(Roots)
    BY <1>3
  <2> QED
    BY <1>1, <1>2, <2>1 DEF TypeInv
<1>7. ControlInv' /\ MadeInv' /\ ResultInv'
  BY <1>1, <1>2 DEF ControlInv, MadeInv, ResultInv, Current
<1>8. CASE skipped
  <2>1. PICK root \in Range(compacted) : allows(root, p)
    BY <1>8
  <2>2. \A target \in Bytes :
          Covers(todo' \cup Range(compacted'), target) <=> Covers(todo \cup Range(compacted), target)
    <3> TAKE target \in Bytes
    <3>1. allows(p, target) => allows(root, target)
      BY <1>3, <1>4, <2>1, AllowsTransitive
    <3> QED
      BY <1>1, <1>8, <2>1, <3>1 DEF Covers
  <2>3. LoopInv'
    BY <1>1, <1>2, <1>5, <1>8, <2>2 DEF LoopInv
  <2> QED
    BY <1>6, <1>7, <2>3 DEF Inv
<1>9. CASE ~ skipped
  <2>1. /\ compacted' = Append(compacted, p)
        /\ Range(compacted') = Range(compacted) \cup {p}
        /\ DOMAIN compacted' = 1 .. Len(compacted) + 1 /\ Len(compacted) \in Nat
        /\ DOMAIN compacted = 1 .. Len(compacted)
        /\ \A i \in 1 .. Len(compacted) : compacted'[i] = compacted[i]
        /\ compacted'[Len(compacted) + 1] = p
    BY <1>1, <1>3, <1>9, AppendRange
  <2>2. \A kept \in Range(compacted'), path \in todo' : ~ Less(path, kept)
    BY <1>1, <1>2, <2>1 DEF LoopInv
  <2>3. \A kept \in Range(compacted) : ~ Below(p, kept) /\ ~ Below(kept, p)
    <3> TAKE kept \in Range(compacted)
    <3>1. ~ allows(kept, p)
      BY <1>9
    <3>2. kept \in Bytes
      BY <1>4
    <3>3. ~ Below(p, kept)
      BY <1>3, <3>1, <3>2, AllowsIsBelow
    <3>4. kept # p
      BY <3>1 DEF allows
    <3>5. ~ Less(p, kept)
      BY <1>2 DEF LoopInv
    <3> QED
      BY <1>3, <3>2, <3>3, <3>4, <3>5, AncestorIsLess
  <2>4. NoneBelow(compacted')
    <3> SUFFICES ASSUME NEW i \in 1 .. Len(compacted) + 1, NEW j \in 1 .. Len(compacted) + 1,
                        Below(compacted'[i], compacted'[j])
                 PROVE  i = j
      BY <2>1 DEF NoneBelow
    <3>1. NoneBelow(compacted)
      BY <1>2 DEF LoopInv
    <3>2. \A k \in 1 .. Len(compacted) : compacted[k] \in Range(compacted)
      BY <2>1 DEF Range
    <3>3. CASE i \in 1 .. Len(compacted) /\ j \in 1 .. Len(compacted)
      BY <3>1, <3>3, <2>1 DEF NoneBelow
    <3>4. CASE i = Len(compacted) + 1 /\ j \in 1 .. Len(compacted)
      BY <3>2, <3>4, <2>1, <2>3
    <3>5. CASE i \in 1 .. Len(compacted) /\ j = Len(compacted) + 1
      BY <3>2, <3>5, <2>1, <2>3
    <3> QED
      BY <2>1, <3>3, <3>4, <3>5
  <2>5. todo' \cup Range(compacted') = todo \cup Range(compacted)
    BY <1>1, <2>1
  <2>6. LoopInv'
    BY <1>1, <1>2, <1>5, <2>2, <2>4, <2>5 DEF LoopInv
  <2> QED
    BY <1>6, <1>7, <2>6 DEF Inv
<1> QED
  BY <1>8, <1>9

LEMMA GrantMadeInv == Inv /\ GrantMade => Inv'
<1> SUFFICES ASSUME Inv, GrantMade PROVE Inv'
  OBVIOUS
<1> DEFINE new == [whole |-> FALSE, roots |-> compacted]
<1>1. /\ phase = "new" /\ todo = {}
      /\ made' = Append(made, new)
      /\ phase' = "grant" /\ compacted' = << >>
      /\ UNCHANGED <<grants, todo, result>>
  BY DEF GrantMade
<1>2. TypeInv /\ ControlInv /\ LoopInv /\ MadeInv /\ ResultInv
  BY DEF Inv
<1>3. /\ new \in [whole : BOOLEAN, roots : Seq(Roots)]
      /\ made \in Seq([whole : BOOLEAN, roots : Seq(Roots)])
      /\ Len(grants) \in Nat
  BY <1>2 DEF TypeInv
<1>4. /\ made' \in Seq([whole : BOOLEAN, roots : Seq(Roots)])
      /\ DOMAIN made' = 1 .. Len(made) + 1 /\ DOMAIN made = 1 .. Len(made) /\ Len(made) \in Nat
      /\ Len(made') = Len(made) + 1
      /\ \A i \in 1 .. Len(made) : made'[i] = made[i]
      /\ made'[Len(made) + 1] = new
  BY <1>1, <1>3
<1>5. TypeInv'
  <2>1. << >> \in Seq(Roots)
    OBVIOUS
  <2> QED
    BY <1>1, <1>2, <1>4, <2>1 DEF TypeInv
<1>6. ControlInv'
  BY <1>1, <1>2, <1>3, <1>4 DEF ControlInv, Current
<1>7. LoopInv'
  BY <1>1, <1>2, EmptyRange DEF LoopInv
<1>8. MadeInv'
  <2> SUFFICES ASSUME NEW i \in 1 .. Len(made) + 1
               PROVE  /\ NoneBelow(made'[i].roots)
                      /\ \A target \in Bytes :
                           (made'[i].whole \/ Covers(Range(made'[i].roots), target))
                             <=> GrantCovers(grants[i], target)
    BY <1>1, <1>4 DEF MadeInv
  <2>1. CASE i \in 1 .. Len(made)
    BY <2>1, <1>2, <1>4 DEF MadeInv
  <2>2. CASE i = Len(made) + 1
    <3>1. Goal = Parsed(grants[i].texts) /\ ~ grants[i].whole
      BY <1>1, <1>2, <2>2 DEF Goal, Current, ControlInv
    <3>2. Parsed(grants[i].texts) \in SUBSET Bytes
      <4>1. i \in DOMAIN grants
        BY <1>1, <1>2, <1>3, <1>4, <2>2 DEF ControlInv, TypeInv
      <4>2. grants[i] \in Grant
        BY <1>2, <4>1, ElementType DEF TypeInv
      <4>3. grants[i].texts \in SUBSET Bytes
        BY <4>2, TextsAssumption DEF Grant, Bytes
      <4> QED
        BY <4>3, ParsedType DEF Roots
    <3>3. \A target \in Bytes : Covers(Range(compacted), target) <=> GrantCovers(grants[i], target)
      <4> TAKE target \in Bytes
      <4>1. Covers(Range(compacted), target) <=> Covers(Goal, target)
        BY <1>1, <1>2 DEF LoopInv
      <4>2. Covers(Parsed(grants[i].texts), target)
              <=> \E root \in Parsed(grants[i].texts) : Below(target, root)
        BY <3>2, AllowsIsBelow DEF Covers
      <4> QED
        BY <3>1, <4>1, <4>2 DEF GrantCovers
    <3>4. NoneBelow(compacted)
      BY <1>2 DEF LoopInv
    <3> QED
      BY <2>2, <1>4, <3>3, <3>4
  <2> QED
    BY <1>4, <2>1, <2>2
<1>9. ResultInv'
  BY <1>1, <1>2 DEF ResultInv
<1> QED
  BY <1>5, <1>6, <1>7, <1>8, <1>9 DEF Inv

LEMMA DeserializedInv == Inv /\ Deserialized => Inv'
<1> SUFFICES ASSUME Inv, Deserialized PROVE Inv'
  OBVIOUS
<1>1. /\ phase = "load" /\ todo = {}
      /\ made' = [made EXCEPT ![Len(made)].roots = compacted]
      /\ phase' = "grant" /\ compacted' = << >>
      /\ UNCHANGED <<grants, todo, result>>
  BY DEF Deserialized
<1>2. TypeInv /\ ControlInv /\ LoopInv /\ MadeInv /\ ResultInv
  BY DEF Inv
<1>3. /\ made \in Seq([whole : BOOLEAN, roots : Seq(Roots)]) /\ made # << >>
      /\ ~ made[Len(made)].whole /\ compacted \in Seq(Roots)
  BY <1>1, <1>2 DEF TypeInv, ControlInv
<1>4. Len(made) \in DOMAIN made /\ Len(made) \in Nat /\ DOMAIN made = 1 .. Len(made)
  BY <1>3
<1>5. made[Len(made)] \in [whole : BOOLEAN, roots : Seq(Roots)]
  BY <1>3, <1>4, ElementType
<1>6. /\ made' \in Seq([whole : BOOLEAN, roots : Seq(Roots)])
      /\ DOMAIN made' = DOMAIN made /\ Len(made') = Len(made)
      /\ \A i \in DOMAIN made : i # Len(made) => made'[i] = made[i]
      /\ made'[Len(made)].whole = made[Len(made)].whole
      /\ made'[Len(made)].roots = compacted
  <2> DEFINE last == [made[Len(made)] EXCEPT !.roots = compacted]
  <2>1. /\ last \in [whole : BOOLEAN, roots : Seq(Roots)]
        /\ last.whole = made[Len(made)].whole /\ last.roots = compacted
    BY <1>3, <1>5
  <2>2. made' = [made EXCEPT ![Len(made)] = last]
    BY <1>1
  <2> HIDE DEF last
  <2> QED
    BY <1>3, <1>4, <2>1, <2>2
<1>7. TypeInv'
  <2>1. << >> \in Seq(Roots)
    OBVIOUS
  <2> QED
    BY <1>1, <1>2, <1>6, <2>1 DEF TypeInv
<1>8. ControlInv'
  BY <1>1, <1>2, <1>4, <1>6 DEF ControlInv
<1>9. LoopInv'
  BY <1>1, <1>2, EmptyRange DEF LoopInv
<1>10. MadeInv'
  <2> SUFFICES ASSUME NEW i \in DOMAIN made
               PROVE  /\ NoneBelow(made'[i].roots)
                      /\ \A target \in Bytes :
                           (made'[i].whole \/ Covers(Range(made'[i].roots), target))
                             <=> GrantCovers(grants[i], target)
    BY <1>1, <1>6 DEF MadeInv
  <2>1. CASE i # Len(made)
    BY <2>1, <1>2, <1>6 DEF MadeInv
  <2>2. CASE i = Len(made)
    <3>1. \A target \in Bytes :
            Covers(Range(compacted), target) <=> Covers(Range(made[i].roots), target)
      BY <1>1, <1>2, <2>2 DEF LoopInv, Goal, LastRoots
    <3>2. NoneBelow(compacted)
      BY <1>2 DEF LoopInv
    <3> QED
      BY <1>2, <1>6, <2>2, <3>1, <3>2 DEF MadeInv
  <2> QED
    BY <2>1, <2>2
<1>11. ResultInv'
  BY <1>1, <1>2 DEF ResultInv
<1> QED
  BY <1>7, <1>8, <1>9, <1>10, <1>11 DEF Inv

(* The gathered roots cover what the grants do, if none is the whole tenant.*)
LEMMA AllRootsCover ==
  ASSUME Inv, Len(made) = Len(grants), \A i \in DOMAIN made : ~ made[i].whole
  PROVE  /\ AllRoots \in SUBSET Roots
         /\ \A target \in Bytes :
              Covers(AllRoots, target) <=> \E i \in DOMAIN grants : GrantCovers(grants[i], target)
<1>1. TypeInv /\ MadeInv
  BY DEF Inv
<1>2. DOMAIN made = DOMAIN grants
  BY <1>1 DEF TypeInv
<1>3. AllRoots \in SUBSET Roots
  BY <1>1, MadeRoots DEF AllRoots
<1>4. ASSUME NEW target \in Bytes
      PROVE  Covers(AllRoots, target) <=> \E i \in DOMAIN grants : GrantCovers(grants[i], target)
  <2>1. Covers(AllRoots, target) <=> \E i \in DOMAIN made : Covers(Range(made[i].roots), target)
    BY DEF Covers, AllRoots
  <2>2. \A i \in DOMAIN made :
          Covers(Range(made[i].roots), target) <=> GrantCovers(grants[i], target)
    BY <1>1, <1>4 DEF MadeInv
  <2> QED
    BY <1>2, <2>1, <2>2
<1> QED
  BY <1>3, <1>4

LEMMA MergeInv == Inv /\ Merge => Inv'
<1> SUFFICES ASSUME Inv, Merge PROVE Inv'
  OBVIOUS
<1>1. phase = "grant" /\ Len(made) = Len(grants)
  BY DEF Merge
<1>2. TypeInv /\ ControlInv /\ MadeInv
  BY DEF Inv
<1>3. DOMAIN made = DOMAIN grants /\ << >> \in Seq(Roots)
  BY <1>1, <1>2 DEF TypeInv
<1>4. CASE \E i \in DOMAIN made : made[i].whole
  <2>1. End(TenantScope)
    BY <1>4 DEF Merge
  <2>2. TenantScope \in [kind : Kinds, roots : Seq(Roots)] /\ NoneBelow(TenantScope.roots)
    BY <1>3, EmptyRange DEF TenantScope, Kinds
  <2>3. \A target \in Bytes :
          allows_path(TenantScope, target) <=> \E i \in DOMAIN grants : GrantCovers(grants[i], target)
    BY <1>2, <1>3, <1>4 DEF allows_path, TenantScope, ControlInv, GrantCovers
  <2> QED
    BY <2>1, <2>2, <2>3, EndInv
<1>5. CASE ~ (\E i \in DOMAIN made : made[i].whole) /\ AllRoots = {}
  <2>1. End(NoneScope)
    BY <1>5 DEF Merge
  <2>2. NoneScope \in [kind : Kinds, roots : Seq(Roots)] /\ NoneBelow(NoneScope.roots)
    BY <1>3, EmptyRange DEF NoneScope, Kinds
  <2>3. \A target \in Bytes :
          allows_path(NoneScope, target) <=> \E i \in DOMAIN grants : GrantCovers(grants[i], target)
    <3> TAKE target \in Bytes
    <3>1. ~ allows_path(NoneScope, target)
      BY EmptyRange DEF allows_path, NoneScope
    <3>2. ~ Covers(AllRoots, target)
      BY <1>5 DEF Covers
    <3> QED
      BY <1>1, <1>5, <3>1, <3>2, AllRootsCover
  <2> QED
    BY <2>1, <2>2, <2>3, EndInv
<1>6. CASE ~ (\E i \in DOMAIN made : made[i].whole) /\ AllRoots # {}
  <2>1. /\ phase' = "merge" /\ todo' = AllRoots /\ compacted' = << >>
        /\ UNCHANGED <<grants, made, result>>
    BY <1>6 DEF Merge
  <2>2. AllRoots \in SUBSET Roots
    BY <1>1, <1>6, AllRootsCover
  <2>3. ControlInv'
    BY <1>1, <1>2, <1>6, <2>1 DEF ControlInv
  <2>4. Goal' = AllRoots
    BY <2>1 DEF Goal, AllRoots
  <2> QED
    BY <1>1, <2>1, <2>2, <2>3, <2>4, LoopStarts
<1> QED
  BY <1>4, <1>5, <1>6

LEMMA MergedInv == Inv /\ Merged => Inv'
<1> SUFFICES ASSUME Inv, Merged PROVE Inv'
  OBVIOUS
<1> DEFINE scope == PathsScope(compacted)
<1>1. phase = "merge" /\ todo = {} /\ End(scope)
  BY DEF Merged
<1>2. TypeInv /\ ControlInv /\ LoopInv
  BY DEF Inv
<1>3. scope \in [kind : Kinds, roots : Seq(Roots)] /\ scope.roots = compacted /\ scope.kind = "paths"
  BY <1>2 DEF TypeInv, PathsScope, Kinds
<1>4. NoneBelow(scope.roots)
  BY <1>2, <1>3 DEF LoopInv
<1>5. \A target \in Bytes :
        allows_path(scope, target) <=> \E i \in DOMAIN grants : GrantCovers(grants[i], target)
  <2> TAKE target \in Bytes
  <2>1. allows_path(scope, target) <=> Covers(Range(compacted), target)
    BY <1>3 DEF allows_path, Covers
  <2>2. Covers(Range(compacted), target) <=> Covers(AllRoots, target)
    BY <1>1, <1>2 DEF LoopInv, Goal
  <2>3. Len(made) = Len(grants) /\ \A i \in DOMAIN made : ~ made[i].whole
    BY <1>1, <1>2 DEF ControlInv
  <2> QED
    BY <2>1, <2>2, <2>3, AllRootsCover
<1> HIDE DEF scope
<1> QED
  BY <1>1, <1>3, <1>4, <1>5, EndInv

LEMMA StutterInv == Inv /\ UNCHANGED vars => Inv'
<1> SUFFICES ASSUME Inv, UNCHANGED vars PROVE Inv'
  OBVIOUS
<1>1. UNCHANGED <<grants, made, todo, compacted, phase, result>>
  BY DEF vars
<1>2. Goal' = Goal /\ Current' = Current
  BY <1>1 DEF Goal, Current, LastRoots, AllRoots
<1> QED
  BY <1>1, <1>2 DEF Inv, TypeInv, ControlInv, LoopInv, MadeInv, ResultInv

LEMMA Invariance == Spec => []Inv
<1>1. Inv /\ [Next]_vars => Inv'
  BY GrantTenantInv, GrantPathsInv, GrantMadeInv, DeserializeInv, DeserializedInv,
     MergeInv, MergedInv, TakeInv, StutterInv DEF Next
<1> QED
  BY InitInv, <1>1, PTL DEF Spec

-------------------------------------------------------------------------------
(* Theorems                                                                 *)

(* Whatever is granted and in whatever order, a grant that was made, stored *)
(* and read back, and the merged scope, cover what was given.               *)
THEOREM CoverageIsKept == Spec => []CoverageKept
<1>1. Inv => CoverageKept
  <2> SUFFICES ASSUME Inv, NEW target \in ValidPaths
               PROVE  /\ \A i \in DOMAIN made :
                           (made[i].whole \/ \E root \in Range(made[i].roots) : allows(root, target))
                             <=> GrantCovers(grants[i], target)
                      /\ phase = "done" /\ result # Error =>
                           (allows_path(result, target)
                              <=> \E i \in DOMAIN grants : GrantCovers(grants[i], target))
    BY DEF CoverageKept
  <2>1. target \in Bytes
    BY TextsAssumption DEF ValidPaths, Bytes
  <2> QED
    BY <2>1 DEF Inv, MadeInv, ResultInv, Covers
<1> QED
  BY Invariance, <1>1, PTL

(* No root that is kept lies below another.                                 *)
THEOREM NothingIsRedundant == Spec => []NothingRedundant
<1>1. Inv => NothingRedundant
  BY DEF Inv, MadeInv, ResultInv, NothingRedundant
<1> QED
  BY Invariance, <1>1, PTL

-------------------------------------------------------------------------------
(* The same scopes by segments                                              *)

(* The loop keeps roots in their order, and what is left to take comes      *)
(* after them; a scope is whole if a grant is.                              *)
OrderInv ==
  /\ \A kept \in Range(compacted), path \in todo : Less(kept, path)
  /\ Sorted(compacted)
  /\ \A i \in DOMAIN made :
       /\ Sorted(made[i].roots)
       /\ made[i].whole => made[i].roots = << >>
       /\ made[i].whole <=> grants[i].whole
  /\ phase # "done" => result = Pending
  /\ Sorted(result.roots)
  /\ result.kind = "tenant" => result = TenantScope
  /\ phase = "done" /\ result # Error =>
       /\ Len(made) = Len(grants)
       /\ result = TenantScope <=> \E i \in DOMAIN made : made[i].whole

LEMMA EmptySorted == Sorted(<< >>)
BY DEF Sorted

LEMMA OrderInit == Init => OrderInv
<1>1. Init => Range(compacted) = {} /\ result.roots = << >> /\ result.kind # "tenant"
  BY EmptyRange DEF Init, Pending
<1> QED
  BY <1>1, EmptySorted DEF Init, OrderInv

LEMMA EndOrder ==
  ASSUME OrderInv, NEW scope, End(scope), Sorted(scope.roots),
         scope.kind = "tenant" => scope = TenantScope,
         scope # Error =>
           /\ Len(made) = Len(grants)
           /\ scope = TenantScope <=> \E i \in DOMAIN made : made[i].whole
  PROVE  OrderInv'
BY DEF OrderInv, End

LEMMA ErrorOrder == OrderInv /\ End(Error) => OrderInv'
<1>1. Error.roots = << >> /\ Error.kind # "tenant"
  BY DEF Error
<1> QED
  BY <1>1, EmptySorted, EndOrder

LEMMA LoopOrder ==
  ASSUME OrderInv, compacted' = << >>, UNCHANGED <<grants, made, result>>,
         phase' # "done", phase # "done"
  PROVE  OrderInv'
BY EmptyRange, EmptySorted DEF OrderInv

LEMMA TakeOrder ==
  ASSUME Inv, OrderInv, NEW p \in todo, Take(p)
  PROVE  OrderInv'
<1>1. /\ \A q \in todo : ~ Less(q, p)
      /\ todo' = todo \ {p}
      /\ compacted' = compacted \/ compacted' = Append(compacted, p)
      /\ UNCHANGED <<grants, made, phase, result>>
  BY DEF Take, Least
<1>2. CASE compacted' = compacted
  BY <1>1, <1>2 DEF OrderInv
<1>3. CASE compacted' = Append(compacted, p)
  <2>1. compacted \in Seq(Roots) /\ p \in Roots /\ todo \in SUBSET Bytes /\ p \in Bytes
    BY DEF Inv, TypeInv, Roots
  <2>2. /\ Range(compacted') = Range(compacted) \cup {p}
        /\ DOMAIN compacted' = 1 .. Len(compacted) + 1 /\ Len(compacted) \in Nat
        /\ DOMAIN compacted = 1 .. Len(compacted)
        /\ \A i \in 1 .. Len(compacted) : compacted'[i] = compacted[i]
        /\ compacted'[Len(compacted) + 1] = p
    BY <1>3, <2>1, AppendRange
  <2>3. \A q \in todo' : Less(p, q)
    BY <1>1, <2>1, LessTotal
  <2>4. \A kept \in Range(compacted'), path \in todo' : Less(kept, path)
    BY <1>1, <2>2, <2>3 DEF OrderInv
  <2>5. Sorted(compacted')
    <3> SUFFICES ASSUME NEW i \in 1 .. Len(compacted) + 1, NEW j \in 1 .. Len(compacted) + 1,
                        i < j
                 PROVE  Less(compacted'[i], compacted'[j])
      BY <2>2 DEF Sorted
    <3>1. i \in 1 .. Len(compacted) /\ compacted[i] \in Range(compacted)
      BY <2>2 DEF Range
    <3>2. CASE j \in 1 .. Len(compacted)
      BY <2>2, <3>1, <3>2 DEF OrderInv, Sorted
    <3>3. CASE j = Len(compacted) + 1
      BY <2>2, <3>1, <3>3 DEF OrderInv
    <3> QED
      BY <2>2, <3>2, <3>3
  <2> QED
    BY <1>1, <2>4, <2>5 DEF OrderInv
<1> QED
  BY <1>1, <1>2, <1>3

(* A grant is appended: the whole tenant, or sorted roots.                  *)
LEMMA AppendOrder ==
  ASSUME Inv, OrderInv, phase # "done", phase' # "done", Len(made) < Len(grants),
         NEW new \in [whole : BOOLEAN, roots : Seq(Roots)], made' = Append(made, new),
         Sorted(new.roots), new.whole => new.roots = << >>, new.whole <=> Current.whole,
         compacted' = << >> \/ UNCHANGED <<compacted, todo>>, UNCHANGED <<grants, result>>
  PROVE  OrderInv'
<1>1. made \in Seq([whole : BOOLEAN, roots : Seq(Roots)])
  BY DEF Inv, TypeInv
<1>2. /\ DOMAIN made' = 1 .. Len(made) + 1 /\ DOMAIN made = 1 .. Len(made) /\ Len(made) \in Nat
      /\ \A i \in 1 .. Len(made) : made'[i] = made[i]
      /\ made'[Len(made) + 1] = new
  BY <1>1
<1>3. \A i \in DOMAIN made' :
        /\ Sorted(made'[i].roots)
        /\ made'[i].whole => made'[i].roots = << >>
        /\ made'[i].whole <=> grants[i].whole
  BY <1>2 DEF OrderInv, Current
<1>4. /\ \A kept \in Range(compacted'), path \in todo' : Less(kept, path)
      /\ Sorted(compacted')
  BY EmptyRange, EmptySorted DEF OrderInv
<1> QED
  BY <1>3, <1>4 DEF OrderInv

LEMMA OrderStep == Inv /\ OrderInv /\ Next => OrderInv'
<1> SUFFICES ASSUME Inv, OrderInv, Next PROVE OrderInv'
  OBVIOUS
<1>0. TypeInv /\ ControlInv
  BY DEF Inv
<1>1. CASE GrantTenant
  <2> DEFINE new == [whole |-> TRUE, roots |-> << >>]
  <2>1. new \in [whole : BOOLEAN, roots : Seq(Roots)] /\ new.whole /\ new.roots = << >>
    OBVIOUS
  <2>2. /\ phase = "grant" /\ phase' = "grant" /\ Len(made) < Len(grants) /\ Current.whole
        /\ made' = Append(made, new) /\ UNCHANGED <<grants, todo, compacted, result>>
    BY <1>1 DEF GrantTenant, More
  <2> HIDE DEF new
  <2> QED
    BY <2>1, <2>2, EmptySorted, AppendOrder
<1>2. CASE GrantPaths \/ Deserialize
  <2>1. CASE End(Error)
    BY <2>1, ErrorOrder
  <2>2. CASE ~ End(Error)
    <3>1. /\ phase = "grant" /\ phase' \in {"new", "load"} /\ compacted' = << >>
          /\ UNCHANGED <<grants, made, result>>
      BY <1>2, <2>2 DEF GrantPaths, Deserialize, Compact, More
    <3> QED
      BY <3>1, LoopOrder
  <2> QED
    BY <2>1, <2>2
<1>3. CASE GrantMade
  <2> DEFINE new == [whole |-> FALSE, roots |-> compacted]
  <2>1. new \in [whole : BOOLEAN, roots : Seq(Roots)] /\ ~ new.whole /\ new.roots = compacted
    BY <1>0 DEF TypeInv
  <2>2. /\ phase = "new" /\ phase' = "grant" /\ compacted' = << >>
        /\ made' = Append(made, new) /\ UNCHANGED <<grants, todo, result>>
    BY <1>3 DEF GrantMade
  <2>3. Len(made) < Len(grants) /\ ~ Current.whole
    BY <1>0, <2>2 DEF ControlInv
  <2>4. Sorted(compacted)
    BY DEF OrderInv
  <2> HIDE DEF new
  <2> QED
    BY <2>1, <2>2, <2>3, <2>4, AppendOrder
<1>4. CASE Deserialized
  <2>1. /\ phase = "load" /\ phase' = "grant" /\ compacted' = << >>
        /\ made' = [made EXCEPT ![Len(made)].roots = compacted]
        /\ UNCHANGED <<grants, todo, result>>
    BY <1>4 DEF Deserialized
  <2>2. /\ made \in Seq([whole : BOOLEAN, roots : Seq(Roots)]) /\ made # << >>
        /\ ~ made[Len(made)].whole
    BY <1>0, <2>1 DEF TypeInv, ControlInv
  <2>3. /\ Len(made) \in DOMAIN made
        /\ made[Len(made)] \in [whole : BOOLEAN, roots : Seq(Roots)]
    <3>1. Len(made) \in DOMAIN made
      BY <2>2
    <3> QED
      BY <2>2, <3>1, ElementType
  <2> DEFINE last == [made[Len(made)] EXCEPT !.roots = compacted]
  <2>4. last.whole = made[Len(made)].whole /\ last.roots = compacted
    BY <2>3
  <2>5. made' = [made EXCEPT ![Len(made)] = last]
    BY <2>1
  <2> HIDE DEF last
  <2>6. /\ DOMAIN made' = DOMAIN made
        /\ \A i \in DOMAIN made : i # Len(made) => made'[i] = made[i]
        /\ made'[Len(made)] = last
    BY <2>3, <2>5
  <2>7. \A i \in DOMAIN made' :
          /\ Sorted(made'[i].roots)
          /\ made'[i].whole => made'[i].roots = << >>
          /\ made'[i].whole <=> grants[i].whole
    BY <2>2, <2>3, <2>4, <2>6 DEF OrderInv
  <2> QED
    BY <2>1, <2>7, EmptyRange, EmptySorted DEF OrderInv
<1>5. CASE Merge
  <2>1. phase = "grant" /\ Len(made) = Len(grants)
    BY <1>5 DEF Merge
  <2>2. CASE End(TenantScope) /\ \E i \in DOMAIN made : made[i].whole
    BY <2>1, <2>2, EmptySorted, EndOrder DEF TenantScope
  <2>3. CASE End(NoneScope) /\ ~ \E i \in DOMAIN made : made[i].whole
    <3>1. NoneScope # TenantScope /\ NoneScope.roots = << >> /\ NoneScope.kind # "tenant"
      BY DEF NoneScope, TenantScope
    <3> QED
      BY <2>1, <2>3, <3>1, EmptySorted, EndOrder
  <2>4. CASE phase' = "merge" /\ compacted' = << >> /\ UNCHANGED <<grants, made, result>>
    BY <2>1, <2>4, LoopOrder
  <2> QED
    BY <1>5, <2>2, <2>3, <2>4 DEF Merge
<1>6. CASE Merged
  <2> DEFINE scope == PathsScope(compacted)
  <2>1. phase = "merge" /\ End(scope)
    BY <1>6 DEF Merged
  <2>2. Len(made) = Len(grants) /\ \A i \in DOMAIN made : ~ made[i].whole
    BY <1>0, <2>1 DEF ControlInv
  <2>3. scope # TenantScope /\ scope.roots = compacted /\ scope.kind # "tenant"
    BY DEF PathsScope, TenantScope
  <2>4. Sorted(compacted)
    BY DEF OrderInv
  <2> HIDE DEF scope
  <2> QED
    BY <2>1, <2>2, <2>3, <2>4, EndOrder
<1>7. CASE \E p \in todo : Take(p)
  BY <1>7, TakeOrder
<1> QED
  BY <1>1, <1>2, <1>3, <1>4, <1>5, <1>6, <1>7 DEF Next

LEMMA OrderHolds == Spec => [](Inv /\ OrderInv)
<1>1. OrderInv /\ UNCHANGED vars => OrderInv'
  BY DEF OrderInv, vars
<1>2. Inv /\ OrderInv /\ [Next]_vars => OrderInv'
  BY <1>1, OrderStep
<1> QED
  BY Invariance, OrderInit, <1>2, PTL DEF Spec

(* The roots of a grant that was made are the topmost of those it was given.*)
LEMMA MadeTopmost ==
  ASSUME Inv, OrderInv, NEW i \in DOMAIN made
  PROVE  Agrees(made[i].whole, made[i].roots, Granted(grants[i]))
<1>1. /\ TypeInv /\ ControlInv /\ MadeInv
      /\ Sorted(made[i].roots)
      /\ made[i].whole => made[i].roots = << >>
      /\ made[i].whole <=> grants[i].whole
  BY DEF Inv, OrderInv
<1>2. /\ i \in DOMAIN grants /\ grants[i] \in Grant
      /\ made[i] \in [whole : BOOLEAN, roots : Seq(Roots)]
  <2>1. i \in DOMAIN grants
    BY <1>1 DEF TypeInv, ControlInv
  <2> QED
    BY <1>1, <2>1, ElementType DEF TypeInv
<1>3. CASE made[i].whole
  <2>1. Segments(Range(made[i].roots)) = {}
    BY <1>1, <1>3, EmptyRange DEF Segments
  <2>2. Granted(grants[i]) = [whole |-> TRUE, roots |-> {}]
    BY <1>1, <1>3 DEF Granted, Scopes!TenantScope
  <2>3. made[i].whole = TRUE
    BY <1>2, <1>3
  <2> QED
    BY <1>1, <2>1, <2>2, <2>3 DEF Agrees
<1>4. CASE ~ made[i].whole
  <2> DEFINE roots == Range(made[i].roots)
             given == Parsed(grants[i].texts)
  <2>1. roots \in SUBSET Bytes /\ given \in SUBSET Bytes
    <3>1. grants[i].texts \in SUBSET Bytes
      BY <1>2, TextsAssumption DEF Grant, Bytes
    <3> QED
      BY <1>1, <3>1, MadeRoots, ParsedType DEF Roots
  <2>2. \A p, q \in roots : Below(p, q) => p = q
    BY <1>1 DEF MadeInv, NoneBelow, Range
  <2>3. \A target \in Bytes :
          (\E p \in roots : Below(target, p)) <=> (\E p \in given : Below(target, p))
    <3> TAKE target \in Bytes
    <3>1. Covers(roots, target) <=> GrantCovers(grants[i], target)
      BY <1>1, <1>4 DEF MadeInv
    <3>2. Covers(roots, target) <=> \E p \in roots : Below(target, p)
      BY <2>1, AllowsIsBelow DEF Covers
    <3> QED
      BY <1>1, <1>4, <3>1, <3>2 DEF GrantCovers
  <2> HIDE DEF roots, given
  <2>4. roots = Topmost(given)
    BY <2>1, <2>2, <2>3, SameCover
  <2>5. Granted(grants[i]) = [whole |-> FALSE, roots |-> Segments(roots)]
    BY <1>1, <1>4, <2>1, <2>4, CompactBySegments DEF Granted, Scopes!Paths, given
  <2>6. made[i].whole = FALSE
    BY <1>2, <1>4
  <2> QED
    BY <1>1, <2>5, <2>6 DEF Agrees, roots
<1> QED
  BY <1>3, <1>4

(* The merged scope is that of all the grants.                              *)
LEMMA MergedTopmost ==
  ASSUME Inv, OrderInv, phase = "done", result # Error
  PROVE  Agrees(result = TenantScope, result.roots,
                Scopes!merge({Granted(grants[i]) : i \in DOMAIN grants}))
<1> DEFINE scopes == {Granted(grants[i]) : i \in DOMAIN grants}
<1>1. /\ TypeInv /\ Len(made) = Len(grants) /\ Sorted(result.roots)
      /\ result = TenantScope <=> \E i \in DOMAIN made : made[i].whole
      /\ ResultInv
  BY DEF Inv, OrderInv
<1>2. DOMAIN made = DOMAIN grants
  BY <1>1 DEF TypeInv
<1>3. \A i \in DOMAIN grants :
        /\ Granted(grants[i]).whole = made[i].whole
        /\ Granted(grants[i]).roots = Segments(Range(made[i].roots))
  BY <1>2, MadeTopmost DEF Agrees
<1> HIDE DEF Granted
<1>4. CASE result = TenantScope
  <2>1. Scopes!merge(scopes) = [whole |-> TRUE, roots |-> {}]
    BY <1>1, <1>2, <1>3, <1>4 DEF Scopes!merge, Scopes!TenantScope
  <2>2. Segments(Range(result.roots)) = {}
    BY <1>4, EmptyRange DEF Segments, TenantScope
  <2> QED
    BY <1>1, <1>4, <2>1, <2>2 DEF Agrees
<1>5. CASE result # TenantScope
  <2> DEFINE roots == Range(result.roots)
  <2>1. \A i \in DOMAIN made : ~ made[i].whole
    BY <1>1, <1>5
  <2>2. AllRoots \in SUBSET Bytes /\ roots \in SUBSET Bytes
    <3>1. result \in [kind : Kinds, roots : Seq(Roots)]
      BY <1>1 DEF TypeInv
    <3>2. result.roots \in Seq(Roots)
      BY <3>1
    <3> QED
      BY <1>1, <2>1, <3>2, AllRootsCover DEF Roots, Range
  <2>3. UNION {s.roots : s \in scopes} = Segments(AllRoots)
    BY <1>2, <1>3 DEF Segments, AllRoots
  <2>4. Scopes!merge(scopes)
          = [whole |-> FALSE, roots |-> Scopes!compact_paths(Segments(AllRoots))]
    BY <1>2, <1>3, <2>1, <2>3 DEF Scopes!merge, Scopes!Paths
  <2>5. \A p, q \in roots : Below(p, q) => p = q
    BY <1>1 DEF ResultInv, NoneBelow, Range
  <2>6. \A target \in Bytes :
          (\E p \in roots : Below(target, p)) <=> (\E p \in AllRoots : Below(target, p))
    <3> TAKE target \in Bytes
    <3>1. allows_path(result, target) <=> Covers(AllRoots, target)
      BY <1>1, <2>1, AllRootsCover DEF ResultInv
    <3>2. result.kind # "tenant"
      BY <1>5 DEF OrderInv
    <3>3. Covers(AllRoots, target) <=> \E p \in AllRoots : Below(target, p)
      BY <2>2, AllowsIsBelow DEF Covers
    <3>4. allows_path(result, target) <=> \E p \in roots : Below(target, p)
      BY <2>2, <3>2, AllowsIsBelow DEF allows_path
    <3> QED
      BY <3>1, <3>3, <3>4
  <2> HIDE DEF roots
  <2>7. roots = Topmost(AllRoots)
    BY <2>2, <2>5, <2>6, SameCover
  <2>8. (result = TenantScope) = FALSE
    BY <1>5
  <2> QED
    BY <1>1, <2>2, <2>4, <2>7, <2>8, CompactBySegments DEF Agrees, roots
<1> QED
  BY <1>4, <1>5

(* The scopes of AccessScopes, by which the engines decide, are what comes  *)
(* of texts that are parsed, sorted, compacted, stored and merged.          *)
THEOREM ScopesAreEqual == Spec => []ScopesAgree
<1>1. Inv /\ OrderInv => ScopesAgree
  BY MadeTopmost, MergedTopmost DEF ScopesAgree
<1> QED
  BY OrderHolds, <1>1, PTL
===============================================================================
