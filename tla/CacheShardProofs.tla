--------------------------- MODULE CacheShardProofs ---------------------------
(***************************************************************************)
(* Lemmas on the operators of CacheShard: what each section under a shard  *)
(* lock preserves of the shard's state, for every key set and capacity.    *)
(***************************************************************************)
EXTENDS CacheShard, SequenceLemmas, FiniteSetTheorems, SequenceTheorems, TLAPS

-------------------------------------------------------------------------------
(* Retain                                                                   *)

LEMMA RankMonotone ==
  ASSUME NEW I \in SUBSET Nat, IsFiniteSet(I), NEW i \in I, NEW k \in I, i < k
  PROVE  Rank(I, i) < Rank(I, k)
<1> DEFINE below(x) == {h \in I : h <= x}
<1>1. /\ IsFiniteSet(below(k)) /\ below(i) \in SUBSET below(k)
      /\ k \in below(k) /\ k \notin below(i)
  <2>1. i \in Nat /\ k \in Nat /\ \A h \in I : h \in Nat
    OBVIOUS
  <2>2. IsFiniteSet(below(k))
    BY FS_Subset
  <2>3. \A h \in below(i) : h \in below(k)
    BY <2>1
  <2>4. k \in below(k) /\ k \notin below(i)
    BY <2>1
  <2> QED
    BY <2>2, <2>3, <2>4
<1>2. /\ IsFiniteSet(below(i))
      /\ Cardinality(below(i)) <= Cardinality(below(k))
      /\ Cardinality(below(k)) # Cardinality(below(i))
  BY <1>1, FS_Subset
<1>3. Cardinality(below(i)) \in Nat /\ Cardinality(below(k)) \in Nat
  BY <1>1, <1>2, FS_CardinalityType
<1> QED
  BY <1>2, <1>3 DEF Rank

LEMMA RankRange ==
  ASSUME NEW I \in SUBSET Nat, IsFiniteSet(I), NEW i \in I
  PROVE  Rank(I, i) \in 1 .. Cardinality(I)
<1> DEFINE below == {h \in I : h <= i}
<1>1. below \in SUBSET I /\ i \in below
  OBVIOUS
<1>2. IsFiniteSet(below) /\ Cardinality(below) <= Cardinality(I)
  BY <1>1, FS_Subset
<1>3. Cardinality(below) \in Nat /\ Cardinality(I) \in Nat
  BY <1>2, FS_CardinalityType
<1>4. Cardinality(below) # 0
  BY <1>1, <1>2, FS_EmptySet
<1> QED
  BY <1>2, <1>3, <1>4 DEF Rank

(* Every rank up to the cardinality is taken: Rank is an injection into a   *)
(* set of the same cardinality.                                             *)
LEMMA RankOnto ==
  ASSUME NEW I \in SUBSET Nat, IsFiniteSet(I), NEW j \in 1 .. Cardinality(I)
  PROVE  \E i \in I : Rank(I, i) = j
<1> DEFINE f == [i \in I |-> Rank(I, i)]
           T == 1 .. Cardinality(I)
<1>1. Cardinality(I) \in Nat
  BY FS_CardinalityType
<1>2. IsFiniteSet(T) /\ Cardinality(T) = Cardinality(I)
  BY <1>1, FS_Interval
<1>3. f \in [I -> T]
  BY RankRange
<1>4. \A a, b \in I : f[a] = f[b] => a = b
  <2> SUFFICES ASSUME NEW a \in I, NEW b \in I, a # b
               PROVE  Rank(I, a) # Rank(I, b)
    OBVIOUS
  <2>1. CASE a < b
    BY <2>1, RankMonotone, RankRange, <1>1
  <2>2. CASE b < a
    BY <2>2, RankMonotone, RankRange, <1>1
  <2> QED
    BY <2>1, <2>2
<1>5. f \in Injection(I, T)
  BY <1>3, <1>4 DEF Injection, IsInjective
<1>6. f \in Surjection(I, T)
  BY <1>2, <1>5, FS_Injection
<1> QED
  BY <1>6 DEF Surjection

LEMMA RetainPositions ==
  ASSUME NEW T, NEW q \in Seq(T), NEW S
  PROVE  /\ KeptAt(q, S) \in SUBSET Nat
         /\ IsFiniteSet(KeptAt(q, S))
         /\ Cardinality(KeptAt(q, S)) \in Nat
         /\ KeptAt(q, S) \subseteq 1 .. Len(q)
<1>1. KeptAt(q, S) \subseteq 1 .. Len(q)
  BY DEF KeptAt
<1>2. IsFiniteSet(1 .. Len(q))
  BY FS_Interval
<1> QED
  BY <1>1, <1>2, FS_Subset, FS_CardinalityType

(* The j-th element kept is the one at the kept position of rank j.         *)
LEMMA RetainElement ==
  ASSUME NEW T, NEW q \in Seq(T), NEW S, NEW j \in 1 .. Cardinality(KeptAt(q, S))
  PROVE  \E i \in KeptAt(q, S) : Rank(KeptAt(q, S), i) = j /\ Retain(q, S)[j] = q[i]
<1> DEFINE I == KeptAt(q, S)
           i == CHOOSE x \in I : Rank(I, x) = j
<1>1. \E x \in I : Rank(I, x) = j
  BY RetainPositions, RankOnto
<1>2. i \in I /\ Rank(I, i) = j
  BY <1>1
<1>3. Retain(q, S)[j] = q[i]
  BY DEF Retain
<1> QED
  BY <1>2, <1>3

(* Retain returns a sequence of exactly the elements of q that lie in S.    *)
LEMMA RetainSeq ==
  ASSUME NEW T, NEW q \in Seq(T), NEW S
  PROVE  /\ Retain(q, S) \in Seq(T)
         /\ Len(Retain(q, S)) = Cardinality(KeptAt(q, S))
         /\ DOMAIN Retain(q, S) = 1 .. Cardinality(KeptAt(q, S))
<1> DEFINE n == Cardinality(KeptAt(q, S))
<1>1. n \in Nat
  BY RetainPositions
<1>2. DOMAIN Retain(q, S) = 1 .. n
  BY DEF Retain
<1>3. \A j \in 1 .. n : Retain(q, S)[j] \in T
  BY RetainElement, RetainPositions
<1>4. Retain(q, S) \in [1 .. n -> T]
  BY <1>2, <1>3 DEF Retain
<1> QED
  BY <1>1, <1>2, <1>4

LEMMA RetainRange ==
  ASSUME NEW T, NEW q \in Seq(T), NEW S
  PROVE  Range(Retain(q, S)) = Range(q) \cap S
<1> DEFINE I == KeptAt(q, S)
<1>1. ASSUME NEW x \in Range(Retain(q, S)) PROVE x \in Range(q) \cap S
  <2>1. PICK j \in 1 .. Cardinality(I) : x = Retain(q, S)[j]
    BY RetainSeq DEF Range
  <2>2. PICK i \in I : x = q[i]
    BY <2>1, RetainElement
  <2> QED
    BY <2>2 DEF Range, KeptAt
<1>2. ASSUME NEW x \in Range(q), x \in S PROVE x \in Range(Retain(q, S))
  <2>1. PICK i \in I : x = q[i]
    BY <1>2 DEF Range, KeptAt
  <2>2. Rank(I, i) \in 1 .. Cardinality(I)
    BY RetainPositions, RankRange
  <2>3. PICK k \in I : Rank(I, k) = Rank(I, i) /\ Retain(q, S)[Rank(I, i)] = q[k]
    BY <2>2, RetainElement
  <2>4. k = i
    <3>1. k \in Nat /\ i \in Nat /\ IsFiniteSet(I) /\ I \in SUBSET Nat
      BY RetainPositions
    <3>2. ~ (k < i) /\ ~ (i < k)
      BY <2>2, <2>3, <3>1, RankMonotone, RetainPositions
    <3> QED
      BY <3>1, <3>2
  <2> QED
    BY <2>1, <2>2, <2>3, <2>4, RetainSeq DEF Range
<1> QED
  BY <1>1, <1>2

LEMMA RetainInjective ==
  ASSUME NEW T, NEW q \in Seq(T), NEW S, IsInjective(q)
  PROVE  IsInjective(Retain(q, S))
<1> DEFINE I == KeptAt(q, S)
<1> SUFFICES ASSUME NEW a \in 1 .. Cardinality(I), NEW b \in 1 .. Cardinality(I),
                    Retain(q, S)[a] = Retain(q, S)[b]
             PROVE  a = b
  BY RetainSeq DEF IsInjective
<1>1. PICK i \in I : Rank(I, i) = a /\ Retain(q, S)[a] = q[i]
  BY RetainElement
<1>2. PICK k \in I : Rank(I, k) = b /\ Retain(q, S)[b] = q[k]
  BY RetainElement
<1>3. i \in DOMAIN q /\ k \in DOMAIN q /\ q[i] = q[k]
  <2>1. q[i] = q[k]
    BY <1>1, <1>2
  <2>2. DOMAIN q = 1 .. Len(q)
    OBVIOUS
  <2> QED
    BY <2>1, <2>2 DEF KeptAt
<1>4. i = k
  BY <1>3 DEF IsInjective
<1> QED
  BY <1>1, <1>2, <1>4

-------------------------------------------------------------------------------
(* Shard states.                                                            *)

(* What a section leaves for its callers: a coherent shard of the same kind. *)
Sound(st, K, V) == IsShard(st, K, V) /\ Coherent(st)

LEMMA EmptyShardSound ==
  ASSUME NEW K, NEW V
  PROVE  Sound(EmptyShard, K, V) /\ DOMAIN EmptyShard.entries = {}
<1>1. Range(EmptyShard.order) = {} /\ IsInjective(EmptyShard.order)
  BY DEF EmptyShard, Range, IsInjective
<1>2. IsShard(EmptyShard, K, V)
  BY DEF EmptyShard, IsShard
<1> QED
  BY <1>1, <1>2 DEF EmptyShard, Sound, Coherent

(* HashMap::retain with VecDeque::retain keeps a shard coherent and keeps   *)
(* exactly the selected entries, unchanged.                                 *)
LEMMA KeepOnlySound ==
  ASSUME NEW K, NEW V, NEW st, Sound(st, K, V), NEW S
  PROVE  /\ Sound(KeepOnly(st, S), K, V)
         /\ DOMAIN KeepOnly(st, S).entries = DOMAIN st.entries \cap S
         /\ \A k \in DOMAIN st.entries \cap S : KeepOnly(st, S).entries[k] = st.entries[k]
<1> DEFINE kept == DOMAIN st.entries \cap S
           out == KeepOnly(st, S)
<1>1. st.order \in Seq(K) /\ IsInjective(st.order) /\ Range(st.order) = DOMAIN st.entries
  BY DEF Sound, IsShard, Coherent
<1>2. out.entries = [k \in kept |-> st.entries[k]] /\ out.order = Retain(st.order, kept)
      /\ out = [entries |-> out.entries, order |-> out.order]
  BY DEF KeepOnly, Restrict
<1>3. Range(out.order) = kept
  BY <1>1, <1>2, RetainRange
<1>4. IsInjective(out.order) /\ out.order \in Seq(K)
  BY <1>1, <1>2, RetainInjective, RetainSeq
<1>5. IsShard(out, K, V)
  BY <1>2, <1>4 DEF Sound, IsShard
<1> QED
  BY <1>2, <1>3, <1>4, <1>5 DEF Sound, Coherent

LEMMA RemoveAllSound ==
  ASSUME NEW K, NEW V, NEW st, Sound(st, K, V), NEW S
  PROVE  /\ Sound(RemoveAll(st, S), K, V)
         /\ DOMAIN RemoveAll(st, S).entries = DOMAIN st.entries \ S
         /\ \A k \in DOMAIN st.entries \ S : RemoveAll(st, S).entries[k] = st.entries[k]
BY KeepOnlySound DEF RemoveAll

LEMMA PruneSound ==
  ASSUME NEW K, NEW V, NEW st, Sound(st, K, V), NEW ttl, NEW now
  PROVE  /\ Sound(prune_expired(st, ttl, now), K, V)
         /\ DOMAIN prune_expired(st, ttl, now).entries \subseteq DOMAIN st.entries
         /\ \A k \in DOMAIN prune_expired(st, ttl, now).entries :
              prune_expired(st, ttl, now).entries[k] = st.entries[k]
<1> DEFINE S == {k \in DOMAIN st.entries : ~ is_expired(st.entries[k], ttl, now)}
<1>1. CASE ttl = NoTtl
  BY <1>1 DEF prune_expired
<1>2. CASE ttl # NoTtl
  <2>1. prune_expired(st, ttl, now) = KeepOnly(st, S)
    BY <1>2 DEF prune_expired
  <2> HIDE DEF S
  <2> QED
    BY <2>1, KeepOnlySound
<1> QED
  BY <1>1, <1>2

LEMMA RemoveKeySound ==
  ASSUME NEW K, NEW V, NEW st, Sound(st, K, V), NEW k
  PROVE  /\ Sound(remove_key(st, k), K, V)
         /\ DOMAIN remove_key(st, k).entries = DOMAIN st.entries \ {k}
         /\ \A x \in DOMAIN st.entries \ {k} :
              remove_key(st, k).entries[x] = st.entries[x]
<1> DEFINE out == remove_key(st, k)
           kept == DOMAIN st.entries \ {k}
<1>1. st.order \in Seq(K) /\ IsInjective(st.order) /\ Range(st.order) = DOMAIN st.entries
  BY DEF Sound, IsShard, Coherent
<1>2. CASE k \notin DOMAIN st.entries
  BY <1>2 DEF remove_key
<1>3. CASE k \in DOMAIN st.entries
  <2>1. out = [entries |-> [x \in kept |-> st.entries[x]], order |-> Retain(st.order, kept)]
    BY <1>1, <1>3 DEF remove_key, Restrict
  <2>2. out = KeepOnly(st, kept)
    BY <2>1 DEF KeepOnly, Restrict
  <2> QED
    BY <2>2, KeepOnlySound
<1> QED
  BY <1>2, <1>3

(* Moving k to the back keeps the deque free of duplicates and adds k to it  *)
(* if it was not there: it repairs the deque after an insert.                *)
LEMMA MoveToBackSound ==
  ASSUME NEW T, NEW q \in Seq(T), IsInjective(q), NEW k \in T
  PROVE  /\ MoveToBack(q, k) \in Seq(T)
         /\ IsInjective(MoveToBack(q, k))
         /\ Range(MoveToBack(q, k)) = Range(q) \cup {k}
<1> DEFINE r == Retain(q, Range(q) \ {k})
<1>1. CASE IsBack(q, k)
  <2>1. k \in Range(q)
    BY <1>1 DEF IsBack, Range
  <2> QED
    BY <1>1, <2>1 DEF MoveToBack
<1>2. CASE ~ IsBack(q, k)
  <2>1. r \in Seq(T) /\ IsInjective(r) /\ Range(r) = Range(q) \ {k}
    BY RetainSeq, RetainInjective, RetainRange
  <2>2. MoveToBack(q, k) = Append(r, k)
    BY <1>2 DEF MoveToBack
  <2>3. k \notin Range(r) /\ Range(r) \cup {k} = Range(q) \cup {k}
    BY <2>1
  <2> HIDE DEF r
  <2>4. /\ Append(r, k) \in Seq(T) /\ IsInjective(Append(r, k))
        /\ Range(Append(r, k)) = Range(r) \cup {k}
    BY <2>1, <2>3, AppendFresh
  <2> QED
    BY <2>2, <2>3, <2>4
<1> QED
  BY <1>1, <1>2

LEMMA TouchSound ==
  ASSUME NEW K, NEW V, NEW st, Sound(st, K, V), NEW k \in DOMAIN st.entries
  PROVE  /\ Sound(touch(st, k), K, V)
         /\ touch(st, k).entries = st.entries
<1>1. /\ st.order \in Seq(K) /\ IsInjective(st.order)
      /\ Range(st.order) = DOMAIN st.entries /\ k \in K
  BY DEF Sound, IsShard, Coherent
<1>2. /\ touch(st, k).entries = st.entries
      /\ touch(st, k).order = MoveToBack(st.order, k)
      /\ touch(st, k) \in [entries : {touch(st, k).entries}, order : {MoveToBack(st.order, k)}]
  BY DEF touch
<1>3. /\ MoveToBack(st.order, k) \in Seq(K) /\ IsInjective(MoveToBack(st.order, k))
      /\ Range(MoveToBack(st.order, k)) = Range(st.order)
  <2> DEFINE q == st.order
  <2>1. q \in Seq(K) /\ IsInjective(q) /\ k \in K /\ Range(q) \cup {k} = Range(q)
    BY <1>1
  <2> HIDE DEF q
  <2>2. /\ MoveToBack(q, k) \in Seq(K) /\ IsInjective(MoveToBack(q, k))
        /\ Range(MoveToBack(q, k)) = Range(q) \cup {k}
    BY <2>1, MoveToBackSound
  <2> QED
    BY <2>1, <2>2 DEF q
<1>4. IsShard(touch(st, k), K, V)
  BY <1>2, <1>3 DEF Sound, IsShard
<1> QED
  BY <1>1, <1>2, <1>3, <1>4 DEF Sound, Coherent

LEMMA InsertTouchSound ==
  ASSUME NEW K, NEW V, NEW st, Sound(st, K, V), NEW k \in K, NEW e \in V
  PROVE  LET out == touch(insert(st, k, e), k) IN
         /\ Sound(out, K, V)
         /\ DOMAIN out.entries = DOMAIN st.entries \cup {k}
         /\ out.entries[k] = e
         /\ \A x \in DOMAIN st.entries \ {k} : out.entries[x] = st.entries[x]
<1> DEFINE map == [x \in DOMAIN st.entries \cup {k} |-> IF x = k THEN e ELSE st.entries[x]]
           back == MoveToBack(st.order, k)
           out == touch(insert(st, k, e), k)
<1>1. /\ st.order \in Seq(K) /\ IsInjective(st.order)
      /\ Range(st.order) = DOMAIN st.entries /\ DOMAIN st.entries \subseteq K
      /\ st.entries \in [DOMAIN st.entries -> V]
  BY DEF Sound, IsShard, Coherent
<1>2. out = [entries |-> map, order |-> back]
  BY DEF insert, touch
<1>3. /\ back \in Seq(K) /\ IsInjective(back)
      /\ Range(back) = DOMAIN st.entries \cup {k}
  BY <1>1, MoveToBackSound
<1>4. map \in [DOMAIN map -> V] /\ DOMAIN map = DOMAIN st.entries \cup {k}
  BY <1>1
<1> HIDE DEF back
<1>5. IsShard(out, K, V)
  BY <1>1, <1>2, <1>3, <1>4 DEF IsShard
<1>6. Sound(out, K, V)
  BY <1>2, <1>3, <1>4, <1>5 DEF Sound, Coherent
<1> QED
  BY <1>2, <1>4, <1>6

-------------------------------------------------------------------------------
(* Eviction                                                                 *)

(* A nonempty set of naturals has a least element.                          *)
LEMMA NatMin ==
  ASSUME NEW S \in SUBSET Nat, S # {}
  PROVE  Min(S) \in S /\ \A x \in S : Min(S) <= x
  BY SmallestNat DEF Min

(* Popping n keys off the front removes exactly those keys' entries.        *)
LEMMA PopFrontSound ==
  ASSUME NEW K, NEW V, NEW st, Sound(st, K, V), NEW n \in 0 .. Len(st.order)
  PROVE  /\ Sound(PopFront(st, n), K, V)
         /\ DOMAIN PopFront(st, n).entries = DOMAIN st.entries \ {st.order[i] : i \in 1 .. n}
         /\ \A x \in DOMAIN PopFront(st, n).entries :
              PopFront(st, n).entries[x] = st.entries[x]
<1> DEFINE q == st.order
           gone == {q[i] : i \in 1 .. n}
           r == SubSeq(q, n + 1, Len(q))
           out == PopFront(st, n)
<1>1. /\ q \in Seq(K) /\ IsInjective(q) /\ Len(q) \in Nat /\ DOMAIN q = 1 .. Len(q)
      /\ Range(q) = DOMAIN st.entries
  BY DEF Sound, IsShard, Coherent
<1>2. /\ out.entries = [x \in DOMAIN st.entries \ gone |-> st.entries[x]]
      /\ out.order = r
      /\ out = [entries |-> out.entries, order |-> out.order]
  BY DEF PopFront, Restrict
<1>3. /\ r \in Seq(K) /\ Len(r) = Len(q) - n /\ DOMAIN r = 1 .. Len(q) - n
      /\ \A i \in 1 .. Len(q) - n : r[i] = q[n + i]
  BY <1>1, SubSeqProperties
<1>4. IsInjective(r)
  <2> SUFFICES ASSUME NEW a \in 1 .. Len(q) - n, NEW b \in 1 .. Len(q) - n, r[a] = r[b]
               PROVE  a = b
    BY <1>3 DEF IsInjective
  <2>1. n + a \in DOMAIN q /\ n + b \in DOMAIN q /\ q[n + a] = q[n + b]
    BY <1>1, <1>3
  <2>2. n + a = n + b
    BY <1>1, <2>1 DEF IsInjective
  <2> QED
    BY <2>2
<1>5. Range(r) = DOMAIN st.entries \ gone
  <2>1. ASSUME NEW x \in Range(r) PROVE x \in Range(q) \ gone
    <3>1. PICK i \in 1 .. Len(q) - n : x = q[n + i]
      BY <1>3 DEF Range
    <3>2. n + i \in 1 .. Len(q) /\ \A j \in 1 .. n : j \in 1 .. Len(q) /\ j # n + i
      BY <1>1
    <3> QED
      BY <1>1, <3>1, <3>2 DEF Range, IsInjective
  <2>2. ASSUME NEW x \in Range(q) \ gone PROVE x \in Range(r)
    <3>1. PICK i \in 1 .. Len(q) : x = q[i]
      BY <1>1 DEF Range
    <3>2. i \notin 1 .. n
      BY <3>1
    <3>3. i - n \in 1 .. Len(q) - n /\ n + (i - n) = i
      BY <1>1, <3>2
    <3> QED
      BY <1>3, <3>1, <3>3 DEF Range
  <2> QED
    BY <1>1, <2>1, <2>2
<1>6. IsShard(out, K, V)
  BY <1>2, <1>3 DEF Sound, IsShard
<1> QED
  BY <1>2, <1>4, <1>5, <1>6 DEF Sound, Coherent

(* Eviction leaves a coherent shard within its capacity; what it keeps it   *)
(* leaves unchanged.                                                        *)
LEMMA EvictSound ==
  ASSUME NEW K, NEW V, NEW st, Sound(st, K, V), NEW capacity \in Nat
  PROVE  LET out == evict_if_needed(st, capacity) IN
         /\ Sound(out, K, V)
         /\ Cardinality(DOMAIN out.entries) <= capacity
         /\ DOMAIN out.entries \subseteq DOMAIN st.entries
         /\ \A x \in DOMAIN out.entries : out.entries[x] = st.entries[x]
<1> DEFINE enough == {n \in 0 .. Len(st.order) :
                        Cardinality(DOMAIN PopFront(st, n).entries) <= capacity}
           out == evict_if_needed(st, capacity)
<1>1. CASE capacity = 0
  <2>1. out = EmptyShard
    BY <1>1 DEF evict_if_needed
  <2> QED
    BY <1>1, <2>1, EmptyShardSound, FS_EmptySet
<1>2. CASE capacity # 0
  <2>1. /\ Len(st.order) \in Nat /\ DOMAIN st.order = 1 .. Len(st.order)
        /\ Range(st.order) = DOMAIN st.entries
    BY DEF Sound, IsShard, Coherent
  <2>2. Len(st.order) \in enough
    <3>1. DOMAIN PopFront(st, Len(st.order)).entries = {}
      BY <2>1, PopFrontSound DEF Range
    <3>2. Cardinality(DOMAIN PopFront(st, Len(st.order)).entries) = 0
      BY <3>1, FS_EmptySet
    <3> QED
      BY <2>1, <3>2
  <2>3. enough \in SUBSET Nat /\ enough # {}
    BY <2>1, <2>2
  <2>4. out = PopFront(st, Min(enough))
    BY <1>2, <2>3 DEF evict_if_needed
  <2>5. Min(enough) \in enough
    BY <2>3, NatMin
  <2>6. /\ Min(enough) \in 0 .. Len(st.order)
        /\ Cardinality(DOMAIN PopFront(st, Min(enough)).entries) <= capacity
    BY <2>5
  <2> HIDE DEF enough
  <2> QED
    BY <2>4, <2>6, PopFrontSound
<1> QED
  BY <1>1, <1>2

(* A coherent shard holds finitely many entries: its deque lists them all.  *)
LEMMA SoundFinite ==
  ASSUME NEW K, NEW V, NEW st, Sound(st, K, V)
  PROVE  IsFiniteSet(DOMAIN st.entries) /\ Cardinality(DOMAIN st.entries) \in Nat
<1> DEFINE q == st.order
<1>1. q \in Seq(K) /\ Range(q) = DOMAIN st.entries
  BY DEF Sound, IsShard, Coherent
<1>2. q \in Surjection(1 .. Len(q), Range(q))
  BY <1>1 DEF Surjection, Range
<1>3. IsFiniteSet(1 .. Len(q))
  BY <1>1, FS_Interval
<1>4. IsFiniteSet(Range(q))
  BY <1>2, <1>3, FS_Surjection
<1> QED
  BY <1>1, <1>4, FS_CardinalityType

-------------------------------------------------------------------------------
(* The order of the deque.                                                  *)

(* Retain keeps the order of what it keeps, and adds none.                  *)
LEMMA RetainOrder ==
  ASSUME NEW T, NEW q \in Seq(T), NEW S, NEW a, NEW b
  PROVE  Before(Retain(q, S), a, b) <=> Before(q, a, b) /\ a \in S /\ b \in S
<1> DEFINE I == KeptAt(q, S)
           r == Retain(q, S)
<1>1. /\ I \in SUBSET Nat /\ IsFiniteSet(I) /\ Cardinality(I) \in Nat
      /\ I \subseteq 1 .. Len(q) /\ Len(q) \in Nat
  BY RetainPositions
<1>2. Len(r) = Cardinality(I)
  BY RetainSeq
<1>3. \A j \in 1 .. Cardinality(I) : \E i \in I : Rank(I, i) = j /\ r[j] = q[i]
  BY RetainElement
<1>4. \A i \in I : Rank(I, i) \in 1 .. Cardinality(I)
  BY <1>1, RankRange
<1>5. \A h, i \in I : h < i => Rank(I, h) < Rank(I, i)
  BY <1>1, RankMonotone
<1>6. \A i \in I : q[i] \in S
  BY DEF KeptAt
<1>7. \A i \in 1 .. Len(q) : q[i] \in S => i \in I
  BY DEF KeptAt
<1> HIDE DEF I, r
<1>8. ASSUME Before(r, a, b) PROVE Before(q, a, b) /\ a \in S /\ b \in S
  <2>1. PICK x, y \in 1 .. Cardinality(I) : x < y /\ r[x] = a /\ r[y] = b
    BY <1>2, <1>8 DEF Before
  <2>2. PICK h \in I : Rank(I, h) = x /\ r[x] = q[h]
    BY <1>3
  <2>3. PICK i \in I : Rank(I, i) = y /\ r[y] = q[i]
    BY <1>3
  <2>4. h \in Nat /\ i \in Nat /\ x \in Nat /\ y \in Nat
    BY <1>1
  <2>5. h < i
    <3>1. ~ (i < h)
      BY <1>5, <2>1, <2>2, <2>3, <2>4
    <3>2. h # i
      BY <2>1, <2>2, <2>3, <2>4
    <3> QED
      BY <2>4, <3>1, <3>2
  <2> QED
    BY <1>1, <1>6, <2>1, <2>2, <2>3, <2>5 DEF Before
<1>9. ASSUME Before(q, a, b), a \in S, b \in S PROVE Before(r, a, b)
  <2>1. PICK h, i \in 1 .. Len(q) : h < i /\ q[h] = a /\ q[i] = b
    BY <1>9 DEF Before
  <2>2. h \in I /\ i \in I
    BY <1>7, <1>9, <2>1
  <2>3. ASSUME NEW x \in I PROVE r[Rank(I, x)] = q[x]
    <3>1. PICK y \in I : Rank(I, y) = Rank(I, x) /\ r[Rank(I, x)] = q[y]
      BY <1>3, <1>4
    <3>2. y = x
      <4>1. y \in Nat /\ x \in Nat /\ Rank(I, x) \in Nat
        BY <1>1, <1>4
      <4>2. ~ (y < x) /\ ~ (x < y)
        BY <1>5, <3>1, <4>1
      <4> QED
        BY <4>1, <4>2
    <3> QED
      BY <3>1, <3>2
  <2>4. Rank(I, h) < Rank(I, i) /\ r[Rank(I, h)] = a /\ r[Rank(I, i)] = b
    BY <1>5, <2>1, <2>2, <2>3
  <2> QED
    BY <1>2, <1>4, <2>2, <2>4 DEF Before
<1> QED
  BY <1>8, <1>9 DEF r

(* Moving k to the back changes the order of no two other keys, and never   *)
(* puts k before another.                                                   *)
LEMMA MoveToBackOrder ==
  ASSUME NEW T, NEW q \in Seq(T), NEW k \in T
  PROVE  /\ IsBack(MoveToBack(q, k), k)
         /\ \A a, b : Before(q, a, b) /\ a # k => Before(MoveToBack(q, k), a, b)
         /\ \A a, b : Before(MoveToBack(q, k), a, b) /\ b # k => Before(q, a, b)
<1>1. CASE IsBack(q, k)
  BY <1>1 DEF MoveToBack
<1>2. CASE ~ IsBack(q, k)
  <2> DEFINE r == Retain(q, Range(q) \ {k})
             m == MoveToBack(q, k)
  <2>1. r \in Seq(T) /\ m = Append(r, k)
    BY <1>2, RetainSeq DEF MoveToBack
  <2>2. \A a, b : Before(r, a, b) <=>
                    Before(q, a, b) /\ a \in Range(q) \ {k} /\ b \in Range(q) \ {k}
    BY RetainOrder
  <2>3. Range(r) = Range(q) \cap (Range(q) \ {k})
    BY RetainRange
  <2> HIDE DEF r, m
  <2>4. /\ Len(r) \in Nat /\ Len(m) = Len(r) + 1 /\ m[Len(r) + 1] = k /\ m # << >>
        /\ \A i \in 1 .. Len(r) : m[i] = r[i]
    BY <2>1
  <2>5. IsBack(m, k)
    BY <2>4 DEF IsBack
  <2>6. ASSUME NEW a, NEW b, Before(q, a, b), a # k PROVE Before(m, a, b)
    <3>1. a \in Range(q) /\ b \in Range(q)
      BY <2>6 DEF Before, Range
    <3>2. CASE b = k
      <4>1. a \in Range(r)
        BY <2>3, <2>6, <3>1
      <4>2. PICK i \in 1 .. Len(r) : r[i] = a
        BY <2>1, <4>1 DEF Range
      <4> QED
        BY <2>4, <3>2, <4>2 DEF Before
    <3>3. CASE b # k
      <4>1. Before(r, a, b)
        BY <2>2, <2>6, <3>1, <3>3
      <4>2. PICK i, j \in 1 .. Len(r) : i < j /\ r[i] = a /\ r[j] = b
        BY <4>1 DEF Before
      <4> QED
        BY <2>4, <4>2 DEF Before
    <3> QED
      BY <3>2, <3>3
  <2>7. ASSUME NEW a, NEW b, Before(m, a, b), b # k PROVE Before(q, a, b)
    <3>1. PICK i, j \in 1 .. Len(m) : i < j /\ m[i] = a /\ m[j] = b
      BY <2>7 DEF Before
    <3>2. i \in 1 .. Len(r) /\ j \in 1 .. Len(r)
      BY <2>4, <2>7, <3>1
    <3>3. Before(r, a, b)
      BY <2>4, <3>1, <3>2 DEF Before
    <3> QED
      BY <2>2, <3>3
  <2> QED
    BY <2>5, <2>6, <2>7 DEF m
<1> QED
  BY <1>1, <1>2

(* Popping from the front keeps the order of what is left.                  *)
LEMMA PopFrontOrder ==
  ASSUME NEW K, NEW V, NEW st, Sound(st, K, V), NEW n \in 0 .. Len(st.order),
         NEW a \in DOMAIN PopFront(st, n).entries, NEW b, Before(st.order, a, b)
  PROVE  Before(PopFront(st, n).order, a, b)
<1> DEFINE q == st.order
           r == SubSeq(q, n + 1, Len(q))
<1>1. q \in Seq(K) /\ Len(q) \in Nat
  BY DEF Sound, IsShard
<1>2. r = PopFront(st, n).order
  BY DEF PopFront
<1>3. /\ Len(r) = Len(q) - n
      /\ \A i \in 1 .. Len(q) - n : r[i] = q[n + i]
  BY <1>1, SubSeqProperties
<1>4. PICK i, j \in 1 .. Len(q) : i < j /\ q[i] = a /\ q[j] = b
  BY DEF Before
<1>5. a \notin {q[h] : h \in 1 .. n}
  BY PopFrontSound
<1>6. i \notin 1 .. n
  BY <1>4, <1>5
<1> HIDE DEF r
<1>7. /\ i - n \in 1 .. Len(r) /\ j - n \in 1 .. Len(r) /\ i - n < j - n
      /\ n + (i - n) = i /\ n + (j - n) = j
  BY <1>1, <1>3, <1>4, <1>6
<1>8. r[i - n] = a /\ r[j - n] = b
  BY <1>3, <1>4, <1>7
<1> QED
  BY <1>2, <1>7, <1>8 DEF Before

(* A shard with one entry too many loses the one at the front of its deque,  *)
(* the least recently used; one that fits loses nothing.                     *)
LEMMA EvictOne ==
  ASSUME NEW K, NEW V, NEW st, Sound(st, K, V), NEW capacity \in Nat \ {0},
         Cardinality(DOMAIN st.entries) <= capacity + 1
  PROVE  LET out == evict_if_needed(st, capacity) IN
         /\ \A a \in DOMAIN out.entries : \A b :
              Before(st.order, a, b) => Before(out.order, a, b)
         /\ \/ out.entries = st.entries /\ out.order = st.order
            \/ /\ Len(st.order) >= 2
               /\ DOMAIN out.entries = DOMAIN st.entries \ {st.order[1]}
               /\ Cardinality(DOMAIN out.entries) = capacity
               /\ out.order = SubSeq(st.order, 2, Len(st.order))
<1> DEFINE q == st.order
           fits(n) == Cardinality(DOMAIN PopFront(st, n).entries) <= capacity
           enough == {n \in 0 .. Len(st.order) : fits(n)}
           out == evict_if_needed(st, capacity)
<1>1. /\ q \in Seq(K) /\ Len(q) \in Nat /\ DOMAIN q = 1 .. Len(q) /\ IsInjective(q)
      /\ Range(q) = DOMAIN st.entries
  BY DEF Sound, IsShard, Coherent
<1>8. IsFiniteSet(DOMAIN st.entries) /\ Cardinality(DOMAIN st.entries) \in Nat
  BY SoundFinite
<1>2. enough \in SUBSET Nat
  OBVIOUS
<1>3. enough # {} => out = PopFront(st, Min(enough))
  BY DEF evict_if_needed
<1>4. \A n \in 0 .. Len(q) : DOMAIN PopFront(st, n).entries = DOMAIN st.entries \ {q[i] : i \in 1 .. n}
  BY PopFrontSound
<1>5. fits(0) <=> Cardinality(DOMAIN st.entries) <= capacity
  <2>1. {q[i] : i \in 1 .. 0} = {} /\ 0 \in 0 .. Len(q)
    BY <1>1
  <2>2. DOMAIN PopFront(st, 0).entries = DOMAIN st.entries
    BY <1>4, <2>1
  <2> QED
    BY <2>2
<1>6. CASE fits(0)
  <2>1. 0 \in enough
    BY <1>1, <1>6
  <2>2. Min(enough) = 0
    <3> HIDE DEF enough
    <3>1. Min(enough) \in enough /\ Min(enough) <= 0
      BY <1>2, <2>1, NatMin
    <3>2. Min(enough) \in Nat
      BY <1>2, <3>1
    <3> QED
      BY <3>1, <3>2
  <2>3. out = PopFront(st, 0)
    BY <1>3, <2>1, <2>2
  <2>4. \A a \in DOMAIN out.entries : \A b : Before(q, a, b) => Before(out.order, a, b)
    <3>1. 0 \in 0 .. Len(q)
      BY <1>1
    <3> QED
      BY <2>3, <3>1, PopFrontOrder
  <2>5. out.entries = st.entries
    <3>1. out.entries = [x \in DOMAIN st.entries \ {q[i] : i \in 1 .. 0} |-> st.entries[x]]
      BY <2>3 DEF PopFront, Restrict
    <3>2. st.entries = [x \in DOMAIN st.entries |-> st.entries[x]]
      BY DEF Sound, IsShard
    <3>3. DOMAIN st.entries \ {q[i] : i \in 1 .. 0} = DOMAIN st.entries
      OBVIOUS
    <3> QED
      BY <3>1, <3>2, <3>3
  <2>6. out.order = q
    <3>1. out.order = SubSeq(q, 1, Len(q))
      BY <2>3 DEF PopFront
    <3> QED
      BY <1>1, <3>1
  <2> QED
    BY <2>4, <2>5, <2>6
<1>7. CASE ~ fits(0)
  <2>1. Cardinality(DOMAIN st.entries) = capacity + 1
    BY <1>8, <1>5, <1>7
  <2>2. Len(q) >= 2
    <3> DEFINE n == Len(q)
               D == DOMAIN st.entries
    <3>1. n \in Nat /\ DOMAIN q = 1 .. n /\ Range(q) = D /\ Cardinality(D) >= 2
      BY <1>1, <2>1
    <3>2. n = 0 => D = {}
      BY <3>1 DEF Range
    <3>3. n = 1 => D = {q[1]}
      BY <3>1 DEF Range
    <3>4. Cardinality({}) = 0 /\ Cardinality({q[1]}) = 1
      BY FS_EmptySet, FS_Singleton
    <3> HIDE DEF n, D
    <3>5. (n = 0 => Cardinality(D) = 0) /\ (n = 1 => Cardinality(D) = 1)
      BY <3>2, <3>3, <3>4, Zenon
    <3> DEFINE size == Cardinality(D)
    <3>6. n \in Nat /\ size >= 2 /\ (n = 0 => size = 0) /\ (n = 1 => size = 1)
      BY <3>1, <3>5
    <3> HIDE DEF size
    <3>7. n >= 2
      BY <3>6
    <3> QED
      BY <3>7 DEF n
  <2>3. DOMAIN PopFront(st, 1).entries = DOMAIN st.entries \ {q[1]}
    <3>1. {q[i] : i \in 1 .. 1} = {q[1]}
      OBVIOUS
    <3> QED
      BY <1>4, <2>2, <3>1
  <2>4. Cardinality(DOMAIN PopFront(st, 1).entries) = capacity
    <3>1. q[1] \in DOMAIN st.entries
      BY <1>1, <2>2 DEF Range
    <3>2. \A S, x : IsFiniteSet(S) /\ x \in S => Cardinality(S \ {x}) = Cardinality(S) - 1
      BY FS_RemoveElement
    <3>3. Cardinality(DOMAIN st.entries \ {q[1]}) = Cardinality(DOMAIN st.entries) - 1
      BY <1>8, <3>1, <3>2, Zenon
    <3> QED
      BY <2>1, <2>3, <3>3
  <2>5. 1 \in enough /\ 0 \notin enough
    BY <1>7, <2>2, <2>4
  <2>6. Min(enough) = 1
    <3> HIDE DEF enough
    <3>1. Min(enough) \in enough /\ Min(enough) <= 1
      BY <1>2, <2>5, NatMin
    <3>2. Min(enough) \in Nat /\ Min(enough) # 0
      BY <1>2, <2>5, <3>1
    <3> QED
      BY <3>1, <3>2
  <2>7. out = PopFront(st, 1)
    BY <1>3, <2>5, <2>6
  <2>8. \A a \in DOMAIN out.entries : \A b : Before(q, a, b) => Before(out.order, a, b)
    <3>1. 1 \in 0 .. Len(q)
      BY <1>1, <2>2
    <3> QED
      BY <2>7, <3>1, PopFrontOrder
  <2>9. out.order = SubSeq(q, 2, Len(q))
    BY <2>7 DEF PopFront
  <2> QED
    BY <2>2, <2>3, <2>4, <2>7, <2>8, <2>9
<1> QED
  BY <1>6, <1>7
===============================================================================
