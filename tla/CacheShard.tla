------------------------------ MODULE CacheShard ------------------------------
(***************************************************************************)
(* One shard of the in-memory cache (CacheState in src/memory_cache.rs):   *)
(* a hash map from cache keys to entries and a deque of keys in order of   *)
(* use, least recently used first.  The operators are the private helpers  *)
(* that run under the shard's lock, each from a shard state to the next.   *)
(* A map is a function on the set of its keys, a deque is a sequence.      *)
(***************************************************************************)
EXTENDS Naturals, Sequences, FiniteSets, FiniteSetsExt, Functions

CONSTANT NoTtl   \* the ttl of a handle that was given none (Option::None)

EmptyShard == [entries |-> [k \in {} |-> k], order |-> << >>]

(* VecDeque::retain: the elements of q that lie in S, in their order.  The  *)
(* j-th of them is at the position that has exactly j kept positions up to  *)
(* and including itself.                                                    *)
KeptAt(q, S) == {i \in 1 .. Len(q) : q[i] \in S}
Rank(I, i) == Cardinality({h \in I : h <= i})
Retain(q, S) ==
  LET I == KeptAt(q, S)
  IN  [j \in 1 .. Cardinality(I) |-> q[CHOOSE i \in I : Rank(I, i) = j]]

IsBack(q, k) == q # << >> /\ q[Len(q)] = k
Before(q, a, b) == \E i, j \in 1 .. Len(q) : i < j /\ q[i] = a /\ q[j] = b

(* Instant::saturating_duration_since: no time has passed since an instant  *)
(* that is later than now.                                                  *)
Elapsed(now, since) == IF now >= since THEN now - since ELSE 0
is_expired(entry, ttl, now) ==
  /\ ttl # NoTtl
  /\ Elapsed(now, entry.updated_at) > ttl

(* HashMap::retain followed by VecDeque::retain(contains_key).              *)
KeepOnly(st, S) ==
  LET kept == DOMAIN st.entries \cap S
  IN  [entries |-> Restrict(st.entries, kept), order |-> Retain(st.order, kept)]

RemoveAll(st, S) == KeepOnly(st, DOMAIN st.entries \ S)

remove_key(st, k) ==
  IF k \in DOMAIN st.entries
  THEN [entries |-> Restrict(st.entries, DOMAIN st.entries \ {k}),
        order   |-> Retain(st.order, Range(st.order) \ {k})]
  ELSE st

(* Variant: the key is pushed without being taken out first.                *)
MoveToBack_duplicates(q, k) == IF IsBack(q, k) THEN q ELSE Append(q, k)

MoveToBack(q, k) ==
  IF IsBack(q, k) THEN q ELSE Append(Retain(q, Range(q) \ {k}), k)

(* Variant: first in, first out; only new keys are pushed.                  *)
touch_new_only(st, k) ==
  [entries |-> st.entries,
   order   |-> IF k \in Range(st.order) THEN st.order ELSE Append(st.order, k)]

touch(st, k) == [entries |-> st.entries, order |-> MoveToBack(st.order, k)]

prune_expired(st, ttl, now) ==
  IF ttl = NoTtl
  THEN st
  ELSE KeepOnly(st, {k \in DOMAIN st.entries : ~ is_expired(st.entries[k], ttl, now)})

insert(st, k, entry) ==
  [entries |-> [x \in DOMAIN st.entries \cup {k} |->
                  IF x = k THEN entry ELSE st.entries[x]],
   order   |-> st.order]

(* The loop pops keys off the front until the entries fit; it stops early   *)
(* only when the deque runs empty.                                          *)
PopFront(st, n) ==
  [entries |-> Restrict(st.entries, DOMAIN st.entries \ {st.order[i] : i \in 1 .. n}),
   order   |-> SubSeq(st.order, n + 1, Len(st.order))]

(* Variants: one entry too many is kept; room is made at the other end, the *)
(* entries used last before the new one going first.                        *)
evict_one_late(st, capacity) ==
  LET enough == {n \in 0 .. Len(st.order) :
                   Cardinality(DOMAIN PopFront(st, n).entries) <= capacity + 1}
  IN  IF capacity = 0 THEN EmptyShard ELSE PopFront(st, Min(enough))
evict_most_recent(st, capacity) ==
  KeepOnly(st, {st.order[i] : i \in {j \in 1 .. Len(st.order) :
                                       j < capacity \/ j = Len(st.order)}})

evict_if_needed(st, capacity) ==
  LET enough == {n \in 0 .. Len(st.order) :
                   Cardinality(DOMAIN PopFront(st, n).entries) <= capacity}
  IN  IF capacity = 0 THEN EmptyShard
      ELSE PopFront(st, IF enough = {} THEN Len(st.order) ELSE Min(enough))

(* A shard's state: a map from keys in K to entries in V, a deque of keys.  *)
IsShard(st, K, V) ==
  /\ st \in [entries : {st.entries}, order : Seq(K)]
  /\ DOMAIN st.entries \subseteq K
  /\ st.entries \in [DOMAIN st.entries -> V]

(* What every locked section must leave behind: the deque lists each key of *)
(* the map exactly once, and nothing else.                                  *)
Coherent(st) ==
  /\ IsInjective(st.order)
  /\ Range(st.order) = DOMAIN st.entries
===============================================================================
