--------------------------- MODULE MemoryCacheProofs ---------------------------
(***************************************************************************)
(* Safety of MemoryCache for any number of clients, keys, shards and any   *)
(* capacity: an inductive invariant and what follows from it, what a step  *)
(* may do to the shards, and the refinement of LossyCache.                 *)
(***************************************************************************)
EXTENDS MemoryCache, CacheShardProofs

(* A key an invalidation still owes is one it targets, that is present, in  *)
(* a shard its sweep has yet to reach.                                      *)
OwedAhead ==
  \A c \in Clients :
    /\ call[c].op = "sweep" => call[c].next \in ShardIds
    /\ \A k \in owed[c] :
         /\ call[c].op = "sweep"
         /\ k \in call[c].target
         /\ ShardIndex(k) >= call[c].next
         /\ k \in DOMAIN shards[ShardIndex(k)].entries

ShardOK(s, st) ==
  /\ Sound(st, Keys, Entry)
  /\ \A k \in DOMAIN st.entries : ShardIndex(k) = s
  /\ Cardinality(DOMAIN st.entries) <= ShardCapacity(s)

Inv ==
  /\ TypeOK
  /\ \A s \in ShardIds : ShardOK(s, shards[s])
  /\ OwedAhead

-------------------------------------------------------------------------------
(* Constants                                                                *)

LEMMA ShardCountType == ShardCount \in Nat \ {0}
<1>1. CASE Capacity = 0
  BY <1>1 DEF ShardCount
<1>2. CASE Capacity # 0
  <2> DEFINE m == Max({RequestedShards, 1})
  <2>1. m \in {RequestedShards, 1} /\ m >= 1
    <3>1. CASE RequestedShards >= 1
      <4>1. \E x \in {RequestedShards, 1} : \A y \in {RequestedShards, 1} : x >= y
        BY <3>1, CapacityAssumption
      <4> QED
        BY <4>1 DEF Max
    <3>2. CASE ~ (RequestedShards >= 1)
      <4>1. \A y \in {RequestedShards, 1} : 1 >= y
        BY <3>2, CapacityAssumption
      <4> QED
        BY <4>1 DEF Max
    <3> QED
      BY <3>1, <3>2
  <2>2. m \in Nat \ {0} /\ Capacity \in Nat \ {0}
    BY <1>2, <2>1, CapacityAssumption
  <2>3. Min({m, Capacity}) \in {m, Capacity}
    BY <2>2, NatMin
  <2> QED
    BY <1>2, <2>2, <2>3 DEF ShardCount
<1> QED
  BY <1>1, <1>2

LEMMA ShardIndexType ==
  ASSUME NEW k \in Keys
  PROVE  ShardIndex(k) \in ShardIds
<1>1. Hash[k] \in Nat
  BY HashAssumption
<1> QED
  BY <1>1, ShardCountType DEF ShardIndex, ShardIds

LEMMA ShardCapacityType ==
  ASSUME NEW s \in ShardIds
  PROVE  ShardCapacity(s) \in Nat
<1>1. Capacity \div ShardCount \in Nat
  BY ShardCountType, CapacityAssumption
<1> QED
  BY <1>1 DEF ShardCapacity

-------------------------------------------------------------------------------
(* What a section must establish about the one shard it writes.             *)

LEMMA RemovalOK ==
  ASSUME NEW s \in ShardIds, NEW old, ShardOK(s, old), NEW st, Sound(st, Keys, Entry),
         DOMAIN st.entries \subseteq DOMAIN old.entries
  PROVE  ShardOK(s, st)
<1>1. IsFiniteSet(DOMAIN old.entries) /\ Cardinality(DOMAIN old.entries) \in Nat
  BY SoundFinite DEF ShardOK
<1>2. Cardinality(DOMAIN st.entries) <= Cardinality(DOMAIN old.entries)
  BY <1>1, FS_Subset
<1>3. Cardinality(DOMAIN st.entries) \in Nat
  BY SoundFinite
<1> QED
  BY <1>1, <1>2, <1>3, ShardCapacityType DEF ShardOK

(* Keys still owed after a section were owed before it and have kept their  *)
(* entry: what the section removed or overwrote is owed no longer.          *)
LEMMA UpdateKeeps ==
  ASSUME Inv, NEW s \in ShardIds, NEW st, ShardOK(s, st),
         NEW written, Update(s, st, written)
  PROVE  /\ clock' \in Nat
         /\ DOMAIN shards' = ShardIds
         /\ \A r \in ShardIds : ShardOK(r, shards'[r]) /\ IsShard(shards'[r], Keys, Entry)
         /\ owed' \in [Clients -> SUBSET Keys]
         /\ \A c \in Clients : \A k \in owed'[c] :
              k \in owed[c] /\ k \in DOMAIN shards'[ShardIndex(k)].entries
<1>1. clock' \in Nat
  BY DEF Update, Inv, TypeOK
<1>2. /\ DOMAIN shards' = ShardIds /\ shards'[s] = st
      /\ \A r \in ShardIds \ {s} : shards'[r] = shards[r]
  BY DEF Update, Inv, TypeOK
<1>3. \A r \in ShardIds : ShardOK(r, shards'[r])
  BY <1>2 DEF Inv
<1>4. \A r \in ShardIds : IsShard(shards'[r], Keys, Entry)
  BY <1>3 DEF ShardOK, Sound
<1>5. \A c \in Clients :
        owed'[c] = owed[c] \ (written \cup (DOMAIN shards[s].entries \ DOMAIN st.entries))
  BY DEF Update
<1>6. owed' \in [Clients -> SUBSET Keys]
  BY <1>5 DEF Update, Inv, TypeOK
<1>7. ASSUME NEW c \in Clients, NEW k \in owed'[c]
      PROVE  k \in owed[c] /\ k \in DOMAIN shards'[ShardIndex(k)].entries
  <2>1. k \in owed[c] /\ ~ (k \in DOMAIN shards[s].entries /\ k \notin DOMAIN st.entries)
    BY <1>5, <1>7
  <2>2. k \in Keys /\ k \in DOMAIN shards[ShardIndex(k)].entries
    BY <2>1 DEF Inv, TypeOK, OwedAhead
  <2>3. ShardIndex(k) \in ShardIds
    BY <2>2, ShardIndexType
  <2> QED
    BY <1>2, <2>1, <2>2, <2>3
<1> QED
  BY <1>1, <1>2, <1>3, <1>4, <1>6, <1>7

(* A return ends the call of c alone.                                       *)
LEMMA ReturnInv ==
  ASSUME Inv, NEW c \in Clients, NEW answer \in Grants \cup {Miss}, Return(c, answer)
  PROVE  /\ call' \in [Clients -> IdleCall \cup GetCall \cup SetCall \cup SweepCall]
         /\ returned' \in [Clients -> Grants \cup {Miss}]
         /\ call'[c] = Idle /\ \A d \in Clients \ {c} : call'[d] = call[d]
BY DEF Return, Inv, TypeOK, Idle, IdleCall

(* A section of a call that owes nothing, and its return.                   *)
LEMMA UpdateReturnInv ==
  ASSUME Inv, NEW c \in Clients, owed[c] = {},
         NEW s \in ShardIds, NEW st, ShardOK(s, st), NEW written, Update(s, st, written),
         NEW answer \in Grants \cup {Miss}, Return(c, answer)
  PROVE  Inv'
<1>1. TypeOK'
  BY UpdateKeeps, ReturnInv DEF TypeOK
<1>2. \A r \in ShardIds : ShardOK(r, shards'[r])
  BY UpdateKeeps
<1>3. OwedAhead'
  <2> SUFFICES ASSUME NEW d \in Clients
               PROVE  /\ call'[d].op = "sweep" => call'[d].next \in ShardIds
                      /\ \A k \in owed'[d] :
                           /\ call'[d].op = "sweep"
                           /\ k \in call'[d].target
                           /\ ShardIndex(k) >= call'[d].next
                           /\ k \in DOMAIN shards'[ShardIndex(k)].entries
    BY DEF OwedAhead
  <2>1. \A k \in owed'[d] : k \in owed[d] /\ k \in DOMAIN shards'[ShardIndex(k)].entries
    BY UpdateKeeps
  <2>2. CASE d = c
    <3>1. call'[d] = Idle /\ owed'[d] = {}
      BY <2>1, <2>2, ReturnInv
    <3> QED
      BY <3>1 DEF Idle
  <2>3. CASE d # c
    <3>1. call'[d] = call[d]
      BY <2>3, ReturnInv
    <3> QED
      BY <2>1, <3>1 DEF Inv, OwedAhead
  <2> QED
    BY <2>2, <2>3
<1> QED
  BY <1>1, <1>2, <1>3 DEF Inv, ShardOK

-------------------------------------------------------------------------------
(* The invariant is inductive.                                              *)

LEMMA InitInv == Init => Inv
<1> SUFFICES ASSUME Init PROVE Inv
  OBVIOUS
<1>1. \A s \in ShardIds : shards[s] = EmptyShard
  BY DEF Init
<1>2. \A s \in ShardIds : ShardOK(s, EmptyShard)
  <2> SUFFICES ASSUME NEW s \in ShardIds PROVE ShardOK(s, EmptyShard)
    OBVIOUS
  <2>1. Sound(EmptyShard, Keys, Entry) /\ DOMAIN EmptyShard.entries = {}
    BY EmptyShardSound
  <2>2. Cardinality(DOMAIN EmptyShard.entries) = 0
    BY <2>1, FS_EmptySet
  <2> QED
    BY <2>1, <2>2, ShardCapacityType DEF ShardOK
<1>3. TypeOK
  <2>1. \A s \in ShardIds : IsShard(shards[s], Keys, Entry)
    BY <1>1, <1>2 DEF ShardOK, Sound
  <2> QED
    BY <2>1 DEF Init, TypeOK, Idle, IdleCall
<1>4. OwedAhead
  BY DEF Init, OwedAhead, Idle
<1> QED
  BY <1>1, <1>2, <1>3, <1>4 DEF Inv

(* A call that begins with no shard touched.                                *)
LEMMA BeginInv ==
  ASSUME Inv, NEW c \in Clients, NEW request \in GetCall \cup SetCall,
         Begin(c, request), UNCHANGED owed
  PROVE  Inv'
<1>1. /\ call' \in [Clients -> IdleCall \cup GetCall \cup SetCall \cup SweepCall]
      /\ call'[c] = request /\ \A d \in Clients \ {c} : call'[d] = call[d]
  BY DEF Begin, Inv, TypeOK
<1>2. UNCHANGED <<clock, shards, owed>> /\ call[c] = Idle
  BY DEF Begin
<1>3. TypeOK'
  <2>1. returned' \in [Clients -> Grants \cup {Miss}]
    BY DEF Begin, Inv, TypeOK
  <2> QED
    BY <1>1, <1>2, <2>1 DEF Inv, TypeOK
<1>4. owed[c] = {}
  BY <1>2 DEF Inv, OwedAhead, Idle
<1>5. request.op # "sweep"
  BY DEF GetCall, SetCall
<1>6. OwedAhead'
  BY <1>1, <1>2, <1>4, <1>5 DEF Inv, OwedAhead
<1>7. \A s \in ShardIds : ShardOK(s, shards'[s])
  BY <1>2 DEF Inv
<1> QED
  BY <1>3, <1>6, <1>7 DEF Inv, ShardOK

LEMMA InvalidateInv ==
  ASSUME Inv, NEW c \in Clients, NEW target \in SUBSET Keys, Invalidate(c, target)
  PROVE  Inv'
<1> DEFINE request == [op |-> "sweep", target |-> target, next |-> 0]
<1>1. request \in SweepCall /\ request.op = "sweep" /\ request.target = target
      /\ request.next = 0 /\ 0 \in ShardIds
  BY ShardCountType DEF SweepCall, ShardIds
<1>2. Begin(c, request) /\ owed' = [owed EXCEPT ![c] = target \cap Present]
  BY DEF Invalidate
<1> HIDE DEF request
<1>3. /\ call' \in [Clients -> IdleCall \cup GetCall \cup SetCall \cup SweepCall]
      /\ call'[c] = request /\ \A d \in Clients \ {c} : call'[d] = call[d]
  BY <1>1, <1>2 DEF Begin, Inv, TypeOK
<1>4. UNCHANGED <<clock, shards>>
  BY <1>2 DEF Begin
<1>5. /\ owed' \in [Clients -> SUBSET Keys]
      /\ owed'[c] = target \cap Present /\ \A d \in Clients \ {c} : owed'[d] = owed[d]
  BY <1>2 DEF Inv, TypeOK
<1>6. TypeOK'
  <2>1. returned' \in [Clients -> Grants \cup {Miss}]
    BY <1>2 DEF Begin, Inv, TypeOK
  <2> QED
    BY <1>3, <1>4, <1>5, <2>1 DEF Inv, TypeOK
<1>7. \A k \in target \cap Present :
        /\ k \in target /\ ShardIndex(k) >= 0
        /\ k \in DOMAIN shards[ShardIndex(k)].entries
  <2> SUFFICES ASSUME NEW k \in target \cap Present
               PROVE  ShardIndex(k) >= 0 /\ k \in DOMAIN shards[ShardIndex(k)].entries
    OBVIOUS
  <2>1. PICK s \in ShardIds : k \in DOMAIN shards[s].entries
    BY DEF Present
  <2>2. ShardIndex(k) = s
    BY <2>1 DEF Inv, ShardOK
  <2> QED
    BY <2>1, <2>2, ShardCountType DEF ShardIds
<1>8. OwedAhead'
  <2> SUFFICES ASSUME NEW d \in Clients
               PROVE  /\ call'[d].op = "sweep" => call'[d].next \in ShardIds
                      /\ \A k \in owed'[d] :
                           /\ call'[d].op = "sweep"
                           /\ k \in call'[d].target
                           /\ ShardIndex(k) >= call'[d].next
                           /\ k \in DOMAIN shards[ShardIndex(k)].entries
    BY <1>4 DEF OwedAhead
  <2>1. CASE d = c
    BY <2>1, <1>1, <1>3, <1>5, <1>7
  <2>2. CASE d # c
    BY <2>2, <1>3, <1>5 DEF Inv, OwedAhead
  <2> QED
    BY <2>1, <2>2
<1>9. \A s \in ShardIds : ShardOK(s, shards'[s])
  BY <1>4 DEF Inv
<1> QED
  BY <1>6, <1>8, <1>9 DEF Inv, ShardOK

(* A get settled without writing.                                           *)
LEMMA QuietReturnInv ==
  ASSUME Inv, NEW c \in Clients, call[c].op # "sweep",
         NEW answer \in Grants \cup {Miss}, Return(c, answer),
         UNCHANGED <<clock, shards, owed>>
  PROVE  Inv'
<1>1. owed[c] = {}
  BY DEF Inv, OwedAhead
<1>2. TypeOK'
  BY ReturnInv DEF Inv, TypeOK
<1>3. OwedAhead'
  BY <1>1, ReturnInv DEF Inv, OwedAhead, Idle
<1>4. \A s \in ShardIds : ShardOK(s, shards'[s])
  BY DEF Inv
<1> QED
  BY <1>2, <1>3, <1>4 DEF Inv, ShardOK

(* The shard a get or a set works on, and the entry a get finds there.      *)
LEMMA HomeFacts ==
  ASSUME Inv, NEW c \in Clients, call[c].op \in {"get_read", "get_write", "set"}
  PROVE  /\ call[c].key \in Keys /\ Home(c) \in ShardIds
         /\ ShardOK(Home(c), shards[Home(c)])
         /\ owed[c] = {}
         /\ Found(c) => Stored(c) \in Grants
<1>1. call[c] \in GetCall \cup SetCall
  BY DEF Inv, TypeOK, IdleCall, SweepCall
<1>2. call[c].key \in Keys
  BY <1>1 DEF GetCall, SetCall
<1>3. Home(c) \in ShardIds
  BY <1>2, ShardIndexType DEF Home
<1>4. ShardOK(Home(c), shards[Home(c)])
  BY <1>3 DEF Inv
<1>5. owed[c] = {}
  BY DEF Inv, OwedAhead
<1>6. Found(c) => Stored(c) \in Grants
  <2> SUFFICES ASSUME Found(c) PROVE Stored(c) \in Grants
    OBVIOUS
  <2>1. IsShard(shards[Home(c)], Keys, Entry)
    BY <1>3 DEF Inv, TypeOK
  <2>2. shards[Home(c)].entries[call[c].key] \in Entry
    BY <2>1 DEF IsShard, Found
  <2> QED
    BY <2>2 DEF Stored, Entry
<1> QED
  BY <1>2, <1>3, <1>4, <1>5, <1>6

LEMMA ReadSectionsInv ==
  ASSUME Inv, NEW c \in Clients, ReadMiss(c) \/ ReadHit(c) \/ ReadDefer(c) \/ WriteMiss(c)
  PROVE  Inv'
<1>1. CASE ReadMiss(c) \/ WriteMiss(c)
  <2>1. Return(c, Miss) /\ UNCHANGED <<clock, shards, owed>> /\ call[c].op # "sweep"
    BY <1>1 DEF ReadMiss, WriteMiss
  <2> QED
    BY <2>1, QuietReturnInv
<1>2. CASE ReadHit(c)
  <2>1. Return(c, Stored(c)) /\ UNCHANGED <<clock, shards, owed>> /\ call[c].op # "sweep"
    BY <1>2 DEF ReadHit
  <2>2. Stored(c) \in Grants
    BY <1>2, HomeFacts DEF ReadHit
  <2> QED
    BY <2>1, <2>2, QuietReturnInv
<1>3. CASE ReadDefer(c)
  <2>1. /\ call[c].op = "get_read" /\ call' = [call EXCEPT ![c].op = "get_write"]
        /\ UNCHANGED <<clock, shards, returned, owed>>
    BY <1>3 DEF ReadDefer
  <2>2. call[c] \in GetCall
    BY <2>1 DEF Inv, TypeOK, IdleCall, SetCall, SweepCall
  <2>3. /\ call'[c] \in GetCall /\ call'[c].op = "get_write"
        /\ \A d \in Clients \ {c} : call'[d] = call[d]
    BY <2>1, <2>2 DEF Inv, TypeOK, GetCall
  <2>4. call' \in [Clients -> IdleCall \cup GetCall \cup SetCall \cup SweepCall]
    BY <2>1, <2>3 DEF Inv, TypeOK
  <2>5. TypeOK'
    BY <2>1, <2>4 DEF Inv, TypeOK
  <2>6. owed[c] = {}
    BY <2>1, HomeFacts
  <2>7. OwedAhead'
    BY <2>1, <2>3, <2>6 DEF Inv, OwedAhead
  <2>8. \A s \in ShardIds : ShardOK(s, shards'[s])
    BY <2>1 DEF Inv
  <2> QED
    BY <2>5, <2>7, <2>8 DEF Inv, ShardOK
<1> QED
  BY <1>1, <1>2, <1>3

LEMMA WriteExpireInv ==
  ASSUME Inv, NEW c \in Clients, WriteExpire(c)
  PROVE  Inv'
<1> DEFINE st == remove_key(shards[Home(c)], call[c].key)
<1>1. call[c].op = "get_write" /\ Update(Home(c), st, {}) /\ Return(c, Miss)
  BY DEF WriteExpire
<1>2. Home(c) \in ShardIds /\ ShardOK(Home(c), shards[Home(c)]) /\ owed[c] = {}
  BY <1>1, HomeFacts
<1>3. Sound(st, Keys, Entry) /\ DOMAIN st.entries \subseteq DOMAIN shards[Home(c)].entries
  BY <1>2, RemoveKeySound DEF ShardOK
<1> HIDE DEF st
<1>4. ShardOK(Home(c), st)
  BY <1>2, <1>3, RemovalOK
<1> QED
  BY <1>1, <1>2, <1>4, UpdateReturnInv

LEMMA WriteHitInv ==
  ASSUME Inv, NEW c \in Clients, WriteHit(c)
  PROVE  Inv'
<1> DEFINE st == touch(shards[Home(c)], call[c].key)
<1>1. /\ call[c].op = "get_write" /\ Found(c)
      /\ Update(Home(c), st, {}) /\ Return(c, Stored(c))
  BY DEF WriteHit
<1>2. /\ Home(c) \in ShardIds /\ ShardOK(Home(c), shards[Home(c)]) /\ owed[c] = {}
      /\ Stored(c) \in Grants
  BY <1>1, HomeFacts
<1>3. Sound(st, Keys, Entry) /\ DOMAIN st.entries \subseteq DOMAIN shards[Home(c)].entries
  BY <1>1, <1>2, TouchSound DEF ShardOK, Found
<1> HIDE DEF st
<1>4. ShardOK(Home(c), st)
  BY <1>2, <1>3, RemovalOK
<1> QED
  BY <1>1, <1>2, <1>4, UpdateReturnInv

LEMMA WriteSetInv ==
  ASSUME Inv, NEW c \in Clients, WriteSet(c)
  PROVE  Inv'
<1> DEFINE s == Home(c)
           k == call[c].key
           entry == [grants |-> call[c].grants, updated_at |-> call[c].now]
           pruned == prune_expired(shards[s], Ttl[c], entry.updated_at)
           filled == touch(insert(pruned, k, entry), k)
           st == evict_if_needed(filled, ShardCapacity(s))
<1>1. call[c].op = "set" /\ Update(s, st, {k}) /\ Return(c, Miss)
  BY DEF WriteSet, AfterSet
<1>2. s \in ShardIds /\ ShardOK(s, shards[s]) /\ owed[c] = {} /\ k \in Keys
  BY <1>1, HomeFacts
<1>3. entry \in Entry
  <2>1. call[c] \in SetCall
    BY <1>1 DEF Inv, TypeOK, IdleCall, GetCall, SweepCall
  <2> QED
    BY <2>1 DEF SetCall, Entry
<1>4. Sound(pruned, Keys, Entry) /\ DOMAIN pruned.entries \subseteq DOMAIN shards[s].entries
  BY <1>2, PruneSound DEF ShardOK
<1> HIDE DEF pruned, entry
<1>5. /\ Sound(filled, Keys, Entry)
      /\ DOMAIN filled.entries = DOMAIN pruned.entries \cup {k}
  BY <1>2, <1>3, <1>4, InsertTouchSound
<1> HIDE DEF filled
<1>6. /\ Sound(st, Keys, Entry)
      /\ Cardinality(DOMAIN st.entries) <= ShardCapacity(s)
      /\ DOMAIN st.entries \subseteq DOMAIN filled.entries
  BY <1>2, <1>5, EvictSound, ShardCapacityType
<1>7. \A x \in DOMAIN st.entries : ShardIndex(x) = s
  BY <1>2, <1>4, <1>5, <1>6 DEF ShardOK, Home
<1> HIDE DEF st
<1>8. ShardOK(s, st)
  BY <1>6, <1>7 DEF ShardOK
<1> QED
  BY <1>1, <1>2, <1>8, UpdateReturnInv

(* A sweep clears its targets from the shard at hand, so that what it still *)
(* owes lies in the shards to come; after the last shard nothing is left.   *)
LEMMA SweepInv ==
  ASSUME Inv, NEW c \in Clients, Sweep(c)
  PROVE  Inv'
<1> DEFINE s == call[c].next
           st == RemoveAll(shards[s], call[c].target)
<1>1. call[c].op = "sweep" /\ Update(s, st, {})
  BY DEF Sweep
<1>2. s \in ShardIds /\ call[c] \in SweepCall /\ ShardOK(s, shards[s])
  BY <1>1 DEF Inv, TypeOK, OwedAhead, IdleCall, GetCall, SetCall
<1>3. /\ Sound(st, Keys, Entry)
      /\ DOMAIN st.entries = DOMAIN shards[s].entries \ call[c].target
  BY <1>2, RemoveAllSound DEF ShardOK
<1>4. ShardOK(s, st)
  BY <1>2, <1>3, RemovalOK
<1>5. /\ owed' \in [Clients -> SUBSET Keys]
      /\ \A d \in Clients : \A k \in owed'[d] :
           k \in owed[d] /\ k \in DOMAIN shards'[ShardIndex(k)].entries
      /\ \A r \in ShardIds : ShardOK(r, shards'[r]) /\ IsShard(shards'[r], Keys, Entry)
      /\ DOMAIN shards' = ShardIds /\ clock' \in Nat
  BY <1>1, <1>2, <1>4, UpdateKeeps
<1>6. shards'[s] = st
  BY <1>1, <1>2 DEF Update, Inv, TypeOK
<1> HIDE DEF st
<1>7. \A k \in owed'[c] : k \in call[c].target /\ ShardIndex(k) >= s + 1
  <2> SUFFICES ASSUME NEW k \in owed'[c]
               PROVE  k \in call[c].target /\ ShardIndex(k) >= s + 1
    OBVIOUS
  <2>1. k \in owed[c] /\ k \in DOMAIN shards'[ShardIndex(k)].entries
    BY <1>5
  <2>2. k \in call[c].target /\ ShardIndex(k) >= s /\ k \in Keys
    BY <2>1 DEF Inv, OwedAhead, TypeOK
  <2>3. ShardIndex(k) # s
    BY <1>3, <1>6, <2>1, <2>2
  <2>4. ShardIndex(k) \in Nat /\ s \in Nat
    BY <1>2, <2>2, ShardIndexType DEF ShardIds
  <2> QED
    BY <2>2, <2>3, <2>4
<1>8. CASE s = ShardCount - 1
  <2>1. Return(c, Miss)
    BY <1>8 DEF Sweep
  <2>2. owed'[c] = {}
    <3> SUFFICES ASSUME NEW k \in owed'[c] PROVE FALSE
      OBVIOUS
    <3>1. k \in Keys /\ ShardIndex(k) >= s + 1
      BY <1>5, <1>7 DEF Inv, TypeOK
    <3> QED
      BY <1>8, <3>1, ShardIndexType, ShardCountType DEF ShardIds
  <2>3. OwedAhead'
    BY <1>5, <2>1, <2>2, ReturnInv DEF Inv, OwedAhead, Idle
  <2>4. TypeOK'
    BY <1>5, <2>1, ReturnInv DEF TypeOK
  <2> QED
    BY <1>5, <2>3, <2>4 DEF Inv, ShardOK
<1>9. CASE s # ShardCount - 1
  <2>1. call' = [call EXCEPT ![c].next = @ + 1] /\ UNCHANGED returned
    BY <1>9 DEF Sweep
  <2>2. s + 1 \in ShardIds /\ s + 1 \in Nat
    BY <1>2, <1>9, ShardCountType DEF ShardIds
  <2>3. /\ call'[c] \in SweepCall /\ call'[c].op = "sweep"
        /\ call'[c].target = call[c].target /\ call'[c].next = s + 1
        /\ \A d \in Clients \ {c} : call'[d] = call[d]
    BY <1>1, <1>2, <2>1, <2>2 DEF Inv, TypeOK, SweepCall
  <2>4. call' \in [Clients -> IdleCall \cup GetCall \cup SetCall \cup SweepCall]
    BY <2>1, <2>3 DEF Inv, TypeOK
  <2>5. TypeOK'
    BY <1>5, <2>1, <2>4 DEF Inv, TypeOK
  <2>6. OwedAhead'
    <3> SUFFICES ASSUME NEW d \in Clients
                 PROVE  /\ call'[d].op = "sweep" => call'[d].next \in ShardIds
                        /\ \A k \in owed'[d] :
                             /\ call'[d].op = "sweep"
                             /\ k \in call'[d].target
                             /\ ShardIndex(k) >= call'[d].next
                             /\ k \in DOMAIN shards'[ShardIndex(k)].entries
      BY DEF OwedAhead
    <3>1. CASE d = c
      BY <1>5, <1>7, <2>2, <2>3, <3>1
    <3>2. CASE d # c
      BY <1>5, <2>3, <3>2 DEF Inv, OwedAhead
    <3> QED
      BY <3>1, <3>2
  <2> QED
    BY <1>5, <2>5, <2>6 DEF Inv, ShardOK
<1> QED
  BY <1>8, <1>9

LEMMA NextInv == Inv /\ [Next]_vars => Inv'
<1> SUFFICES ASSUME Inv, [Next]_vars PROVE Inv'
  OBVIOUS
<1>1. CASE UNCHANGED vars
  <2>1. UNCHANGED <<clock, shards, call, returned, owed>>
    BY <1>1 DEF vars
  <2>2. TypeOK'
    BY <2>1 DEF Inv, TypeOK
  <2>3. OwedAhead'
    BY <2>1 DEF Inv, OwedAhead
  <2> QED
    BY <2>1, <2>2, <2>3 DEF Inv, ShardOK
<1>2. CASE Tick
  <2>1. clock' \in Nat /\ UNCHANGED <<shards, call, returned, owed>>
    BY <1>2 DEF Tick, Inv, TypeOK
  <2>2. TypeOK'
    BY <2>1 DEF Inv, TypeOK
  <2>3. OwedAhead'
    BY <2>1 DEF Inv, OwedAhead
  <2> QED
    BY <2>1, <2>2, <2>3 DEF Inv, ShardOK
<1>3. ASSUME NEW c \in Clients, ClientStep(c) PROVE Inv'
  <2>1. ASSUME NEW k \in Keys, get_effective_grants(c, k) PROVE Inv'
    <3>1. [op |-> "get_read", key |-> k, now |-> clock] \in GetCall
      BY DEF GetCall, Inv, TypeOK
    <3> QED
      BY <2>1, <3>1, BeginInv DEF get_effective_grants
  <2>2. ASSUME NEW k \in Keys, NEW g \in Grants, set_effective_grants(c, k, g) PROVE Inv'
    <3>1. [op |-> "set", key |-> k, grants |-> g, now |-> clock] \in SetCall
      BY DEF SetCall, Inv, TypeOK
    <3> QED
      BY <2>2, <3>1, BeginInv DEF set_effective_grants
  <2>3. ASSUME NEW t \in Tenants, NEW p \in Principals, invalidate_principal(c, t, p)
        PROVE  Inv'
    <3>1. PrincipalKeys(t, p) \in SUBSET Keys
      BY DEF PrincipalKeys
    <3> QED
      BY <2>3, <3>1, InvalidateInv DEF invalidate_principal
  <2>4. ASSUME NEW t \in Tenants, invalidate_role(c, t) \/ invalidate_tenant(c, t)
        PROVE  Inv'
    <3>1. TenantKeys(t) \in SUBSET Keys
      BY DEF TenantKeys
    <3> QED
      BY <2>4, <3>1, InvalidateInv DEF invalidate_role, invalidate_tenant
  <2>5. CASE invalidate_all(c)
    BY <2>5, InvalidateInv DEF invalidate_all
  <2>6. CASE ReadMiss(c) \/ ReadHit(c) \/ ReadDefer(c) \/ WriteMiss(c)
    BY <2>6, ReadSectionsInv
  <2>7. CASE WriteExpire(c)
    BY <2>7, WriteExpireInv
  <2>8. CASE WriteHit(c)
    BY <2>8, WriteHitInv
  <2>9. CASE WriteSet(c)
    BY <2>9, WriteSetInv
  <2>10. CASE Sweep(c)
    BY <2>10, SweepInv
  <2> QED
    BY <1>3, <2>1, <2>2, <2>3, <2>4, <2>5, <2>6, <2>7, <2>8, <2>9, <2>10 DEF ClientStep
<1> QED
  BY <1>1, <1>2, <1>3 DEF Next

-------------------------------------------------------------------------------
(* Theorems.                                                                *)

LEMMA Invariance == Spec => []Inv
BY InitInv, NextInv, PTL DEF Spec

(* Every variable keeps its type, whatever calls interleave.                *)
THEOREM TypeCorrect == Spec => []TypeOK
<1>1. Inv => TypeOK
  BY DEF Inv
<1> QED
  BY <1>1, Invariance, PTL

(* Between any two sections under a shard's lock the shard's deque lists    *)
(* exactly the keys of its map, once each, and keys are where their hash    *)
(* says: for every number of threads, shards and keys.                      *)
THEOREM CoherenceHolds == Spec => []ShardsCoherent
<1>1. Inv => ShardsCoherent
  BY DEF Inv, ShardOK, Sound, ShardsCoherent
<1> QED
  BY <1>1, Invariance, PTL

(* No shard ever exceeds its share of the capacity.                         *)
THEOREM CapacityHolds == Spec => []ShardsWithinCapacity
<1>1. Inv => ShardsWithinCapacity
  BY DEF Inv, ShardOK, ShardsWithinCapacity
<1> QED
  BY <1>1, Invariance, PTL

(* When an invalidation has returned, none of the entries it targets that   *)
(* were there when it was called is left, although it never holds more than *)
(* one shard's lock and sets, gets and other invalidations run in between.  *)
THEOREM InvalidationHolds == Spec => []InvalidationComplete
<1>1. Inv => InvalidationComplete
  BY DEF Inv, OwedAhead, InvalidationComplete
<1> QED
  BY <1>1, Invariance, PTL

-------------------------------------------------------------------------------
(* What a set does to its shard, and in which order.                        *)

LEMMA KeepOnlyOrder ==
  ASSUME NEW K, NEW V, NEW st, Sound(st, K, V), NEW S, NEW a, NEW b
  PROVE  LET out == KeepOnly(st, S) IN
         Before(out.order, a, b) <=>
           Before(st.order, a, b) /\ a \in DOMAIN out.entries /\ b \in DOMAIN out.entries
<1> DEFINE kept == DOMAIN st.entries \cap S
<1>1. st.order \in Seq(K)
  BY DEF Sound, IsShard
<1>2. KeepOnly(st, S).order = Retain(st.order, kept)
  BY DEF KeepOnly
<1>3. DOMAIN KeepOnly(st, S).entries = kept
  BY KeepOnlySound
<1> HIDE DEF kept
<1> QED
  BY <1>1, <1>2, <1>3, RetainOrder

LEMMA PruneShape ==
  ASSUME NEW K, NEW V, NEW st, Sound(st, K, V), NEW ttl, NEW now
  PROVE  LET out == prune_expired(st, ttl, now) IN
         /\ \A x \in DOMAIN st.entries \ DOMAIN out.entries : is_expired(st.entries[x], ttl, now)
         /\ \A a, b : Before(out.order, a, b) <=>
              Before(st.order, a, b) /\ a \in DOMAIN out.entries /\ b \in DOMAIN out.entries
<1> DEFINE out == prune_expired(st, ttl, now)
           live == {x \in DOMAIN st.entries : ~ is_expired(st.entries[x], ttl, now)}
<1>1. CASE ttl = NoTtl
  <2>1. out = st
    BY <1>1 DEF prune_expired
  <2>2. \A a, b : Before(st.order, a, b) => a \in Range(st.order) /\ b \in Range(st.order)
    BY DEF Before, Range, Sound, IsShard
  <2>3. Range(st.order) = DOMAIN st.entries
    BY DEF Sound, Coherent
  <2> QED
    BY <2>1, <2>2, <2>3
<1>2. CASE ttl # NoTtl
  <2>1. out = KeepOnly(st, live)
    BY <1>2 DEF prune_expired
  <2>2. DOMAIN out.entries = DOMAIN st.entries \cap live
    BY <2>1, KeepOnlySound
  <2>3. \A a, b : Before(out.order, a, b) <=>
          Before(st.order, a, b) /\ a \in DOMAIN out.entries /\ b \in DOMAIN out.entries
    BY <2>1, KeepOnlyOrder
  <2> QED
    BY <2>2, <2>3
<1> QED
  BY <1>1, <1>2

(* A set leaves its key stored, at the back of the deque, and the other     *)
(* keys in their order.  It removes expired entries and, if its key is new  *)
(* and the shard is full, the entry used least recently.                    *)
LEMMA AfterSetShape ==
  ASSUME NEW old, Sound(old, Keys, Entry), NEW k \in Keys, NEW entry \in Entry, NEW ttl,
         NEW capacity \in Nat \ {0}, Cardinality(DOMAIN old.entries) <= capacity
  PROVE  LET new == AfterSet(old, k, entry, ttl, capacity) IN
         /\ k \in DOMAIN new.entries /\ new.entries[k] = entry
         /\ IsBack(new.order, k)
         /\ \A x \in DOMAIN new.entries \ {k} :
              x \in DOMAIN old.entries /\ new.entries[x] = old.entries[x]
         /\ \A a, b \in DOMAIN new.entries :
              a # k /\ Before(old.order, a, b) => Before(new.order, a, b)
         /\ \A x \in DOMAIN old.entries \ DOMAIN new.entries :
              /\ x # k
              /\ \/ is_expired(old.entries[x], ttl, entry.updated_at)
                 \/ /\ k \notin DOMAIN old.entries
                    /\ Cardinality(DOMAIN new.entries) = capacity
                    /\ \A y \in DOMAIN new.entries \ {k} : Before(old.order, x, y)
<1> DEFINE pruned == prune_expired(old, ttl, entry.updated_at)
           filled == touch(insert(pruned, k, entry), k)
           new == evict_if_needed(filled, capacity)
<1>0. AfterSet(old, k, entry, ttl, capacity) = new
  BY DEF AfterSet
<1>1. /\ Sound(pruned, Keys, Entry)
      /\ DOMAIN pruned.entries \subseteq DOMAIN old.entries
      /\ \A x \in DOMAIN pruned.entries : pruned.entries[x] = old.entries[x]
      /\ pruned.order \in Seq(Keys)
  <2>1. /\ Sound(pruned, Keys, Entry)
        /\ DOMAIN pruned.entries \subseteq DOMAIN old.entries
        /\ \A x \in DOMAIN pruned.entries : pruned.entries[x] = old.entries[x]
    BY PruneSound
  <2> HIDE DEF pruned
  <2>2. pruned.order \in Seq(Keys)
    BY <2>1 DEF Sound, IsShard
  <2> QED
    BY <2>1, <2>2
<1>2. /\ \A x \in DOMAIN old.entries \ DOMAIN pruned.entries :
           is_expired(old.entries[x], ttl, entry.updated_at)
      /\ \A a, b : Before(pruned.order, a, b) <=>
           Before(old.order, a, b) /\ a \in DOMAIN pruned.entries /\ b \in DOMAIN pruned.entries
  BY PruneShape
<1>3. IsFiniteSet(DOMAIN old.entries) /\ Cardinality(DOMAIN old.entries) \in Nat
  BY SoundFinite
<1> HIDE DEF pruned
<1>4. /\ Sound(filled, Keys, Entry)
      /\ DOMAIN filled.entries = DOMAIN pruned.entries \cup {k}
      /\ filled.entries[k] = entry
      /\ \A x \in DOMAIN pruned.entries \ {k} : filled.entries[x] = pruned.entries[x]
  BY <1>1, InsertTouchSound
<1>5. filled.order = MoveToBack(pruned.order, k)
  BY DEF touch, insert
<1>6. /\ IsBack(filled.order, k)
      /\ \A a, b : Before(pruned.order, a, b) /\ a # k => Before(filled.order, a, b)
      /\ \A a, b : Before(filled.order, a, b) /\ b # k => Before(pruned.order, a, b)
  BY <1>1, <1>5, MoveToBackOrder
<1> HIDE DEF filled
<1>7. /\ filled.order \in Seq(Keys) /\ Range(filled.order) = DOMAIN filled.entries
      /\ IsInjective(filled.order) /\ Len(filled.order) \in Nat
      /\ DOMAIN filled.order = 1 .. Len(filled.order)
  BY <1>4 DEF Sound, IsShard, Coherent
<1>8. IsFiniteSet(DOMAIN filled.entries) /\ Cardinality(DOMAIN filled.entries) \in Nat
  BY <1>4, SoundFinite
<1>9. k \in DOMAIN old.entries => Cardinality(DOMAIN filled.entries) <= capacity
  <2> SUFFICES ASSUME k \in DOMAIN old.entries
               PROVE  Cardinality(DOMAIN filled.entries) <= capacity
    OBVIOUS
  <2>1. DOMAIN filled.entries \in SUBSET DOMAIN old.entries
    BY <1>1, <1>4
  <2>2. Cardinality(DOMAIN filled.entries) <= Cardinality(DOMAIN old.entries)
    BY <1>3, <2>1, FS_Subset
  <2> QED
    BY <1>3, <1>8, <2>2
<1>10. Cardinality(DOMAIN filled.entries) <= capacity + 1
  <2> DEFINE with_k == DOMAIN old.entries \cup {k}
  <2>1. IsFiniteSet(with_k) /\ Cardinality(with_k) <= Cardinality(DOMAIN old.entries) + 1
        /\ Cardinality(with_k) \in Nat
    <3>1. \A S, x : IsFiniteSet(S) =>
            /\ IsFiniteSet(S \cup {x})
            /\ Cardinality(S \cup {x}) = IF x \in S THEN Cardinality(S) ELSE Cardinality(S) + 1
      BY FS_AddElement
    <3>2. /\ IsFiniteSet(with_k)
          /\ Cardinality(with_k) = Cardinality(DOMAIN old.entries)
             \/ Cardinality(with_k) = Cardinality(DOMAIN old.entries) + 1
      BY <1>3, <3>1, Zenon
    <3> QED
      BY <1>3, <3>2
  <2>2. DOMAIN filled.entries \in SUBSET with_k
    BY <1>1, <1>4
  <2>3. Cardinality(DOMAIN filled.entries) <= Cardinality(with_k)
    BY <2>1, <2>2, FS_Subset
  <2> QED
    BY <1>3, <1>8, <2>1, <2>3
<1>11. /\ \A a \in DOMAIN new.entries : \A b :
            Before(filled.order, a, b) => Before(new.order, a, b)
       /\ \/ new.entries = filled.entries /\ new.order = filled.order
          \/ /\ Len(filled.order) >= 2
             /\ DOMAIN new.entries = DOMAIN filled.entries \ {filled.order[1]}
             /\ Cardinality(DOMAIN new.entries) = capacity
             /\ new.order = SubSeq(filled.order, 2, Len(filled.order))
  BY <1>4, <1>10, EvictOne
<1>12. /\ DOMAIN new.entries \subseteq DOMAIN filled.entries
       /\ \A x \in DOMAIN new.entries : new.entries[x] = filled.entries[x]
  BY <1>4, EvictSound
<1> HIDE DEF new
<1>13. \A a, b \in DOMAIN new.entries :
         a # k /\ Before(old.order, a, b) => Before(new.order, a, b)
  <2> SUFFICES ASSUME NEW a \in DOMAIN new.entries, NEW b \in DOMAIN new.entries, a # k,
                      Before(old.order, a, b)
               PROVE  Before(filled.order, a, b)
    BY <1>11
  <2>1. a \in DOMAIN pruned.entries
    BY <1>4, <1>12
  <2>2. CASE b \in DOMAIN pruned.entries
    BY <1>2, <1>6, <2>1, <2>2
  <2>3. CASE b \notin DOMAIN pruned.entries
    <3>1. b = k
      BY <1>4, <1>12, <2>3
    <3> DEFINE q == filled.order
    <3>2. q # << >> /\ q[Len(q)] = k
      BY <1>6 DEF IsBack
    <3>3. PICK i \in 1 .. Len(q) : q[i] = a
      BY <1>7, <1>12 DEF Range
    <3> HIDE DEF q
    <3>4. i # Len(q) /\ Len(q) \in 1 .. Len(q)
      BY <1>7, <3>2, <3>3 DEF q
    <3> QED
      BY <3>1, <3>2, <3>3, <3>4 DEF q, Before
  <2> QED
    BY <2>2, <2>3
<1>14. \A x \in DOMAIN new.entries \ {k} :
         x \in DOMAIN old.entries /\ new.entries[x] = old.entries[x]
  BY <1>1, <1>4, <1>12
<1>15. ASSUME NEW x \in DOMAIN old.entries \ DOMAIN pruned.entries, x # k
       PROVE  is_expired(old.entries[x], ttl, entry.updated_at)
  BY <1>2, <1>15
<1>16. CASE new.entries = filled.entries /\ new.order = filled.order
  <2>1. k \in DOMAIN new.entries /\ new.entries[k] = entry /\ IsBack(new.order, k)
    BY <1>4, <1>6, <1>16
  <2>2. \A x \in DOMAIN old.entries \ DOMAIN new.entries :
          x # k /\ is_expired(old.entries[x], ttl, entry.updated_at)
    BY <1>4, <1>15, <1>16
  <2> QED
    BY <1>0, <1>13, <1>14, <2>1, <2>2
<1>17. CASE /\ Len(filled.order) >= 2
            /\ DOMAIN new.entries = DOMAIN filled.entries \ {filled.order[1]}
            /\ Cardinality(DOMAIN new.entries) = capacity
            /\ new.order = SubSeq(filled.order, 2, Len(filled.order))
  <2> DEFINE q == filled.order
             n == Len(q)
             first == q[1]
  <2>1. q[n] = k /\ n \in Nat /\ n >= 2 /\ q \in Seq(Keys) /\ DOMAIN q = 1 .. n
        /\ IsInjective(q) /\ Range(q) = DOMAIN filled.entries
    BY <1>6, <1>7, <1>17 DEF IsBack
  <2> HIDE DEF q, n
  <2>2. first # k
    <3>1. 1 \in DOMAIN q /\ n \in DOMAIN q /\ n # 1
      BY <2>1
    <3> QED
      BY <2>1, <3>1 DEF IsInjective
  <2>3. k \in DOMAIN new.entries /\ new.entries[k] = entry
    BY <1>4, <1>12, <1>17, <2>2 DEF q
  <2>4. IsBack(new.order, k)
    <3>1. new.order = SubSeq(q, 2, n)
      BY <1>17 DEF q, n
    <3>2. /\ Len(new.order) = n - 1 /\ n - 1 \in 1 .. n - 1
          /\ \A i \in 1 .. n - 1 : new.order[i] = q[1 + i]
      BY <2>1, <3>1
    <3>3. new.order[n - 1] = q[n]
      <4>1. 1 + (n - 1) = n
        BY <2>1
      <4> QED
        BY <3>2, <4>1
    <3>4. new.order # << >> /\ new.order[Len(new.order)] = k
      BY <2>1, <3>2, <3>3
    <3> QED
      BY <3>4 DEF IsBack
  <2>5. k \notin DOMAIN old.entries
    <3> SUFFICES ASSUME k \in DOMAIN old.entries PROVE FALSE
      OBVIOUS
    <3>1. Cardinality(DOMAIN filled.entries) <= capacity
      BY <1>9
    <3>2. first \in DOMAIN filled.entries
      BY <2>1 DEF Range
    <3>3. \A S, x : IsFiniteSet(S) /\ x \in S => Cardinality(S \ {x}) = Cardinality(S) - 1
      BY FS_RemoveElement
    <3>4. Cardinality(DOMAIN new.entries) = Cardinality(DOMAIN filled.entries) - 1
      <4>1. DOMAIN new.entries = DOMAIN filled.entries \ {first}
        BY <1>17 DEF q
      <4> QED
        BY <1>8, <3>2, <3>3, <4>1, Zenon
    <3> QED
      BY <1>8, <1>17, <3>1, <3>4
  <2>6. ASSUME NEW y \in DOMAIN new.entries \ {k}
        PROVE  Before(old.order, first, y)
    <3>1. y \in Range(q) /\ y # first
      BY <1>12, <1>17, <2>1 DEF q
    <3>2. PICK i \in 1 .. n : q[i] = y
      BY <2>1, <3>1 DEF Range
    <3>3. i # 1 /\ 1 \in 1 .. n
      BY <2>1, <3>1, <3>2
    <3>4. Before(q, first, y)
      BY <3>2, <3>3 DEF Before, n
    <3> QED
      BY <1>2, <1>6, <2>6, <3>4 DEF q
  <2>7. \A x \in DOMAIN old.entries \ DOMAIN new.entries :
          /\ x # k
          /\ is_expired(old.entries[x], ttl, entry.updated_at) \/ x = first
    BY <1>4, <1>15, <1>17, <2>3 DEF q
  <2> QED
    BY <1>0, <1>13, <1>14, <1>17, <2>3, <2>4, <2>5, <2>6, <2>7
<1> QED
  BY <1>11, <1>16, <1>17

-------------------------------------------------------------------------------
(* Calls in flight.                                                         *)

(* A running call has no answer yet; the instant it took is not ahead of    *)
(* the clock; a cache of capacity 0 starts no get and no set.               *)
InFlight ==
  \A c \in Clients :
    /\ call[c].op # "idle" => returned[c] = Miss
    /\ call[c].op \in {"get_read", "get_write", "set"} => call[c].now <= clock /\ Capacity # 0

(* A step of one client leaves the calls and the answers of the others.     *)
LEMMA StepLocal ==
  ASSUME Inv, NEW d \in Clients, ClientStep(d), NEW c \in Clients \ {d}
  PROVE  call'[c] = call[c] /\ returned'[c] = returned[c]
<1>1. call \in [Clients -> IdleCall \cup GetCall \cup SetCall \cup SweepCall]
      /\ returned \in [Clients -> Grants \cup {Miss}]
  BY DEF Inv, TypeOK
<1>2. ASSUME NEW request, Begin(d, request)
      PROVE  call'[c] = call[c] /\ returned'[c] = returned[c]
  BY <1>1, <1>2 DEF Begin
<1>3. ASSUME NEW answer, Return(d, answer)
      PROVE  call'[c] = call[c] /\ returned'[c] = returned[c]
  BY <1>1, <1>3 DEF Return
<1>4. CASE \/ \E k \in Keys : get_effective_grants(d, k)
           \/ \E k \in Keys, g \in Grants : set_effective_grants(d, k, g)
           \/ \E t \in Tenants, p \in Principals : invalidate_principal(d, t, p)
           \/ \E t \in Tenants : invalidate_role(d, t) \/ invalidate_tenant(d, t)
           \/ invalidate_all(d)
  BY <1>2, <1>4 DEF get_effective_grants, set_effective_grants, invalidate_principal,
                    invalidate_role, invalidate_tenant, invalidate_all, Invalidate
<1>5. CASE ReadMiss(d) \/ ReadHit(d) \/ WriteMiss(d) \/ WriteExpire(d) \/ WriteHit(d) \/ WriteSet(d)
  BY <1>3, <1>5 DEF ReadMiss, ReadHit, WriteMiss, WriteExpire, WriteHit, WriteSet
<1>6. CASE ReadDefer(d)
  BY <1>1, <1>6 DEF ReadDefer
<1>7. CASE Sweep(d)
  <2>1. \/ Return(d, Miss)
        \/ call' = [call EXCEPT ![d].next = @ + 1] /\ UNCHANGED returned
    BY <1>7 DEF Sweep
  <2> QED
    BY <1>1, <1>3, <2>1
<1> QED
  BY <1>4, <1>5, <1>6, <1>7 DEF ClientStep

(* What a step of a client does to its own call and answer.                 *)
LEMMA OwnCall ==
  ASSUME Inv, NEW c \in Clients, ClientStep(c)
  PROVE  \/ /\ call[c] = Idle /\ returned'[c] = Miss
            /\ UNCHANGED <<clock, shards>>
            /\ \/ call'[c] \in GetCall \cup SetCall /\ call'[c].now = clock /\ Capacity # 0
               \/ call'[c] \in SweepCall
         \/ call[c].op # "idle" /\ call'[c] = Idle
         \/ /\ call[c].op = "get_read" /\ call'[c] \in GetCall /\ call'[c].op = "get_write"
            /\ call'[c].now = call[c].now /\ UNCHANGED <<clock, returned, shards>>
         \/ /\ call[c].op = "sweep" /\ call'[c] \in SweepCall
            /\ call'[c].next # call[c].next /\ UNCHANGED returned
<1>1. call \in [Clients -> IdleCall \cup GetCall \cup SetCall \cup SweepCall]
      /\ returned \in [Clients -> Grants \cup {Miss}] /\ clock \in Nat
  BY DEF Inv, TypeOK
<1>2. ASSUME NEW request, Begin(c, request)
      PROVE  /\ call[c] = Idle /\ returned'[c] = Miss /\ call'[c] = request
             /\ UNCHANGED <<clock, shards>>
  BY <1>1, <1>2 DEF Begin
<1>3. ASSUME NEW answer, Return(c, answer)
      PROVE  call'[c] = Idle
  BY <1>1, <1>3 DEF Return
<1>4. ASSUME NEW k \in Keys, get_effective_grants(c, k)
      PROVE  /\ call[c] = Idle /\ returned'[c] = Miss /\ UNCHANGED <<clock, shards>>
             /\ call'[c] \in GetCall /\ call'[c].now = clock /\ Capacity # 0
  <2> DEFINE request == [op |-> "get_read", key |-> k, now |-> clock]
  <2>1. Begin(c, request) /\ Capacity # 0
    BY <1>4 DEF get_effective_grants
  <2>2. request \in GetCall /\ request.now = clock
    BY <1>1 DEF GetCall
  <2> HIDE DEF request
  <2> QED
    BY <1>2, <2>1, <2>2
<1>5. ASSUME NEW k \in Keys, NEW g \in Grants, set_effective_grants(c, k, g)
      PROVE  /\ call[c] = Idle /\ returned'[c] = Miss /\ UNCHANGED <<clock, shards>>
             /\ call'[c] \in SetCall /\ call'[c].now = clock /\ Capacity # 0
  <2> DEFINE request == [op |-> "set", key |-> k, grants |-> g, now |-> clock]
  <2>1. Begin(c, request) /\ Capacity # 0
    BY <1>5 DEF set_effective_grants
  <2>2. request \in SetCall /\ request.now = clock
    BY <1>1 DEF SetCall
  <2> HIDE DEF request
  <2> QED
    BY <1>2, <2>1, <2>2
<1>6. ASSUME NEW target \in SUBSET Keys, Invalidate(c, target)
      PROVE  /\ call[c] = Idle /\ returned'[c] = Miss /\ UNCHANGED <<clock, shards>>
             /\ call'[c] \in SweepCall
  <2> DEFINE request == [op |-> "sweep", target |-> target, next |-> 0]
  <2>1. Begin(c, request)
    BY <1>6 DEF Invalidate
  <2>2. request \in SweepCall
    BY ShardCountType DEF SweepCall, ShardIds
  <2> HIDE DEF request
  <2> QED
    BY <1>2, <2>1, <2>2
<1>7. CASE \/ \E t \in Tenants, p \in Principals : invalidate_principal(c, t, p)
           \/ \E t \in Tenants : invalidate_role(c, t) \/ invalidate_tenant(c, t)
           \/ invalidate_all(c)
  <2>1. PICK target \in SUBSET Keys : Invalidate(c, target)
    BY <1>7 DEF invalidate_principal, invalidate_role, invalidate_tenant, invalidate_all,
                PrincipalKeys, TenantKeys
  <2> QED
    BY <1>6, <2>1
<1>8. CASE ReadMiss(c) \/ ReadHit(c) \/ WriteMiss(c) \/ WriteExpire(c) \/ WriteHit(c) \/ WriteSet(c)
  BY <1>3, <1>8 DEF ReadMiss, ReadHit, WriteMiss, WriteExpire, WriteHit, WriteSet
<1>9. CASE ReadDefer(c)
  <2>1. call[c] \in GetCall /\ call[c].op = "get_read"
    BY <1>1, <1>9 DEF ReadDefer, IdleCall, SetCall, SweepCall
  <2>2. call' = [call EXCEPT ![c].op = "get_write"] /\ UNCHANGED <<clock, returned, shards>>
    BY <1>9 DEF ReadDefer
  <2>3. call'[c] \in GetCall /\ call'[c].op = "get_write" /\ call'[c].now = call[c].now
    BY <1>1, <2>1, <2>2 DEF GetCall
  <2> QED
    BY <2>1, <2>2, <2>3
<1>10. CASE Sweep(c)
  <2>1. call[c].op = "sweep" /\ call[c] \in SweepCall /\ call[c].next \in ShardIds
    BY <1>1, <1>10 DEF Sweep, IdleCall, GetCall, SetCall, Inv, OwedAhead
  <2>2. CASE call[c].next = ShardCount - 1
    BY <1>3, <1>10, <2>1, <2>2 DEF Sweep
  <2>3. CASE call[c].next # ShardCount - 1
    <3>1. call' = [call EXCEPT ![c].next = @ + 1] /\ UNCHANGED returned
      BY <1>10, <2>3 DEF Sweep
    <3>2. call[c].next + 1 \in ShardIds
      BY <2>1, <2>3, ShardCountType DEF ShardIds
    <3>3. call'[c] \in SweepCall /\ call'[c].next = call[c].next + 1
      BY <1>1, <2>1, <3>1, <3>2 DEF SweepCall
    <3>4. call'[c].next # call[c].next
      BY <2>1, <3>3 DEF ShardIds
    <3> QED
      BY <2>1, <3>1, <3>3, <3>4
  <2> QED
    BY <2>2, <2>3
<1> QED
  BY <1>4, <1>5, <1>7, <1>8, <1>9, <1>10 DEF ClientStep

LEMMA ClockMonotone ==
  ASSUME Inv, [Next]_vars
  PROVE  clock \in Nat /\ clock' \in Nat /\ clock <= clock'
<1>1. clock \in Nat
  BY DEF Inv, TypeOK
<1>2. ASSUME NEW c \in Clients, ClientStep(c) PROVE clock' = clock
  BY <1>2 DEF ClientStep, get_effective_grants, set_effective_grants, invalidate_principal,
       invalidate_role, invalidate_tenant, invalidate_all, Invalidate, Begin, ReadMiss, ReadHit,
       ReadDefer, WriteMiss, WriteExpire, WriteHit, WriteSet, Sweep, Update
<1> QED
  BY <1>1, <1>2 DEF Next, Tick, vars

LEMMA InFlightInit == Init => InFlight
BY DEF Init, InFlight, Idle

LEMMA InFlightStep == Inv /\ InFlight /\ [Next]_vars => InFlight'
<1> SUFFICES ASSUME Inv, InFlight, [Next]_vars, NEW c \in Clients
             PROVE  /\ call'[c].op # "idle" => returned'[c] = Miss
                    /\ call'[c].op \in {"get_read", "get_write", "set"} =>
                         call'[c].now <= clock' /\ Capacity # 0
  BY DEF InFlight
<1>1. clock \in Nat /\ clock' \in Nat /\ clock <= clock'
  BY ClockMonotone
<1>2. call[c] \in IdleCall \cup GetCall \cup SetCall \cup SweepCall
  BY DEF Inv, TypeOK
<1>3. call[c].op \in {"get_read", "get_write", "set"} => call[c].now \in Nat
  BY <1>2 DEF IdleCall, GetCall, SetCall, SweepCall
<1>4. CASE call'[c] = call[c] /\ returned'[c] = returned[c]
  BY <1>1, <1>3, <1>4 DEF InFlight
<1>5. CASE ClientStep(c)
  <2>1. CASE /\ returned'[c] = Miss
             /\ \/ call'[c] \in GetCall \cup SetCall /\ call'[c].now = clock /\ Capacity # 0
                \/ call'[c] \in SweepCall
    BY <1>1, <2>1 DEF SweepCall
  <2>2. CASE call'[c] = Idle
    BY <2>2 DEF Idle
  <2>3. CASE /\ call[c].op = "get_read" /\ call'[c] \in GetCall
             /\ call'[c].now = call[c].now /\ UNCHANGED returned
    BY <1>1, <1>3, <2>3 DEF InFlight
  <2>4. CASE call[c].op = "sweep" /\ call'[c] \in SweepCall /\ UNCHANGED returned
    BY <2>4 DEF InFlight, SweepCall
  <2> QED
    BY <1>5, <2>1, <2>2, <2>3, <2>4, OwnCall
<1> QED
  BY <1>4, <1>5, StepLocal DEF Next, Tick, vars

LEMMA CapacityPositive ==
  ASSUME Capacity # 0, NEW s \in ShardIds
  PROVE  ShardCapacity(s) \in Nat \ {0}
<1> DEFINE n == ShardCount
           q == Capacity \div n
<1>1. n \in Nat \ {0} /\ Capacity \in Nat /\ s \in Nat
  BY ShardCountType, CapacityAssumption DEF ShardIds
<1>2. n <= Capacity
  <2> DEFINE m == Max({RequestedShards, 1})
  <2>1. n = Min({m, Capacity})
    BY DEF ShardCount
  <2>2. m \in Nat
    <3>1. \E x \in {RequestedShards, 1} : \A y \in {RequestedShards, 1} : x >= y
      BY CapacityAssumption
    <3> QED
      BY <3>1, CapacityAssumption DEF Max
  <2>3. {m, Capacity} \in SUBSET Nat /\ {m, Capacity} # {}
    BY <1>1, <2>2
  <2>4. \A x \in {m, Capacity} : Min({m, Capacity}) <= x
    BY <2>3, NatMin
  <2> QED
    BY <2>1, <2>4
<1> HIDE DEF n
<1>3. q \in Nat /\ q >= 1
  BY <1>1, <1>2
<1> HIDE DEF q
<1>4. ShardCapacity(s) = q + (IF s < Capacity % n THEN 1 ELSE 0)
  BY DEF ShardCapacity, q, n
<1> QED
  BY <1>3, <1>4

-------------------------------------------------------------------------------
(* What each writing section does to the shard it locks.                    *)

OnlyShard(s) ==
  s \in ShardIds /\ DOMAIN shards' = ShardIds /\ \A r \in ShardIds \ {s} : shards'[r] = shards[r]

LEMMA UpdateOnly ==
  ASSUME Inv, NEW s \in ShardIds, NEW st, NEW written, Update(s, st, written)
  PROVE  OnlyShard(s) /\ shards'[s] = st
BY DEF Update, Inv, TypeOK, OnlyShard

(* The order in shard s is the old one, on the keys that are left.          *)
OrderKept(s) ==
  \A a, b : Before(shards'[s].order, a, b) <=>
    /\ Before(shards[s].order, a, b)
    /\ a \in DOMAIN shards'[s].entries /\ b \in DOMAIN shards'[s].entries

(* Shard s loses the entries of gone and nothing else of it changes.        *)
Drops(s, gone) ==
  /\ OnlyShard(s)
  /\ DOMAIN shards'[s].entries = DOMAIN shards[s].entries \ gone
  /\ \A x \in DOMAIN shards'[s].entries : shards'[s].entries[x] = shards[s].entries[x]
  /\ OrderKept(s)

LEMMA ExpireShape ==
  ASSUME Inv, NEW c \in Clients, WriteExpire(c)
  PROVE  /\ call[c].op = "get_write" /\ Found(c) /\ Expired(c) /\ Return(c, Miss)
         /\ Drops(Home(c), {call[c].key})
<1> DEFINE s == Home(c)
           k == call[c].key
           st == remove_key(shards[s], k)
<1>1. call[c].op = "get_write" /\ Found(c) /\ Expired(c) /\ Update(s, st, {}) /\ Return(c, Miss)
  BY DEF WriteExpire
<1>2. s \in ShardIds /\ Sound(shards[s], Keys, Entry)
  BY <1>1, HomeFacts DEF ShardOK
<1>3. OnlyShard(s) /\ shards'[s] = st
  BY <1>1, <1>2, UpdateOnly
<1>4. /\ DOMAIN st.entries = DOMAIN shards[s].entries \ {k}
      /\ \A x \in DOMAIN st.entries : st.entries[x] = shards[s].entries[x]
  BY <1>2, RemoveKeySound
<1>5. /\ st.order = Retain(shards[s].order, Range(shards[s].order) \ {k})
      /\ Range(shards[s].order) = DOMAIN shards[s].entries
      /\ shards[s].order \in Seq(Keys)
  BY <1>1, <1>2 DEF remove_key, Found, Sound, IsShard, Coherent
<1> HIDE DEF st
<1>6. OrderKept(s)
  <2>1. \A a, b : Before(st.order, a, b) <=>
          /\ Before(shards[s].order, a, b)
          /\ a \in DOMAIN st.entries /\ b \in DOMAIN st.entries
    BY <1>4, <1>5, RetainOrder
  <2> QED
    BY <1>3, <2>1 DEF OrderKept
<1> QED
  BY <1>1, <1>3, <1>4, <1>6 DEF Drops

LEMMA SweepShape ==
  ASSUME Inv, NEW c \in Clients, Sweep(c)
  PROVE  /\ call[c].op = "sweep" /\ Update(call[c].next, shards'[call[c].next], {})
         /\ Drops(call[c].next, call[c].target)
<1> DEFINE s == call[c].next
           S == DOMAIN shards[s].entries \ call[c].target
           st == RemoveAll(shards[s], call[c].target)
<1>1. call[c].op = "sweep" /\ Update(s, st, {})
  BY DEF Sweep
<1>2. s \in ShardIds /\ Sound(shards[s], Keys, Entry)
  BY <1>1 DEF Inv, OwedAhead, ShardOK
<1>3. OnlyShard(s) /\ shards'[s] = st
  BY <1>1, <1>2, UpdateOnly
<1>4. /\ DOMAIN st.entries = DOMAIN shards[s].entries \ call[c].target
      /\ \A x \in DOMAIN st.entries : st.entries[x] = shards[s].entries[x]
  BY <1>2, RemoveAllSound
<1>5. \A a, b : Before(st.order, a, b) <=>
        /\ Before(shards[s].order, a, b)
        /\ a \in DOMAIN st.entries /\ b \in DOMAIN st.entries
  BY <1>2, KeepOnlyOrder DEF RemoveAll
<1> HIDE DEF st
<1> QED
  BY <1>1, <1>3, <1>4, <1>5 DEF Drops, OrderKept

LEMMA HitShape ==
  ASSUME Inv, NEW c \in Clients, WriteHit(c)
  PROVE  /\ call[c].op = "get_write" /\ Found(c) /\ ~ Expired(c) /\ Return(c, Stored(c))
         /\ OnlyShard(Home(c))
         /\ shards'[Home(c)].entries = shards[Home(c)].entries
         /\ IsBack(shards'[Home(c)].order, call[c].key)
         /\ \A a, b : a # call[c].key /\ Before(shards[Home(c)].order, a, b) =>
              Before(shards'[Home(c)].order, a, b)
<1> DEFINE s == Home(c)
           k == call[c].key
           st == touch(shards[s], k)
<1>1. call[c].op = "get_write" /\ Found(c) /\ ~ Expired(c) /\ Update(s, st, {}) /\ Return(c, Stored(c))
  BY DEF WriteHit
<1>2. s \in ShardIds /\ Sound(shards[s], Keys, Entry) /\ k \in Keys
  BY <1>1, HomeFacts DEF ShardOK
<1>3. OnlyShard(s) /\ shards'[s] = st
  BY <1>1, <1>2, UpdateOnly
<1>4. st.entries = shards[s].entries /\ st.order = MoveToBack(shards[s].order, k)
  BY DEF touch
<1>5. shards[s].order \in Seq(Keys)
  BY <1>2 DEF Sound, IsShard
<1>6. /\ IsBack(st.order, k)
      /\ \A a, b : Before(shards[s].order, a, b) /\ a # k => Before(st.order, a, b)
  BY <1>2, <1>4, <1>5, MoveToBackOrder
<1> HIDE DEF st
<1> QED
  BY <1>1, <1>3, <1>4, <1>6

LEMMA SetShape ==
  ASSUME Inv, InFlight, NEW c \in Clients, WriteSet(c)
  PROVE  LET s == Home(c)  k == call[c].key  old == shards[s]  new == shards'[s] IN
         /\ call[c].op = "set" /\ k \in Keys /\ OnlyShard(s) /\ Return(c, Miss)
         /\ Update(s, new, {k})
         /\ k \in DOMAIN new.entries
         /\ new.entries[k] = [grants |-> call[c].grants, updated_at |-> call[c].now]
         /\ IsBack(new.order, k)
         /\ \A x \in DOMAIN new.entries \ {k} :
              x \in DOMAIN old.entries /\ new.entries[x] = old.entries[x]
         /\ \A a, b \in DOMAIN new.entries :
              a # k /\ Before(old.order, a, b) => Before(new.order, a, b)
         /\ \A x \in DOMAIN old.entries \ DOMAIN new.entries :
              /\ x # k
              /\ \/ is_expired(old.entries[x], Ttl[c], call[c].now)
                 \/ /\ k \notin DOMAIN old.entries
                    /\ Cardinality(DOMAIN new.entries) = ShardCapacity(s)
                    /\ \A y \in DOMAIN new.entries \ {k} : Before(old.order, x, y)
<1> DEFINE s == Home(c)
           k == call[c].key
           entry == [grants |-> call[c].grants, updated_at |-> call[c].now]
           st == AfterSet(shards[s], k, entry, Ttl[c], ShardCapacity(s))
<1>1. call[c].op = "set" /\ Update(s, st, {k}) /\ Return(c, Miss)
  BY DEF WriteSet
<1>2. s \in ShardIds /\ ShardOK(s, shards[s]) /\ k \in Keys
  BY <1>1, HomeFacts
<1>3. entry \in Entry /\ entry.updated_at = call[c].now
  <2>1. call[c] \in SetCall
    BY <1>1 DEF Inv, TypeOK, IdleCall, GetCall, SweepCall
  <2> QED
    BY <2>1 DEF SetCall, Entry
<1>4. ShardCapacity(s) \in Nat \ {0}
  BY <1>1, <1>2, CapacityPositive DEF InFlight
<1>5. OnlyShard(s) /\ shards'[s] = st
  BY <1>1, <1>2, UpdateOnly
<1>6. Sound(shards[s], Keys, Entry) /\ Cardinality(DOMAIN shards[s].entries) <= ShardCapacity(s)
  BY <1>2 DEF ShardOK
<1> HIDE DEF s, k, entry
<1>7. /\ k \in DOMAIN st.entries /\ st.entries[k] = entry
      /\ IsBack(st.order, k)
      /\ \A x \in DOMAIN st.entries \ {k} :
           x \in DOMAIN shards[s].entries /\ st.entries[x] = shards[s].entries[x]
      /\ \A a, b \in DOMAIN st.entries :
           a # k /\ Before(shards[s].order, a, b) => Before(st.order, a, b)
      /\ \A x \in DOMAIN shards[s].entries \ DOMAIN st.entries :
           /\ x # k
           /\ \/ is_expired(shards[s].entries[x], Ttl[c], entry.updated_at)
              \/ /\ k \notin DOMAIN shards[s].entries
                 /\ Cardinality(DOMAIN st.entries) = ShardCapacity(s)
                 /\ \A y \in DOMAIN st.entries \ {k} : Before(shards[s].order, x, y)
  BY <1>2, <1>3, <1>4, <1>6, AfterSetShape
<1> HIDE DEF st
<1> QED
  BY <1>1, <1>2, <1>3, <1>5, <1>7 DEF s, k, entry

(* Every other step leaves the shards alone.                                *)
LEMMA ShardSteps ==
  ASSUME Inv, [Next]_vars
  PROVE  \/ UNCHANGED shards
         \/ \E c \in Clients :
              ClientStep(c) /\ (WriteExpire(c) \/ WriteHit(c) \/ WriteSet(c) \/ Sweep(c))
BY DEF Next, Tick, vars, ClientStep, get_effective_grants, set_effective_grants,
       invalidate_principal, invalidate_role, invalidate_tenant, invalidate_all, Invalidate,
       Begin, ReadMiss, ReadHit, ReadDefer, WriteMiss

(* Only a hit gives an answer.                                              *)
LEMMA AnswerSteps ==
  ASSUME Inv, NEW c \in Clients, ClientStep(c), returned'[c] # Miss, returned[c] = Miss
  PROVE  ReadHit(c) \/ WriteHit(c)
<1>1. returned \in [Clients -> Grants \cup {Miss}]
  BY DEF Inv, TypeOK
<1>2. ASSUME NEW request, Begin(c, request) PROVE FALSE
  BY <1>1, <1>2 DEF Begin
<1>3. ~ Return(c, Miss)
  BY <1>1 DEF Return
<1> QED
  BY <1>2, <1>3 DEF ClientStep, get_effective_grants, set_effective_grants,
       invalidate_principal, invalidate_role, invalidate_tenant, invalidate_all, Invalidate,
       ReadMiss, ReadDefer, WriteMiss, WriteExpire, WriteSet, Sweep

-------------------------------------------------------------------------------
(* Action properties.                                                       *)

(* Time as a ttl counts it: what is not expired is within the ttl, and what *)
(* was expired at an instant of the past still is.                          *)
LEMMA TtlFacts ==
  ASSUME Inv, InFlight, NEW c \in Clients, call[c].op \in {"get_read", "get_write", "set"},
         NEW entry \in Entry
  PROVE  /\ ~ is_expired(entry, Ttl[c], call[c].now) =>
              (Ttl[c] # NoTtl => call[c].now <= entry.updated_at + Ttl[c])
         /\ is_expired(entry, Ttl[c], call[c].now) => TooOld(c, entry)
<1>1. call[c].now \in Nat
  BY DEF Inv, TypeOK, IdleCall, GetCall, SetCall, SweepCall
<1>2. clock \in Nat /\ call[c].now <= clock
  BY DEF Inv, TypeOK, InFlight
<1>3. entry.updated_at \in Nat
  BY DEF Entry
<1>4. Ttl[c] # NoTtl => Ttl[c] \in Nat
  BY TtlAssumption
<1> QED
  BY <1>1, <1>2, <1>3, <1>4 DEF is_expired, Elapsed, TooOld

LEMMA EntryType ==
  ASSUME Inv, NEW s \in ShardIds, NEW k \in DOMAIN shards[s].entries
  PROVE  k \in Keys /\ shards[s].entries[k] \in Entry /\ ShardIndex(k) = s
BY DEF Inv, TypeOK, IsShard, ShardOK

LEMMA HitIsLiveStep ==
  ASSUME Inv, InFlight, [Next]_vars, NEW c \in Clients, returned'[c] # Miss, returned[c] = Miss
  PROVE  LET k == call[c].key  st == shards[ShardIndex(k)] IN
         /\ k \in DOMAIN st.entries
         /\ returned'[c] = st.entries[k].grants
         /\ Ttl[c] # NoTtl => call[c].now <= st.entries[k].updated_at + Ttl[c]
<1>1. ClientStep(c)
  BY StepLocal DEF Next, Tick, vars
<1>2. ReadHit(c) \/ WriteHit(c)
  BY <1>1, AnswerSteps
<1>3. call[c].op \in {"get_read", "get_write"} /\ Found(c) /\ ~ Expired(c) /\ Return(c, Stored(c))
  BY <1>2 DEF ReadHit, WriteHit
<1>4. returned'[c] = Stored(c)
  BY <1>3 DEF Return, Inv, TypeOK
<1>5. Home(c) \in ShardIds
  BY <1>3, HomeFacts
<1>6. shards[Home(c)].entries[call[c].key] \in Entry
  BY <1>3, <1>5, EntryType DEF Found
<1>7. ~ is_expired(shards[Home(c)].entries[call[c].key], Ttl[c], call[c].now)
  BY <1>3 DEF Expired
<1>8. Ttl[c] # NoTtl => call[c].now <= shards[Home(c)].entries[call[c].key].updated_at + Ttl[c]
  BY <1>3, <1>6, <1>7, TtlFacts
<1> QED
  BY <1>3, <1>4, <1>8 DEF Found, Stored, Home

(* A step of c that ends, or moves on, a call of c.                         *)
LEMMA ClientSteps ==
  ASSUME Inv, NEW c \in Clients, WriteExpire(c) \/ WriteHit(c) \/ WriteSet(c) \/ Sweep(c)
  PROVE  Steps(c)
<1>1. ClientStep(c) /\ call[c].op # "idle"
  BY DEF ClientStep, WriteExpire, WriteHit, WriteSet, Sweep
<1>2. call[c].op # "get_read"
  BY DEF WriteExpire, WriteHit, WriteSet, Sweep
<1>3. call[c] # Idle
  BY <1>1 DEF Idle
<1> QED
  BY <1>1, <1>2, <1>3, OwnCall DEF Steps, Idle

LEMMA LossStep ==
  ASSUME Inv, InFlight, [Next]_vars, NEW s \in ShardIds, NEW k \in Lost(s)
  PROVE  \E c \in Clients :
           /\ Steps(c)
           /\ \/ call[c].op = "sweep" /\ k \in call[c].target
              \/ call[c].op = "get_write" /\ k = call[c].key /\ TooOld(c, shards[s].entries[k])
              \/ call[c].op = "set" /\ k # call[c].key /\ TooOld(c, shards[s].entries[k])
              \/ /\ call[c].op = "set"
                 /\ call[c].key \notin DOMAIN shards[s].entries
                 /\ Cardinality(DOMAIN shards'[s].entries) = ShardCapacity(s)
                 /\ \A x \in DOMAIN shards'[s].entries \ {call[c].key} :
                      Before(shards[s].order, k, x)
<1>1. k \in DOMAIN shards[s].entries /\ k \notin DOMAIN shards'[s].entries
  BY DEF Lost
<1>2. shards'[s] # shards[s]
  BY <1>1
<1>3. PICK c \in Clients : WriteExpire(c) \/ WriteHit(c) \/ WriteSet(c) \/ Sweep(c)
  BY <1>2, ShardSteps
<1>4. Steps(c)
  BY <1>3, ClientSteps
<1>5. shards[s].entries[k] \in Entry
  BY <1>1, EntryType
<1>6. CASE WriteExpire(c)
  <2>1. call[c].op = "get_write" /\ Expired(c) /\ Drops(Home(c), {call[c].key})
    BY <1>6, ExpireShape
  <2>2. s = Home(c) /\ k = call[c].key
    BY <1>1, <1>2, <2>1 DEF Drops, OnlyShard
  <2>3. is_expired(shards[s].entries[k], Ttl[c], call[c].now)
    BY <2>1, <2>2 DEF Expired
  <2>4. TooOld(c, shards[s].entries[k])
    BY <1>5, <2>1, <2>3, TtlFacts
  <2> QED
    BY <1>4, <2>1, <2>2, <2>4
<1>7. CASE WriteHit(c)
  <2>1. OnlyShard(Home(c)) /\ shards'[Home(c)].entries = shards[Home(c)].entries
    BY <1>7, HitShape
  <2> QED
    BY <1>1, <1>2, <2>1 DEF OnlyShard
<1>8. CASE WriteSet(c)
  <2>1. OnlyShard(Home(c)) /\ call[c].op = "set"
    BY <1>8, SetShape
  <2>2. s = Home(c)
    BY <1>2, <2>1 DEF OnlyShard
  <2>3. /\ k # call[c].key
        /\ \/ is_expired(shards[s].entries[k], Ttl[c], call[c].now)
           \/ /\ call[c].key \notin DOMAIN shards[s].entries
              /\ Cardinality(DOMAIN shards'[s].entries) = ShardCapacity(s)
              /\ \A x \in DOMAIN shards'[s].entries \ {call[c].key} : Before(shards[s].order, k, x)
    BY <1>1, <1>8, <2>2, SetShape
  <2>4. is_expired(shards[s].entries[k], Ttl[c], call[c].now) => TooOld(c, shards[s].entries[k])
    BY <1>5, <2>1, TtlFacts
  <2> QED
    BY <1>4, <2>1, <2>3, <2>4
<1>9. CASE Sweep(c)
  <2>1. call[c].op = "sweep" /\ Drops(call[c].next, call[c].target)
    BY <1>9, SweepShape
  <2>2. k \in call[c].target
    BY <1>1, <1>2, <2>1 DEF Drops, OnlyShard
  <2> QED
    BY <1>4, <2>1, <2>2
<1> QED
  BY <1>3, <1>6, <1>7, <1>8, <1>9

LEMMA RecencyStep ==
  ASSUME Inv, InFlight, [Next]_vars
  PROVE  /\ \A c \in Clients :
              Steps(c) /\ (call[c].op = "set" \/ returned'[c] # Miss) =>
                IsBack(shards'[Home(c)].order, call[c].key)
         /\ \A s \in ShardIds : \A a, b \in DOMAIN shards'[s].entries :
              Before(shards[s].order, a, b) /\ ~ Before(shards'[s].order, a, b) =>
                \E c \in Clients :
                  /\ Steps(c)
                  /\ call[c].op = "set" \/ returned'[c] # Miss
                  /\ call[c].key = a
<1>1. ASSUME NEW c \in Clients, Steps(c), call[c].op = "set" \/ returned'[c] # Miss
      PROVE  IsBack(shards'[Home(c)].order, call[c].key)
  <2>1. ClientStep(c)
    BY <1>1, StepLocal DEF Next, Tick, vars, Steps
  <2>2. CASE call[c].op = "set"
    <3>1. WriteSet(c)
      BY <2>1, <2>2 DEF ClientStep, get_effective_grants, set_effective_grants,
         invalidate_principal, invalidate_role, invalidate_tenant, invalidate_all, Invalidate,
         Begin, Idle, ReadMiss, ReadHit, ReadDefer, WriteMiss, WriteExpire, WriteHit, Sweep
    <3> QED
      BY <3>1, SetShape
  <2>3. CASE call[c].op # "set"
    <3>1. returned[c] = Miss
      <4>1. CASE call[c].op = "idle"
        BY <1>1, <2>1, <2>3, <4>1, OwnCall
      <4>2. CASE call[c].op # "idle"
        BY <4>2 DEF InFlight
      <4> QED
        BY <4>1, <4>2
    <3>2. ReadHit(c) \/ WriteHit(c)
      BY <1>1, <2>1, <2>3, <3>1, AnswerSteps
    <3>3. CASE ReadHit(c)
      BY <3>3 DEF ReadHit
    <3>4. CASE WriteHit(c)
      BY <3>4, HitShape
    <3> QED
      BY <3>2, <3>3, <3>4
  <2> QED
    BY <2>2, <2>3
<1>2. ASSUME NEW s \in ShardIds, NEW a \in DOMAIN shards'[s].entries,
             NEW b \in DOMAIN shards'[s].entries,
             Before(shards[s].order, a, b), ~ Before(shards'[s].order, a, b)
      PROVE  \E c \in Clients :
               /\ Steps(c)
               /\ call[c].op = "set" \/ returned'[c] # Miss
               /\ call[c].key = a
  <2>1. shards'[s] # shards[s]
    BY <1>2
  <2>2. PICK c \in Clients : WriteExpire(c) \/ WriteHit(c) \/ WriteSet(c) \/ Sweep(c)
    BY <2>1, ShardSteps
  <2>3. Steps(c)
    BY <2>2, ClientSteps
  <2>4. CASE WriteExpire(c)
    BY <1>2, <2>1, <2>4, ExpireShape DEF Drops, OnlyShard, OrderKept
  <2>5. CASE WriteHit(c)
    <3>1. s = Home(c) /\ call[c].key = a
      BY <1>2, <2>1, <2>5, HitShape DEF OnlyShard
    <3>2. returned'[c] = Stored(c)
      BY <2>5, HitShape DEF Return, Inv, TypeOK
    <3>3. Stored(c) \in Grants
      BY <2>5, HitShape, HomeFacts
    <3> QED
      BY <2>3, <3>1, <3>2, <3>3, MissAssumption
  <2>6. CASE WriteSet(c)
    <3>1. OnlyShard(Home(c)) /\ call[c].op = "set"
      BY <2>6, SetShape
    <3>2. s = Home(c)
      BY <2>1, <3>1 DEF OnlyShard
    <3>3. call[c].key = a
      BY <1>2, <2>6, <3>2, SetShape
    <3> QED
      BY <2>3, <3>1, <3>3
  <2>7. CASE Sweep(c)
    BY <1>2, <2>1, <2>7, SweepShape DEF Drops, OnlyShard, OrderKept
  <2> QED
    BY <2>2, <2>4, <2>5, <2>6, <2>7
<1> QED
  BY <1>1, <1>2

-------------------------------------------------------------------------------
(* The shards' shares add up to the capacity.                               *)

(* The shards below n together hold no more than their shares.              *)
HeldBelow(n) == UNION {DOMAIN shards[s].entries : s \in {r \in ShardIds : r < n}}
ShareBelow(n) ==
  n * (Capacity \div ShardCount)
    + (IF n <= Capacity % ShardCount THEN n ELSE Capacity % ShardCount)

LEMMA NextShare ==
  ASSUME NEW n \in ShardIds
  PROVE  /\ ShareBelow(n) \in Nat /\ ShareBelow(n + 1) \in Nat
         /\ ShareBelow(n + 1) = ShareBelow(n) + ShardCapacity(n)
<1> DEFINE q == Capacity \div ShardCount
           r == Capacity % ShardCount
<1>1. q \in Nat /\ r \in Nat /\ n \in Nat
  BY ShardCountType, CapacityAssumption DEF ShardIds
<1>2. /\ ShareBelow(n) = n * q + (IF n <= r THEN n ELSE r)
      /\ ShareBelow(n + 1) = (n + 1) * q + (IF n + 1 <= r THEN n + 1 ELSE r)
      /\ ShardCapacity(n) = q + (IF n < r THEN 1 ELSE 0)
  BY DEF ShareBelow, ShardCapacity
<1> HIDE DEF q, r
<1>3. n * q \in Nat /\ (n + 1) * q = n * q + q
  BY <1>1
<1> DEFINE nq == n * q
<1> HIDE DEF nq
<1>4. /\ nq \in Nat
      /\ ShareBelow(n) = nq + (IF n <= r THEN n ELSE r)
      /\ ShareBelow(n + 1) = nq + q + (IF n + 1 <= r THEN n + 1 ELSE r)
  BY <1>2, <1>3 DEF nq
<1> QED
  BY <1>1, <1>2, <1>4

LEMMA AllShares == ShareBelow(ShardCount) = Capacity
<1> DEFINE q == Capacity \div ShardCount
           r == Capacity % ShardCount
<1>1. /\ ShardCount \in Nat \ {0} /\ Capacity \in Nat
      /\ q \in Nat /\ r \in Nat /\ r < ShardCount
      /\ ShardCount * q + r = Capacity
  BY ShardCountType, CapacityAssumption
<1>2. ShareBelow(ShardCount) = ShardCount * q + (IF ShardCount <= r THEN ShardCount ELSE r)
  BY DEF ShareBelow
<1> HIDE DEF q, r
<1> QED
  BY <1>1, <1>2

LEMMA HeldWithinShares ==
  ASSUME Inv, NEW n \in 0 .. ShardCount
  PROVE  IsFiniteSet(HeldBelow(n)) /\ Cardinality(HeldBelow(n)) <= ShareBelow(n)
<1> DEFINE fits(m) == IsFiniteSet(HeldBelow(m)) /\ Cardinality(HeldBelow(m)) <= ShareBelow(m)
           failing == {m \in 0 .. ShardCount : ~ fits(m)}
<1>1. ShardCount \in Nat \ {0}
  BY ShardCountType
<1>2. fits(0)
  <2>1. {r \in ShardIds : r < 0} = {}
    BY DEF ShardIds
  <2>2. HeldBelow(0) = {}
    BY <2>1 DEF HeldBelow
  <2>3. 0 \in ShardIds
    BY <1>1 DEF ShardIds
  <2>4. IsFiniteSet({}) /\ Cardinality({}) = 0
    BY FS_EmptySet
  <2>5. ShareBelow(0) \in Nat
    BY <2>3, NextShare
  <2>6. 0 <= ShareBelow(0)
    BY <2>5
  <2>7. Cardinality(HeldBelow(0)) = 0
    BY <2>2, <2>4, Zenon
  <2> QED
    BY <2>2, <2>4, <2>6, <2>7
<1>3. ASSUME NEW m \in ShardIds, fits(m) PROVE fits(m + 1)
  <2> DEFINE A == HeldBelow(m)
             B == DOMAIN shards[m].entries
  <2>1. m \in Nat
    BY DEF ShardIds
  <2>2. {r \in ShardIds : r < m + 1} = {r \in ShardIds : r < m} \cup {m}
    BY <2>1 DEF ShardIds
  <2>3. HeldBelow(m + 1) = A \cup B
    BY <2>2 DEF HeldBelow
  <2>4. IsFiniteSet(B) /\ Cardinality(B) \in Nat /\ Cardinality(B) <= ShardCapacity(m)
    BY SoundFinite DEF Inv, ShardOK
  <2>5. IsFiniteSet(A) /\ Cardinality(A) <= ShareBelow(m)
    BY <1>3
  <2>6. ShareBelow(m) \in Nat /\ ShareBelow(m + 1) = ShareBelow(m) + ShardCapacity(m)
        /\ ShardCapacity(m) \in Nat
    BY NextShare, ShardCapacityType
  <2> HIDE DEF A, B
  <2>7. /\ IsFiniteSet(A \cup B)
        /\ Cardinality(A \cup B) = Cardinality(A) + Cardinality(B) - Cardinality(A \cap B)
    BY <2>4, <2>5, FS_Union
  <2>8. Cardinality(A \cap B) \in Nat /\ Cardinality(A) \in Nat
    <3>1. IsFiniteSet(A \cap B)
      BY <2>4, <2>5, FS_Intersection
    <3> QED
      BY <2>5, <3>1, FS_CardinalityType
  <2>9. Cardinality(A \cup B) <= ShareBelow(m + 1)
    BY <2>4, <2>5, <2>6, <2>7, <2>8
  <2> QED
    BY <2>3, <2>7, <2>9
<1> HIDE DEF fits
<1>4. failing = {}
  <2> SUFFICES ASSUME failing # {} PROVE FALSE
    OBVIOUS
  <2>1. failing \in SUBSET Nat
    BY <1>1
  <2>2. PICK m \in failing : \A x \in failing : m <= x
    BY <2>1, SmallestNat
  <2>3. m \in 0 .. ShardCount /\ ~ fits(m) /\ m # 0
    BY <1>2, <2>2
  <2>4. m - 1 \in ShardIds /\ m - 1 \in 0 .. ShardCount /\ (m - 1) + 1 = m /\ ~ (m <= m - 1)
    BY <1>1, <2>3 DEF ShardIds
  <2>5. fits(m - 1)
    BY <2>2, <2>4
  <2> QED
    BY <1>3, <2>3, <2>4, <2>5
<1> QED
  BY <1>4 DEF fits

LEMMA WithinCapacityHolds == Inv => WithinCapacity
<1> SUFFICES ASSUME Inv PROVE WithinCapacity
  OBVIOUS
<1>1. ShardCount \in Nat /\ ShardCount \in 0 .. ShardCount
  BY ShardCountType
<1>2. {r \in ShardIds : r < ShardCount} = ShardIds
  BY <1>1 DEF ShardIds
<1>3. HeldBelow(ShardCount) = Present
  BY <1>2 DEF HeldBelow, Present
<1> QED
  BY <1>1, <1>3, HeldWithinShares, AllShares DEF WithinCapacity

-------------------------------------------------------------------------------
(* The refinement of the cache contract.                                    *)

LEMMA StoredMeansPresent ==
  ASSUME Inv, NEW k \in Keys
  PROVE  StoredGrants[k] # Miss <=> k \in DOMAIN shards[ShardIndex(k)].entries
<1>1. ShardIndex(k) \in ShardIds
  BY ShardIndexType
<1>2. k \in DOMAIN shards[ShardIndex(k)].entries =>
        shards[ShardIndex(k)].entries[k].grants \in Grants
  BY <1>1, EntryType DEF Entry
<1> QED
  BY <1>2, MissAssumption DEF StoredGrants

LEMMA PendingStep ==
  ASSUME NEW c \in Clients, \A d \in Clients \ {c} : call'[d] = call[d]
  PROVE  PendingCalls' = [PendingCalls EXCEPT ![c] = AbstractCall(call'[c])]
BY DEF PendingCalls

LEMMA ReturnRefines ==
  ASSUME Inv, NEW c \in Clients, NEW answer \in Grants \cup {Miss}, Return(c, answer)
  PROVE  Contract!Return(c, answer)
<1>1. call'[c] = Idle /\ \A d \in Clients \ {c} : call'[d] = call[d]
  BY ReturnInv
<1>2. AbstractCall(Idle) = [op |-> "idle"]
  BY DEF AbstractCall, Idle
<1> QED
  BY <1>1, <1>2, PendingStep DEF Return, Contract!Return, Contract!NoCall

(* The section of shard s loses the keys of lost; it may store one new key. *)
LEMMA StoredStep ==
  ASSUME Inv, NEW s \in ShardIds, OnlyShard(s), NEW written \in SUBSET Keys,
         \A k \in written : ShardIndex(k) = s /\ k \in DOMAIN shards'[s].entries,
         \A x \in DOMAIN shards'[s].entries \ written :
           x \in DOMAIN shards[s].entries /\ shards'[s].entries[x] = shards[s].entries[x],
         NEW k \in Keys
  PROVE  StoredGrants'[k] = IF k \in Lost(s) THEN Miss
                            ELSE IF k \in written THEN shards'[s].entries[k].grants
                            ELSE StoredGrants[k]
<1>1. ShardIndex(k) \in ShardIds
  BY ShardIndexType
<1>2. StoredGrants'[k] = IF k \in DOMAIN shards'[ShardIndex(k)].entries
                         THEN shards'[ShardIndex(k)].entries[k].grants ELSE Miss
  BY DEF StoredGrants
<1>3. StoredGrants[k] = IF k \in DOMAIN shards[ShardIndex(k)].entries
                        THEN shards[ShardIndex(k)].entries[k].grants ELSE Miss
  BY DEF StoredGrants
<1>4. CASE ShardIndex(k) = s
  BY <1>2, <1>3, <1>4 DEF Lost
<1>5. CASE ShardIndex(k) # s
  <2>1. k \notin Lost(s) /\ k \notin written
    BY <1>5, EntryType DEF Lost
  <2>2. shards'[ShardIndex(k)] = shards[ShardIndex(k)]
    BY <1>1, <1>5 DEF OnlyShard
  <2> QED
    BY <1>2, <1>3, <2>1, <2>2
<1> QED
  BY <1>4, <1>5

LEMMA LoseRefines ==
  ASSUME Inv, NEW s \in ShardIds, NEW gone, Drops(s, gone), NEW st, Update(s, st, {})
  PROVE  Contract!Lose(Lost(s)) /\ Lost(s) \in SUBSET Keys
<1>1. OnlyShard(s) /\ shards'[s] = st
  BY UpdateOnly
<1>2. Lost(s) \in SUBSET Keys
  BY EntryType DEF Lost
<1>3. \A k \in Keys : StoredGrants'[k] = IF k \in Lost(s) THEN Miss ELSE StoredGrants[k]
  BY <1>1, StoredStep DEF Drops
<1>4. StoredGrants' = [k \in Keys |-> IF k \in Lost(s) THEN Miss ELSE StoredGrants[k]]
  BY <1>3 DEF StoredGrants
<1>5. owed' = [c \in Clients |-> owed[c] \ Lost(s)]
  BY <1>1 DEF Update, Lost
<1> QED
  BY <1>2, <1>4, <1>5 DEF Contract!Lose

(* Nothing is lost by a section that writes no shard.                       *)
LEMMA LoseNothing ==
  ASSUME Inv, UNCHANGED <<shards, owed>>
  PROVE  Contract!Lose({})
<1>1. StoredGrants' = StoredGrants
  BY DEF StoredGrants
<1>2. StoredGrants = [k \in Keys |-> StoredGrants[k]]
  BY DEF StoredGrants
<1>3. owed = [c \in Clients |-> owed[c]]
  BY DEF Inv, TypeOK
<1> HIDE DEF StoredGrants
<1>4. StoredGrants' = [k \in Keys |-> IF k \in {} THEN Miss ELSE StoredGrants[k]]
  BY <1>1, <1>2
<1>5. owed' = [c \in Clients |-> owed[c] \ {}]
  BY <1>3
<1> QED
  BY <1>4, <1>5 DEF Contract!Lose

LEMMA GetPending ==
  ASSUME NEW c \in Clients, call[c].op \in {"get_read", "get_write"}
  PROVE  /\ PendingCalls[c] = [op |-> "get", key |-> call[c].key]
         /\ PendingCalls[c] # Contract!NoCall /\ PendingCalls[c].op = "get"
         /\ PendingCalls[c].key = call[c].key
<1>1. AbstractCall(call[c]) = [op |-> "get", key |-> call[c].key]
  BY DEF AbstractCall
<1> QED
  BY <1>1 DEF PendingCalls, Contract!NoCall

LEMMA IdlePending ==
  ASSUME NEW c \in Clients, call[c] = Idle
  PROVE  PendingCalls[c] = Contract!NoCall
BY DEF PendingCalls, AbstractCall, Idle, Contract!NoCall

LEMMA AnswerRefines ==
  ASSUME Inv, NEW c \in Clients, call[c].op \in {"get_read", "get_write"},
         NEW answer \in Grants \cup {Miss}, Return(c, answer),
         answer = Miss \/ (Found(c) /\ answer = Stored(c)),
         NEW lost \in SUBSET Keys, Contract!Lose(lost)
  PROVE  Contract!Next
<1>1. Contract!Return(c, answer)
  BY ReturnRefines
<1>2. call[c].key \in Keys
  BY HomeFacts
<1>3. Found(c) => StoredGrants[PendingCalls[c].key] = Stored(c)
  BY <1>2, GetPending DEF StoredGrants, Found, Stored, Home
<1>4. Contract!Return(c, StoredGrants[PendingCalls[c].key]) \/ Contract!Return(c, Miss)
  BY <1>1, <1>3
<1>5. Contract!Answer(c, lost)
  BY <1>4, GetPending DEF Contract!Answer
<1> QED
  BY <1>5 DEF Contract!Next

LEMMA BeginRefines ==
  ASSUME Inv, NEW c \in Clients, NEW request \in GetCall \cup SetCall,
         request.op # "get_write", Begin(c, request), UNCHANGED owed
  PROVE  Contract!Next
<1>1. /\ call[c] = Idle /\ call'[c] = request /\ \A d \in Clients \ {c} : call'[d] = call[d]
      /\ returned' = [returned EXCEPT ![c] = Miss] /\ UNCHANGED shards
  BY DEF Begin, Inv, TypeOK
<1>2. AbstractCall(request) \in Contract!FillsAndGets
  <2>1. CASE request \in GetCall
    <3>1. AbstractCall(request) = [op |-> "get", key |-> request.key] /\ request.key \in Keys
      BY <2>1 DEF AbstractCall, GetCall
    <3> QED
      BY <3>1 DEF Contract!FillsAndGets
  <2>2. CASE request \in SetCall
    <3>1. /\ AbstractCall(request) = [op |-> "set", key |-> request.key, grants |-> request.grants]
          /\ request.key \in Keys /\ request.grants \in Grants
      BY <2>2 DEF AbstractCall, SetCall
    <3> QED
      BY <3>1 DEF Contract!FillsAndGets
  <2> QED
    BY <2>1, <2>2
<1>3. PendingCalls' = [PendingCalls EXCEPT ![c] = AbstractCall(request)]
  BY <1>1, PendingStep
<1>4. PendingCalls[c] = Contract!NoCall
  BY <1>1, IdlePending
<1>5. StoredGrants' = StoredGrants
  BY <1>1 DEF StoredGrants
<1>6. Contract!Call(c, AbstractCall(request))
  BY <1>1, <1>3, <1>4, <1>5 DEF Contract!Call
<1> QED
  BY <1>2, <1>6 DEF Contract!Next

LEMMA InvalidateRefines ==
  ASSUME Inv, NEW c \in Clients, NEW target \in SUBSET Keys, Invalidate(c, target)
  PROVE  Contract!Next
<1> DEFINE request == [op |-> "sweep", target |-> target, next |-> 0]
<1>1. /\ call[c] = Idle /\ call'[c] = request /\ \A d \in Clients \ {c} : call'[d] = call[d]
      /\ returned' = [returned EXCEPT ![c] = Miss] /\ UNCHANGED shards
      /\ owed' = [owed EXCEPT ![c] = target \cap Present]
  BY DEF Invalidate, Begin, Inv, TypeOK
<1>2. AbstractCall(request) = Contract!Sweeping
  BY DEF AbstractCall, Contract!Sweeping
<1>3. PendingCalls' = [PendingCalls EXCEPT ![c] = Contract!Sweeping]
  BY <1>1, <1>2, PendingStep
<1>4. PendingCalls[c] = Contract!NoCall
  BY <1>1, IdlePending
<1>5. StoredGrants' = StoredGrants
  BY <1>1 DEF StoredGrants
<1>6. target \cap Present = {k \in target : Contract!Filled(k)}
  <2> SUFFICES ASSUME NEW k \in target PROVE k \in Present <=> Contract!Filled(k)
    OBVIOUS
  <2>1. Contract!Filled(k) <=> k \in DOMAIN shards[ShardIndex(k)].entries
    BY StoredMeansPresent DEF Contract!Filled
  <2>2. ShardIndex(k) \in ShardIds
    BY ShardIndexType
  <2>3. k \in Present <=> k \in DOMAIN shards[ShardIndex(k)].entries
    BY <2>2, EntryType DEF Present
  <2> QED
    BY <2>1, <2>3
<1>7. Contract!CallInvalidate(c, target)
  BY <1>1, <1>3, <1>4, <1>5, <1>6 DEF Contract!CallInvalidate
<1> QED
  BY <1>7 DEF Contract!Next

LEMMA FillRefines ==
  ASSUME Inv, InFlight, NEW c \in Clients, WriteSet(c)
  PROVE  Contract!Next
<1> DEFINE s == Home(c)
           key == call[c].key
           lost == Lost(s)
<1>1. /\ call[c].op = "set" /\ key \in Keys /\ OnlyShard(s) /\ Return(c, Miss)
      /\ Update(s, shards'[s], {key})
      /\ key \in DOMAIN shards'[s].entries
      /\ shards'[s].entries[key] = [grants |-> call[c].grants, updated_at |-> call[c].now]
      /\ \A x \in DOMAIN shards'[s].entries \ {key} :
           x \in DOMAIN shards[s].entries /\ shards'[s].entries[x] = shards[s].entries[x]
  BY SetShape
<1>2. /\ PendingCalls[c] = [op |-> "set", key |-> key, grants |-> call[c].grants]
      /\ PendingCalls[c] # Contract!NoCall
  <2>1. AbstractCall(call[c]) = [op |-> "set", key |-> key, grants |-> call[c].grants]
    BY <1>1 DEF AbstractCall
  <2> QED
    BY <2>1 DEF PendingCalls, Contract!NoCall
<1>3. s \in ShardIds /\ ShardIndex(key) = s
  BY <1>1 DEF OnlyShard, Home
<1>4. \A k \in Keys : StoredGrants'[k] = IF k \in lost THEN Miss
                                         ELSE IF k = key THEN call[c].grants ELSE StoredGrants[k]
  <2> SUFFICES ASSUME NEW k \in Keys
               PROVE  StoredGrants'[k] = IF k \in lost THEN Miss
                                         ELSE IF k = key THEN call[c].grants ELSE StoredGrants[k]
    OBVIOUS
  <2> DEFINE written == {key}
  <2>1. written \in SUBSET Keys
        /\ \A x \in written : ShardIndex(x) = s /\ x \in DOMAIN shards'[s].entries
    BY <1>1, <1>3
  <2>2. \A x \in DOMAIN shards'[s].entries \ written :
          x \in DOMAIN shards[s].entries /\ shards'[s].entries[x] = shards[s].entries[x]
    BY <1>1
  <2> HIDE DEF s, written
  <2>3. StoredGrants'[k] = IF k \in Lost(s) THEN Miss
                           ELSE IF k \in written THEN shards'[s].entries[k].grants
                           ELSE StoredGrants[k]
    BY <1>1, <1>3, <2>1, <2>2, StoredStep
  <2> QED
    BY <1>1, <2>3 DEF written
<1>5. StoredGrants' = [k \in Keys |-> IF k \in lost THEN Miss
                                      ELSE IF k = key THEN call[c].grants ELSE StoredGrants[k]]
  BY <1>4 DEF StoredGrants
<1>6. owed' = [d \in Clients |-> owed[d] \ (lost \cup {key})]
  <2>1. owed' = [d \in Clients |-> owed[d] \ ({key} \cup lost)]
    BY <1>1 DEF Update, Lost
  <2>2. {key} \cup lost = lost \cup {key}
    OBVIOUS
  <2> QED
    BY <2>1, <2>2
<1>7. lost \in SUBSET Keys
  BY <1>3, EntryType DEF Lost
<1>8. Contract!Return(c, Miss)
  BY <1>1, ReturnRefines
<1> HIDE DEF s, key, lost
<1>9. Contract!Fill(c, lost)
  BY <1>2, <1>5, <1>6, <1>8 DEF Contract!Fill
<1> QED
  BY <1>7, <1>9 DEF Contract!Next

LEMMA SweepRefines ==
  ASSUME Inv, NEW c \in Clients, Sweep(c), OwedAhead'
  PROVE  Contract!Next
<1> DEFINE s == call[c].next
<1>1. call[c].op = "sweep" /\ Update(s, shards'[s], {}) /\ Drops(s, call[c].target)
  BY SweepShape
<1>2. s \in ShardIds
  BY <1>1 DEF Drops, OnlyShard
<1>3. Contract!Lose(Lost(s)) /\ Lost(s) \in SUBSET Keys
  BY <1>1, <1>2, LoseRefines
<1>4. PendingCalls[c] = Contract!Sweeping
  <2>1. AbstractCall(call[c]) = [op |-> "sweep"]
    BY <1>1 DEF AbstractCall
  <2> QED
    BY <2>1 DEF PendingCalls, Contract!Sweeping
<1>5. CASE s = ShardCount - 1
  <2>1. Return(c, Miss)
    BY <1>5 DEF Sweep
  <2>2. call'[c] = Idle /\ Contract!Return(c, Miss)
    BY <2>1, ReturnInv, ReturnRefines
  <2>3. owed'[c] = {}
    BY <2>2 DEF OwedAhead, Idle
  <2>4. owed'[c] = owed[c] \ Lost(s)
    BY <1>1 DEF Update, Lost
  <2>5. owed[c] \subseteq Lost(s)
    BY <2>3, <2>4
  <2>6. Contract!Finish(c, Lost(s))
    BY <1>3, <1>4, <2>2, <2>5 DEF Contract!Finish
  <2> QED
    BY <1>3, <2>6 DEF Contract!Next
<1>6. CASE s # ShardCount - 1
  <2>1. call' = [call EXCEPT ![c].next = @ + 1] /\ UNCHANGED returned
    BY <1>6 DEF Sweep
  <2>2. call[c] \in SweepCall
    BY <1>1 DEF Inv, TypeOK, IdleCall, GetCall, SetCall
  <2>3. call'[c].op = "sweep" /\ \A d \in Clients \ {c} : call'[d] = call[d]
    BY <1>1, <2>1, <2>2 DEF Inv, TypeOK, SweepCall
  <2>4. AbstractCall(call'[c]) = Contract!Sweeping
    BY <2>3 DEF AbstractCall, Contract!Sweeping
  <2>5. PendingCalls' = [PendingCalls EXCEPT ![c] = Contract!Sweeping]
    BY <2>3, <2>4, PendingStep
  <2>6. PendingCalls' = PendingCalls
    BY <1>4, <2>5 DEF PendingCalls
  <2>7. Contract!Clear(c, Lost(s))
    BY <1>3, <1>4, <2>1, <2>6 DEF Contract!Clear
  <2> QED
    BY <1>3, <2>7 DEF Contract!Next
<1> QED
  BY <1>5, <1>6

LEMMA ContractInit == Init => Contract!Init
<1> SUFFICES ASSUME Init PROVE Contract!Init
  OBVIOUS
<1>1. Inv
  BY InitInv
<1>2. \A k \in Keys : k \notin DOMAIN shards[ShardIndex(k)].entries
  BY ShardIndexType DEF Init, EmptyShard
<1>3. StoredGrants = [k \in Keys |-> Miss]
  BY <1>2 DEF StoredGrants
<1>4. PendingCalls = [c \in Clients |-> Contract!NoCall]
  BY IdlePending DEF Init, PendingCalls
<1> QED
  BY <1>3, <1>4 DEF Init, Contract!Init

LEMMA ContractStep == Inv /\ InFlight /\ [Next]_vars => [Contract!Next]_(Contract!vars)
<1> SUFFICES ASSUME Inv, InFlight, [Next]_vars
             PROVE  Contract!Next \/ UNCHANGED Contract!vars
  OBVIOUS
<1>1. Inv'
  BY NextInv
<1>2. CASE UNCHANGED <<shards, call, returned, owed>>
  <2>1. StoredGrants' = StoredGrants /\ PendingCalls' = PendingCalls
    BY <1>2 DEF StoredGrants, PendingCalls
  <2> QED
    BY <1>2, <2>1 DEF Contract!vars
<1>3. ASSUME NEW c \in Clients, ClientStep(c)
      PROVE  Contract!Next \/ UNCHANGED Contract!vars
  <2>1. ASSUME NEW k \in Keys, get_effective_grants(c, k) PROVE Contract!Next
    <3> DEFINE request == [op |-> "get_read", key |-> k, now |-> clock]
    <3>1. request \in GetCall /\ request.op # "get_write"
      BY DEF GetCall, Inv, TypeOK
    <3>2. Begin(c, request) /\ UNCHANGED owed
      BY <2>1 DEF get_effective_grants
    <3> HIDE DEF request
    <3> QED
      BY <3>1, <3>2, BeginRefines
  <2>2. ASSUME NEW k \in Keys, NEW g \in Grants, set_effective_grants(c, k, g)
        PROVE  Contract!Next
    <3> DEFINE request == [op |-> "set", key |-> k, grants |-> g, now |-> clock]
    <3>1. request \in SetCall /\ request.op # "get_write"
      BY DEF SetCall, Inv, TypeOK
    <3>2. Begin(c, request) /\ UNCHANGED owed
      BY <2>2 DEF set_effective_grants
    <3> HIDE DEF request
    <3> QED
      BY <3>1, <3>2, BeginRefines
  <2>3. CASE \/ \E t \in Tenants, p \in Principals : invalidate_principal(c, t, p)
             \/ \E t \in Tenants : invalidate_role(c, t) \/ invalidate_tenant(c, t)
             \/ invalidate_all(c)
    <3>1. PICK target \in SUBSET Keys : Invalidate(c, target)
      BY <2>3 DEF invalidate_principal, invalidate_role, invalidate_tenant, invalidate_all,
                  PrincipalKeys, TenantKeys
    <3> QED
      BY <3>1, InvalidateRefines
  <2>4. CASE ReadMiss(c) \/ WriteMiss(c)
    <3>1. /\ call[c].op \in {"get_read", "get_write"} /\ Return(c, Miss)
          /\ UNCHANGED <<shards, owed>>
      BY <2>4 DEF ReadMiss, WriteMiss
    <3>2. Contract!Lose({})
      BY <3>1, LoseNothing
    <3> QED
      BY <3>1, <3>2, AnswerRefines
  <2>5. CASE ReadHit(c)
    <3>1. /\ call[c].op = "get_read" /\ Found(c) /\ Return(c, Stored(c))
          /\ UNCHANGED <<shards, owed>>
      BY <2>5 DEF ReadHit
    <3>2. Contract!Lose({})
      BY <3>1, LoseNothing
    <3>3. Stored(c) \in Grants
      BY <3>1, HomeFacts
    <3> QED
      BY <3>1, <3>2, <3>3, AnswerRefines
  <2>6. CASE ReadDefer(c)
    <3>1. /\ call[c].op = "get_read" /\ call' = [call EXCEPT ![c].op = "get_write"]
          /\ UNCHANGED <<shards, returned, owed>>
      BY <2>6 DEF ReadDefer
    <3>2. call[c] \in GetCall
      BY <3>1 DEF Inv, TypeOK, IdleCall, SetCall, SweepCall
    <3>3. /\ call'[c].op = "get_write" /\ call'[c].key = call[c].key
          /\ \A d \in Clients \ {c} : call'[d] = call[d]
      BY <3>1, <3>2 DEF Inv, TypeOK, GetCall
    <3>4. AbstractCall(call'[c]) = PendingCalls[c]
      BY <3>1, <3>3, GetPending DEF AbstractCall
    <3>5. PendingCalls' = [PendingCalls EXCEPT ![c] = PendingCalls[c]]
      BY <3>3, <3>4, PendingStep
    <3>6. PendingCalls' = PendingCalls
      BY <3>5 DEF PendingCalls
    <3>7. StoredGrants' = StoredGrants
      BY <3>1 DEF StoredGrants
    <3> QED
      BY <3>1, <3>6, <3>7 DEF Contract!vars
  <2>7. CASE WriteExpire(c)
    <3> DEFINE s == Home(c)
    <3>1. /\ call[c].op = "get_write" /\ Return(c, Miss) /\ Drops(s, {call[c].key})
      BY <2>7, ExpireShape
    <3>2. s \in ShardIds /\ Update(s, remove_key(shards[s], call[c].key), {})
      BY <2>7, <3>1 DEF WriteExpire, Drops, OnlyShard
    <3> HIDE DEF s
    <3>3. Contract!Lose(Lost(s)) /\ Lost(s) \in SUBSET Keys
      BY <3>1, <3>2, LoseRefines
    <3> QED
      BY <3>1, <3>3, AnswerRefines
  <2>8. CASE WriteHit(c)
    <3> DEFINE s == Home(c)
    <3>1. /\ call[c].op = "get_write" /\ Found(c) /\ Return(c, Stored(c))
          /\ OnlyShard(s) /\ shards'[s].entries = shards[s].entries
      BY <2>8, HitShape
    <3>2. s \in ShardIds /\ Update(s, touch(shards[s], call[c].key), {}) /\ Stored(c) \in Grants
      BY <2>8, <3>1, HomeFacts DEF WriteHit, OnlyShard
    <3>3. shards'[s] = touch(shards[s], call[c].key)
      BY <3>2, UpdateOnly
    <3>4. Lost(s) = {}
      BY <3>1 DEF Lost
    <3>5. \A k \in Keys : StoredGrants'[k] = StoredGrants[k]
      <4> HIDE DEF s
      <4>1. \A k \in Keys : StoredGrants'[k] = IF k \in Lost(s) THEN Miss
                                               ELSE IF k \in {} THEN shards'[s].entries[k].grants
                                               ELSE StoredGrants[k]
        BY <3>1, <3>2, StoredStep
      <4> QED
        BY <3>4, <4>1
    <3>6. StoredGrants' = [k \in Keys |-> IF k \in {} THEN Miss ELSE StoredGrants[k]]
      BY <3>5 DEF StoredGrants
    <3>7. owed' = [d \in Clients |-> owed[d] \ {}]
      <4>1. owed' = [d \in Clients |-> owed[d] \ ({} \cup Lost(s))]
        BY <3>2, <3>3 DEF Update, Lost
      <4> QED
        BY <3>4, <4>1
    <3>8. Contract!Lose({})
      BY <3>6, <3>7 DEF Contract!Lose
    <3> QED
      BY <3>1, <3>2, <3>8, AnswerRefines
  <2>9. CASE WriteSet(c)
    BY <2>9, FillRefines
  <2>10. CASE Sweep(c)
    BY <1>1, <2>10, SweepRefines DEF Inv
  <2> QED
    BY <1>3, <2>1, <2>2, <2>3, <2>4, <2>5, <2>6, <2>7, <2>8, <2>9, <2>10 DEF ClientStep
<1> QED
  BY <1>2, <1>3 DEF Next, Tick, vars

-------------------------------------------------------------------------------
(* The theorems that need the calls in flight.                              *)

LEMMA InFlightInvariance == Spec => [](Inv /\ InFlight)
<1>1. Init => Inv /\ InFlight
  BY InitInv, InFlightInit
<1>2. (Inv /\ InFlight) /\ [Next]_vars => (Inv /\ InFlight)'
  BY NextInv, InFlightStep
<1> QED
  BY <1>1, <1>2, PTL DEF Spec

(* However the capacity divides among the shards, the cache as a whole      *)
(* never holds more entries than it was built for.                          *)
THEOREM TotalCapacityHolds == Spec => []WithinCapacity
BY WithinCapacityHolds, Invariance, PTL

(* A get never answers with an entry that had outlived the ttl when the get *)
(* began, nor with grants that are not stored under its key: whatever other *)
(* handles store, expire or invalidate between its read and write sections. *)
THEOREM HitsAreLive == Spec => HitIsLive
<1> DEFINE P == \A c \in Clients :
                  returned'[c] # Miss /\ returned[c] = Miss =>
                    LET k == call[c].key  st == shards[ShardIndex(k)] IN
                    /\ k \in DOMAIN st.entries
                    /\ returned'[c] = st.entries[k].grants
                    /\ Ttl[c] # NoTtl => call[c].now <= st.entries[k].updated_at + Ttl[c]
<1>1. (Inv /\ InFlight) /\ [Next]_vars => P
  BY HitIsLiveStep
<1>2. (Inv /\ InFlight) /\ [Next]_vars => [P]_vars
  BY <1>1
<1> QED
  BY <1>2, InFlightInvariance, PTL DEF Spec, HitIsLive

(* No entry disappears without a reason: an invalidation that targets it, a *)
(* ttl it has outlived, or the eviction by a set of the least recently used *)
(* entry of a full shard; a fresh entry is never taken for an expired one.  *)
THEOREM LossesAreJustified == Spec => LossJustified
<1> DEFINE P == \A s \in ShardIds : \A k \in Lost(s) : \E c \in Clients :
       /\ Steps(c)
       /\ \/ call[c].op = "sweep" /\ k \in call[c].target
          \/ call[c].op = "get_write" /\ k = call[c].key /\ TooOld(c, shards[s].entries[k])
          \/ call[c].op = "set" /\ k # call[c].key /\ TooOld(c, shards[s].entries[k])
          \/ /\ call[c].op = "set"
             /\ call[c].key \notin DOMAIN shards[s].entries
             /\ Cardinality(DOMAIN shards'[s].entries) = ShardCapacity(s)
             /\ \A x \in DOMAIN shards'[s].entries \ {call[c].key} :
                  Before(shards[s].order, k, x)
<1>1. (Inv /\ InFlight) /\ [Next]_vars => P
  BY LossStep
<1>2. (Inv /\ InFlight) /\ [Next]_vars => [P]_vars
  BY <1>1
<1> QED
  BY <1>2, InFlightInvariance, PTL DEF Spec, LossJustified

(* The deque of every shard stays in order of use: a set and a hit put      *)
(* their key at the back, and no step swaps two keys otherwise.             *)
THEOREM RecencyHolds == Spec => OrderIsRecency
<1> DEFINE P ==
     /\ \A c \in Clients :
          Steps(c) /\ (call[c].op = "set" \/ returned'[c] # Miss) =>
            IsBack(shards'[Home(c)].order, call[c].key)
     /\ \A s \in ShardIds : \A a, b \in DOMAIN shards'[s].entries :
          Before(shards[s].order, a, b) /\ ~ Before(shards'[s].order, a, b) =>
            \E c \in Clients :
              /\ Steps(c)
              /\ call[c].op = "set" \/ returned'[c] # Miss
              /\ call[c].key = a
<1>1. (Inv /\ InFlight) /\ [Next]_vars => P
  BY RecencyStep
<1>2. (Inv /\ InFlight) /\ [Next]_vars => [P]_vars
  BY <1>1
<1> QED
  BY <1>2, InFlightInvariance, PTL DEF Spec, OrderIsRecency

(* The cache implements the contract the engine relies on: hidden behind    *)
(* the Cache trait, every section under a shard lock is a step of the lossy *)
(* map of LossyCache, or changes nothing of it.                             *)
THEOREM ContractHolds == Spec => ImplementsContract
BY ContractInit, ContractStep, InFlightInvariance, PTL DEF Spec, ImplementsContract, Contract!Spec
===============================================================================
