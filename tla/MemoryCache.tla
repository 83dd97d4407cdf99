------------------------------ MODULE MemoryCache ------------------------------
(***************************************************************************)
(* The sharded LRU cache of effective grants (src/memory_cache.rs), used   *)
(* by several threads at once.  A step of a thread is one section of code  *)
(* under one shard lock: a get is a read section and, when that does not   *)
(* settle it, a write section; a set is a write section; an invalidation   *)
(* is one write section per shard.  Instants are read before the lock is   *)
(* taken, so the clock may advance and other threads may hold the lock in  *)
(* between.                                                                *)
(***************************************************************************)
EXTENDS CacheShard

CONSTANTS
  Clients,          \* threads, each with its own handle (clone) of the cache
  Tenants, Principals, Signatures,
  Keys,             \* the cache keys in use
  Grants,           \* the grant lists callers store
  Miss,             \* Option::None returned by a get
  Capacity,         \* MemoryCache::new(capacity)
  RequestedShards,  \* with_shards(shards)
  Hash,             \* the hasher's value of each key
  Ttl,              \* the ttl of each client's handle (with_ttl is per handle)
  MaxTime           \* bound on the clock

ASSUME KeysAssumption ==
  Keys \subseteq [tenant : Tenants, principal : Principals, config_signature : Signatures]
ASSUME MissAssumption == Miss \notin Grants
ASSUME CapacityAssumption == Capacity \in Nat /\ RequestedShards \in Nat
ASSUME HashAssumption == Hash \in [Keys -> Nat]
ASSUME TtlAssumption == Ttl \in [Clients -> Nat \cup {NoTtl}]
ASSUME MaxTimeAssumption == MaxTime \in Nat

ShardCount == IF Capacity = 0 THEN 1
              ELSE Min({Max({RequestedShards, 1}), Capacity})
ShardIds == 0 .. ShardCount - 1

(* Variant: every shard gets the rounded-up share.                          *)
ShardCapacity_rounded_up(s) ==
  (Capacity \div ShardCount) + (IF Capacity % ShardCount # 0 THEN 1 ELSE 0)

ShardCapacity(s) ==
  (Capacity \div ShardCount) + (IF s < Capacity % ShardCount THEN 1 ELSE 0)
ShardIndex(k) == Hash[k] % ShardCount

VARIABLES
  clock,      \* Instant::now()
  shards,     \* the shards' states
  call,       \* the call each client is in, with what it has captured
  returned,   \* the answer of each client's last get (Miss otherwise)
  owed        \* history: the keys each running invalidation has still to clear

vars == <<clock, shards, call, returned, owed>>

IdleCall  == [op : {"idle"}]
GetCall   == [op : {"get_read", "get_write"}, key : Keys, now : Nat]
SetCall   == [op : {"set"}, key : Keys, grants : Grants, now : Nat]
SweepCall == [op : {"sweep"}, target : SUBSET Keys, next : ShardIds]
Entry     == [grants : Grants, updated_at : Nat]

TypeOK ==
  /\ clock \in Nat
  /\ DOMAIN shards = ShardIds
  /\ \A s \in ShardIds : IsShard(shards[s], Keys, Entry)
  /\ call \in [Clients -> IdleCall \cup GetCall \cup SetCall \cup SweepCall]
  /\ returned \in [Clients -> Grants \cup {Miss}]
  /\ owed \in [Clients -> SUBSET Keys]

Idle == [op |-> "idle"]
Present == UNION {DOMAIN shards[s].entries : s \in ShardIds}

Init ==
  /\ clock = 0
  /\ shards = [s \in ShardIds |-> EmptyShard]
  /\ call = [c \in Clients |-> Idle]
  /\ returned = [c \in Clients |-> Miss]
  /\ owed = [c \in Clients |-> {}]

-------------------------------------------------------------------------------
(* Calls.  With capacity 0 a get and a set return before they do anything.  *)

Begin(c, request) ==
  /\ call[c] = Idle
  /\ call' = [call EXCEPT ![c] = request]
  /\ returned' = [returned EXCEPT ![c] = Miss]
  /\ UNCHANGED <<clock, shards>>

get_effective_grants(c, k) ==
  /\ Capacity # 0
  /\ Begin(c, [op |-> "get_read", key |-> k, now |-> clock])
  /\ UNCHANGED owed

set_effective_grants(c, k, g) ==
  /\ Capacity # 0
  /\ Begin(c, [op |-> "set", key |-> k, grants |-> g, now |-> clock])
  /\ UNCHANGED owed

Invalidate(c, target) ==
  /\ Begin(c, [op |-> "sweep", target |-> target, next |-> 0])
  /\ owed' = [owed EXCEPT ![c] = target \cap Present]

PrincipalKeys(t, p) == {k \in Keys : k.tenant = t /\ k.principal = p}
TenantKeys(t) == {k \in Keys : k.tenant = t}

invalidate_principal(c, t, p) == Invalidate(c, PrincipalKeys(t, p))
invalidate_tenant(c, t) == Invalidate(c, TenantKeys(t))
invalidate_role(c, t) == invalidate_tenant(c, t)
invalidate_all(c) == Invalidate(c, Keys)

-------------------------------------------------------------------------------
(* The locked sections.                                                     *)

Return(c, answer) ==
  /\ call' = [call EXCEPT ![c] = Idle]
  /\ returned' = [returned EXCEPT ![c] = answer]

(* The section of c leaves shard s in state st, having stored a new entry   *)
(* under the keys of written (a singleton or nothing).                      *)
Update(s, st, written) ==
  /\ shards' = [shards EXCEPT ![s] = st]
  /\ owed' = [c \in Clients |->
                owed[c] \ (written \cup (DOMAIN shards[s].entries \ DOMAIN st.entries))]
  /\ UNCHANGED clock

Home(c) == ShardIndex(call[c].key)
Found(c) == call[c].key \in DOMAIN shards[Home(c)].entries
Expired(c) == is_expired(shards[Home(c)].entries[call[c].key], Ttl[c], call[c].now)
Stored(c) == shards[Home(c)].entries[call[c].key].grants

(* The read section settles the get when the key is absent, or live and at  *)
(* the back of the deque already; otherwise the write lock is needed.       *)
ReadMiss(c) ==
  /\ call[c].op = "get_read"
  /\ ~ Found(c)
  /\ Return(c, Miss)
  /\ UNCHANGED <<clock, shards, owed>>

ReadHit(c) ==
  /\ call[c].op = "get_read"
  /\ Found(c) /\ ~ Expired(c) /\ IsBack(shards[Home(c)].order, call[c].key)
  /\ Return(c, Stored(c))
  /\ UNCHANGED <<clock, shards, owed>>

ReadDefer(c) ==
  /\ call[c].op = "get_read"
  /\ Found(c) /\ (Expired(c) \/ ~ IsBack(shards[Home(c)].order, call[c].key))
  /\ call' = [call EXCEPT ![c].op = "get_write"]
  /\ UNCHANGED <<clock, shards, returned, owed>>

(* The write section looks again, with the instant read before both locks.  *)
WriteMiss(c) ==
  /\ call[c].op = "get_write"
  /\ ~ Found(c)
  /\ Return(c, Miss)
  /\ UNCHANGED <<clock, shards, owed>>

(* Variants: what the read section saw is not looked at again.              *)
WriteExpire_unchecked(c) ==
  /\ call[c].op = "get_write"
  /\ Update(Home(c), remove_key(shards[Home(c)], call[c].key), {})
  /\ Return(c, Miss)
WriteHit_unchecked(c) ==
  /\ call[c].op = "get_write"
  /\ Found(c)
  /\ Update(Home(c), touch(shards[Home(c)], call[c].key), {})
  /\ Return(c, Stored(c))

WriteExpire(c) ==
  /\ call[c].op = "get_write"
  /\ Found(c) /\ Expired(c)
  /\ Update(Home(c), remove_key(shards[Home(c)], call[c].key), {})
  /\ Return(c, Miss)

WriteHit(c) ==
  /\ call[c].op = "get_write"
  /\ Found(c) /\ ~ Expired(c)
  /\ Update(Home(c), touch(shards[Home(c)], call[c].key), {})
  /\ Return(c, Stored(c))

AfterSet(st, k, entry, ttl, capacity) ==
  evict_if_needed(touch(insert(prune_expired(st, ttl, entry.updated_at), k, entry), k),
                  capacity)

WriteSet(c) ==
  /\ call[c].op = "set"
  /\ Update(Home(c),
            AfterSet(shards[Home(c)], call[c].key,
                     [grants |-> call[c].grants, updated_at |-> call[c].now],
                     Ttl[c], ShardCapacity(Home(c))),
            {call[c].key})
  /\ Return(c, Miss)

(* Variants: the sweep returns after its first shard; it runs past its last.*)
Sweep_first_only(c) ==
  /\ call[c].op = "sweep"
  /\ Update(call[c].next, RemoveAll(shards[call[c].next], call[c].target), {})
  /\ Return(c, Miss)
Sweep_past_end(c) ==
  /\ call[c].op = "sweep" /\ call[c].next \in ShardIds
  /\ Update(call[c].next, RemoveAll(shards[call[c].next], call[c].target), {})
  /\ call' = [call EXCEPT ![c].next = @ + 1]
  /\ UNCHANGED returned

(* An invalidation clears the shards one after the other and returns after  *)
(* the last.                                                                *)
Sweep(c) ==
  /\ call[c].op = "sweep"
  /\ Update(call[c].next, RemoveAll(shards[call[c].next], call[c].target), {})
  /\ IF call[c].next = ShardCount - 1
     THEN Return(c, Miss)
     ELSE /\ call' = [call EXCEPT ![c].next = @ + 1]
          /\ UNCHANGED returned

Tick ==
  /\ clock < MaxTime
  /\ clock' = clock + 1
  /\ UNCHANGED <<shards, call, returned, owed>>

ClientStep(c) ==
  \/ \E k \in Keys : get_effective_grants(c, k)
  \/ \E k \in Keys, g \in Grants : set_effective_grants(c, k, g)
  \/ \E t \in Tenants, p \in Principals : invalidate_principal(c, t, p)
  \/ \E t \in Tenants : invalidate_role(c, t) \/ invalidate_tenant(c, t)
  \/ invalidate_all(c)
  \/ ReadMiss(c) \/ ReadHit(c) \/ ReadDefer(c)
  \/ WriteMiss(c) \/ WriteExpire(c) \/ WriteHit(c)
  \/ WriteSet(c) \/ Sweep(c)

Next == Tick \/ \E c \in Clients : ClientStep(c)

Spec == Init /\ [][Next]_vars
-------------------------------------------------------------------------------
(* Properties.                                                              *)

(* Shard state stays sound whatever order threads take the locks in: every  *)
(* shard's deque lists exactly the keys of its map, each once, and a key is *)
(* only ever in the shard its hash selects.  Eviction relies on it: a key   *)
(* missing from the deque could never be evicted, a key listed twice would  *)
(* be evicted while in use.                                                 *)
ShardsCoherent ==
  \A s \in ShardIds :
    /\ Coherent(shards[s])
    /\ \A k \in DOMAIN shards[s].entries : ShardIndex(k) = s

(* Between two sections no shard holds more entries than its share of the   *)
(* capacity, whatever order sets and expiring gets take the lock in.        *)
ShardsWithinCapacity ==
  \A s \in ShardIds : Cardinality(DOMAIN shards[s].entries) <= ShardCapacity(s)

(* Altogether the cache never holds more entries than it was built for: the *)
(* shards' shares add up to no more, when the division leaves a remainder   *)
(* and when more shards were requested than there is capacity for.          *)
WithinCapacity == Cardinality(Present) <= Capacity

(* When an invalidation has returned, no entry it targets that was stored   *)
(* before the call is left, although it takes the shards' locks one by one. *)
InvalidationComplete ==
  \A c \in Clients : owed[c] # {} => call[c].op = "sweep"

(* A get never answers with an entry that had outlived its handle's ttl at  *)
(* the instant the get began, nor with grants other than those stored under *)
(* its key when it answers.                                                 *)
HitIsLive ==
  [][\A c \in Clients :
       returned'[c] # Miss /\ returned[c] = Miss =>
         LET k == call[c].key  st == shards[ShardIndex(k)] IN
         /\ k \in DOMAIN st.entries
         /\ returned'[c] = st.entries[k].grants
         /\ Ttl[c] # NoTtl => call[c].now <= st.entries[k].updated_at + Ttl[c]]_vars

Lost(s) == DOMAIN shards[s].entries \ DOMAIN shards'[s].entries
Steps(c) == call'[c] # call[c]
TooOld(c, entry) == Ttl[c] # NoTtl /\ clock > entry.updated_at + Ttl[c]

(* An entry disappears only for a reason: an invalidation that targets it,  *)
(* a get or set whose handle's ttl it has outlived by now (a get that found *)
(* an expired entry must not remove the fresh one stored since), or the     *)
(* eviction of the least recently used entry of a full shard by a set.      *)
LossJustified ==
  [][\A s \in ShardIds : \A k \in Lost(s) : \E c \in Clients :
       /\ Steps(c)
       /\ \/ call[c].op = "sweep" /\ k \in call[c].target
          \/ call[c].op = "get_write" /\ k = call[c].key /\ TooOld(c, shards[s].entries[k])
          \/ call[c].op = "set" /\ k # call[c].key /\ TooOld(c, shards[s].entries[k])
          \/ /\ call[c].op = "set"
             /\ call[c].key \notin DOMAIN shards[s].entries
             /\ Cardinality(DOMAIN shards'[s].entries) = ShardCapacity(s)
             /\ \A x \in DOMAIN shards'[s].entries \ {call[c].key} :
                  Before(shards[s].order, k, x)]_vars

(* The deque is in order of use: a hit or a set leaves its key at the back  *)
(* and no step changes the order of two keys unless it uses one of them.    *)
OrderIsRecency ==
  [][/\ \A c \in Clients :
          Steps(c) /\ (call[c].op = "set" \/ returned'[c] # Miss) =>
            IsBack(shards'[Home(c)].order, call[c].key)
     /\ \A s \in ShardIds : \A a, b \in DOMAIN shards'[s].entries :
          Before(shards[s].order, a, b) /\ ~ Before(shards'[s].order, a, b) =>
            \E c \in Clients :
              /\ Steps(c)
              /\ call[c].op = "set" \/ returned'[c] # Miss
              /\ call[c].key = a]_vars

(* The cache keeps the promise of the Cache trait: seen without shards,     *)
(* order and time it is the lossy map of LossyCache.                        *)
StoredGrants ==
  [k \in Keys |-> IF k \in DOMAIN shards[ShardIndex(k)].entries
                  THEN shards[ShardIndex(k)].entries[k].grants
                  ELSE Miss]
AbstractCall(x) ==
  CASE x.op = "idle" -> Idle
    [] x.op \in {"get_read", "get_write"} -> [op |-> "get", key |-> x.key]
    [] x.op = "set" -> [op |-> "set", key |-> x.key, grants |-> x.grants]
    [] x.op = "sweep" -> [op |-> "sweep"]
PendingCalls == [c \in Clients |-> AbstractCall(call[c])]
Contract == INSTANCE LossyCache WITH stored <- StoredGrants, pending <- PendingCalls
ImplementsContract == Contract!Spec
===============================================================================
