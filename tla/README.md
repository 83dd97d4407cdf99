# A TLA+ model of rs-tenant

rs-tenant decides whether a principal of a tenant may do something: it reads
role assignments, role inheritance and role permissions from a source the
application owns, combines them into grants, caches these, and answers requests
from them; HTTP layers put it in front of an application's handlers. This
directory holds TLA+ modules of the cache, the role expansion, the tenant and
the platform engine, the scope paths and the HTTP layers, TLC configurations
that check them on small instances, and TLAPS proofs of what holds for every
instance. Paths below are
the repository's.

## The system

| component | state | operations | interacts with |
|---|---|---|---|
| `MemoryCache` (`src/memory_cache.rs`) | shards, each a map and a deque behind an `RwLock`; a ttl per handle | get, set, invalidate principal / role / tenant / all | called by the engine from any thread; clones share shards |
| `Cache`, `NoCache` (`src/cache.rs`) | none | the same, as a trait | what the engine relies on |
| `expand_roles` (`src/role_hierarchy.rs`) | local: stack, visiting, visited, output | the walk, one await per role | reads `parent_roles`; used by both engines |
| `Engine` (`src/engine.rs`) | immutable configuration; locals of each request | `can_tenant`, `can_access_scope`, `accessible_scope`, `explain_*`, `invalidate_*` | awaits the source and the cache |
| `AuthorizationSource`, `MemorySource` (`src/source.rs`, `src/memory_source.rs`) | five maps, a lock each | five reads, five edits | read by the engine, edited by the application |
| scopes, permissions (`src/scope.rs`, `src/permission.rs`) | values | coverage, compaction, merge, matching, parsing | pure |
| `PlatformEngine` (`src/platform/`) | as the engine, no cache | `can_platform`, `accessible_tenants`, `can_access_tenant`, `can_access_tenant_scope` | its own source, `expand_roles` |
| middleware, JWT (`src/axum.rs`) | none; the request and its extensions | decode the token, look up the subject, decide, await readiness, call the inner service, extract | the engines; other layers of the application above and below |

What is hard about it, and what makes each part correct:

- **Cache.** Threads interleave between the read and the write section of a
  get, between reading the instant and taking the lock, and between the shards
  of an invalidation. Map and deque must stay in step, capacity must hold, only
  the least recently used entry may be evicted, an expired entry may not be
  answered, and a fresh one may not be removed by a get that saw its
  predecessor; a returned invalidation must have been complete.
- **Role expansion.** The source may change between two reads. The walk must end,
  return exactly the ancestors of a role when nothing changes, notice cycles,
  respect the depth limit, and not mistake a role reached twice for a cycle.
- **Engine.** A request reads at many awaits, may fail or be dropped at each, and
  runs beside others of the same subject, beside edits and beside
  invalidations. Nothing partial may reach the cache; tenants, subjects and
  configurations may not be mixed up in it; a deactivated tenant or member may
  not be allowed, however stale the cache is.
- **Platform.** As the engine, and: path-level and tenant-level grants of one
  permission are an error, so a further grant can take access away.
- **Scope paths.** Compaction relies on the order of texts, in which paths that
  are no descendants sort between a path and its descendants; a prefix is an
  ancestor only with the slash. Compaction must keep exactly the coverage.
- **Middleware.** The decision is taken before the inner service is ready; the
  identity travels in request extensions that several layers write and two of
  which may disagree; the token may expire between the layer that verified it
  and the extractor. Nobody may be served without right, a status must mean
  what it says, and a limit below must hold.

`PROJECT.json` lists these as hazards, each at its line, with the properties
that would catch it going wrong.

## Modules

| module | models | its state and steps |
|---|---|---|
| `CacheShard` | `CacheState` and its private helpers | operators from a shard state to the next |
| `MemoryCache` | `MemoryCache` used by several threads | `shards`, `clock`; per client the call it is in with what it captured, and its answer. A step is one section under one shard lock |
| `LossyCache` | the promise of the `Cache` trait | the map of stored grants, the pending calls; entries may be lost at any step. Abstract specification of `MemoryCache`, and the cache of `TenantEngine` |
| `ExpandRoles` | the locals of `expand_from` | operators on a walk: stack, visiting, visited, output |
| `RoleHierarchy` | one `expand_roles` call | the graph, the walk, the outcome. A step runs to the next read, or is a turn of the loop that reads nothing; `Edit` replaces the parents of a role |
| `AccessScopes` | `merge`, `compact_paths`, `allows`, `matches`, the explanations | pure operators |
| `TenantEngine` | `Engine` with tasks, administrators and edits | `source`, the cache, and per task where it is and its locals. A step runs from one await to the next |
| `PlatformScopes` | `PlatformGrantScope`, `TenantDataAccessScope` | pure operators |
| `PlatformEngine` | one request to a `PlatformEngine`, its source edited | `source`, where the request is, its locals; the expansion is an instance of `RoleHierarchy` on the request's own walk. A step runs from one await to the next |
| `ScopePaths` | `ScopePath`, `ScopeRoots`, `GrantScope`, `AccessScope`, `compact_paths` on texts | the grants to be made, those made, the rest of the `BTreeSet` and the paths kept. A step is a call, or a turn of the loop of `compact_paths` |
| `AuthorizeStack` | both authorization services, `JwtAuthService`, both extractors, in stacks with layers of the application | the stack, what the engines grant, the expired tokens; per request where it is, its header and extensions, the permits it holds. A step runs to the next await |
| `MC*` | | instances for TLC |
| `SequenceLemmas`, `CacheShardProofs`, `MemoryCacheProofs`, `RoleHierarchyProofs`, `TenantEngineProofs`, `PlatformEngineProofs`, `ScopePathsProofs`, `AuthorizeStackProofs` | | theorems |

How code corresponds to actions:

- A get is `get_effective_grants` (key and instant captured), then `ReadMiss`,
  `ReadHit` or `ReadDefer` (read lock), then after `ReadDefer` one of
  `WriteMiss`, `WriteExpire`, `WriteHit` (write lock). A set is
  `set_effective_grants`, then `WriteSet`: prune, insert, touch, evict, under one
  lock. An invalidation is a call, then one `Sweep` per shard. `invalidate_role`
  invalidates the tenant, as the code does.
- `expand_from` is `Enter` (the root's read), then per turn of its loop one of
  `DepthExceeded`, `CycleDetected`, `SkipVisited`, `Visit` (with its read) or
  `LeaveRole`, and `Finish`; checks are in the order of the code.
- A request is `explain`, `ReadTenantStatus`, `ReadMembershipStatus`,
  `CacheAnswers`; on a miss `ReadAssignments`, then per assignment
  `TakeAssignment`, the walk, and `ReadPermissions` per role;
  `FinishAssignments`, `CacheStores`. `Decide` filters, merges and explains, in
  the step that has the grants. `SourceFails` and `Dropped` are possible at
  every read.

- A platform request is `ReadPrincipalStatus`, `ReadAssignments`, then per
  assignment `TakeAssignment`, `Expand` (any step of `RoleHierarchy`),
  `ExpansionReturns` or `ExpansionFails`, and `ReadPermissions` per role; then
  `FinishAssignments`, which filters, merges and decides. `SourceFails` is
  possible at every read.

- A grant is `GrantTenant`, or `GrantPaths` (parse each text), a `Take` per path
  in the order of the set, and `GrantMade`. `Deserialize`, `Take`s and
  `Deserialized` read the last grant back. A query is `Merge`, which ends at once
  if a grant is of the whole tenant or none has roots, else `Take`s and `Merged`.
- An HTTP request is `Arrive`, then per layer `BecomesReady` (the readiness of the
  clone is awaited, and the call follows at once) and what the layer does:
  `Authenticate` (decode, write three extensions, or answer 401), `Authorize`
  (find the subject, or answer 401) and later `Decide` or `EngineFails`,
  `Insert` and `PassLimit` (layers of the application), at the bottom
  `FromRequestParts`, `ExtractSubject` or `ExtractNothing`, then `HandlerEnds`.
  `ReadinessFails` and `Dropped` are possible at every await.

Abstractions, with their reasons:

- Identifiers are model values, permissions pairs of parts one of which may be
  the wildcard. Paths are sequences of segments, except in `ScopePaths`, where
  they are ASCII texts as sequences of bytes. Other parsing, normalisation and
  serialisation are left out.
- `VecDeque` is a sequence, `HashMap` a function on its keys, `usize` a natural
  number: nothing counts beyond the capacity or the depth limit plus one.
- Lists the source returns are sets delivered in any order: `MemorySource` keeps
  parents and permissions in hash sets. Duplicate assignments give duplicate
  grants, which no decision tells apart.
- `AccessScopes` defines `compact_paths` by its result, on paths as sequences of
  segments; `ScopesAgree` states that the loop in `ScopePaths`, on texts, comes to
  the same, and is proved.
- In `AuthorizeStack` an engine is the set of pairs that it grants, sampled at one
  moment between the call and the answer. `TenantEngine` and `PlatformEngine`
  say how an answer relates to the source. Signing keys and claims are a
  function of the token: decoding is the `jsonwebtoken` library. Only tokens in
  `Expiring` expire, so that the others show what happens when nothing does.
- A limit hands its permit to the request that was ready and takes it back with
  the answer, as tower's `ConcurrencyLimit` does, whose wait is a FIFO queue.
  Two limits directly on top of one another are left out: the outer one asks
  the inner for readiness when it is asked itself.
- An application may put a subject of its own beside the context of a token, or
  read one token as two types of claims; the two may then be of different
  subjects. `SeesAuthorized` is therefore stated for stacks with `OneSource`:
  one source of identity that the handler asks too.
- Edits of the source also take away, as an application's store does;
  `MemorySource` itself can only add and change statuses. Each edit is
  atomic, as each map's lock makes it.
- The caches of this crate never suspend, so a request is dropped at reads of
  the source only.
- One platform request is modelled: requests share nothing but the source, and
  one that is dropped has changed nothing. It ends, so the run does not check
  deadlock.
- Poisoned locks are recovered from in the code and are not distinguished.

`TenantEngine` carries four history variables that no guard reads except the
bound on edits: `edits` counts edits; `cleared` holds the keys with an
invalidation that was called after the last edit of what their grants are
computed from and has returned; `fenced` those of them for which, at that call,
no request still held reads from before the edit; `armed` is what running
invalidations will add to the two. The field `changed` of a task says whether
an edit overtook it. `PlatformEngine` carries `ever` and `always`: what the
source has held at some moment, and at every moment, since the request began.

## Runs

| run | instance | shows |
|---|---|---|
| `MemoryCache_lru` | 3 threads, 5 keys of 2 tenants and 2 configurations, 3 of them in a shard of capacity 2 and 2 in one of capacity 1, no ttl | `ShardsCoherent`, `ShardsWithinCapacity`, `WithinCapacity`, `InvalidationComplete`, `LossJustified`, `OrderIsRecency` |
| `MemoryCache_contract` | 2 handles with ttl 0 and without, 3 keys, 2 of them in a shard of capacity 2 and 1 in one of capacity 1, clock up to 1 | `ImplementsContract`: `MemoryCache` implements `LossyCache`; `HitIsLive`, `LossJustified` with expiry |
| `RoleHierarchy_static` | all graphs on 4 roles, depth limit 2 | exactness of success and truth of errors |
| `RoleHierarchy_edited` | all graphs on 3 roles, two of them edited at will | shape of the walk; `Terminates` |
| `RoleHierarchy_depth_doc` | as `static` | a violation, see Findings |
| `TenantEngine_quiet` | 2 requests at a time, 2 tenants, 2 engines, no edits | answers and fenced entries are exact |
| `TenantEngine_edited` | 2 requests, an administrator, 2 edits | `AnswersExact`, `FencedEntriesExact`, `InactiveDenied` |
| `TenantEngine_live` | 2 requests, 1 edit, fairness | `RequestsEnd` |
| `TenantEngine_stale_doc` | as `edited`, 1 edit | a violation, see Findings |
| `PlatformEngine_edited` | 1 request of each kind, 2 roles, 5 sources, with and without inheritance and wildcards, 2 edits | `NothingInvented`, `NothingLost`, `MixedGrantsRefused` |
| `AuthorizeStack_edited` | 2 requests through 9 stacks of up to 5 layers, 4 tokens one of which expires, 2 edits, fairness | `ServedIfGranted`, `SeesAuthorized`, `WithinLimit`, `StatusTellsWhy`, `AuthenticatedStaysSo`, `RequestsEnd` |
| `ScopePaths_merge` | 12 texts, 2 grants of up to 2 or 1 of up to 4 of them, each read back once at most | `CoverageKept`, `NothingRedundant`, `ScopesAgree` |

Why the bounds are enough for the interesting cases. Three threads let a get, a
set and an invalidation be halfway at once. With three keys at home in the shard of
capacity 2 a set must choose between two entries which to evict; both shards
overflow, and the capacity of 3 leaves a remainder. That the shares add up for
every capacity and number of shards, among them more shards than capacity and
none requested, is the theorem `TotalCapacityHolds`. Expiry is the matter of
`MemoryCache_contract`: with a ttl of 0, which `with_ttl` accepts, one instant
after the start lets an entry expire, be replaced, and be met by a get or a set
that read the clock before, and an age equal to the ttl is met too. Nothing is
evicted there, as each shard has room for its keys, so that a set which prunes too
much is not taken for one that evicts; both in one set is left to the theorems
`LossesAreJustified` and `ContractHolds`. Four roles have a
diamond, a cycle beside the root, and a chain one longer than the limit of 2; the
three of `RoleHierarchy_edited` cannot make a deeper stack, so that it stays within
the limit under edits is the theorem `StackHolds`.
Two requests of one subject overlap in all ways, including one computing from
before an edit while the other starts after the invalidation; two edits make a
torn read and an edit that is undone. The platform sources hold paths of one
tenant in two assignments and of another tenant, a tenant set beside the
platform, paths beside a tenant set, and all tenants beside paths; an edit adds
or removes a tenant set, so that grants become mixed or cease to be, another moves a permission between roles or closes
a cycle. The stacks authorize above and below a limit of one, which two requests
contend for, also while each holds a permit of a limit of two further up; take the subject
from the application, from a token, from both in either order, and from two readings of one token; put a platform's decision above
a tenant's. The tokens are one that two claims types read alike, one they read
differently, one whose ids are bad or whose claims do not decode, and one of another key. Two edits take
a grant away and give it back while a request waits. Among the texts are `a`, `a-`, `a0`, `a/a`,
`a/a-`, `a-/a` and `a/a/a`, of which `-` sorts before the slash and `0` after it,
texts to be trimmed, texts that no path may be, and one that is too long. Symmetry is used for threads, tasks, grants and
roles in runs without a liveness property. Bounds are `MaxTime`, `MaxEdits`, `MaxLoads`
and the sets of the configurations; no other guard is a bound (`MaxScopePathLen`,
256 in the code, is 6). Deadlock is not checked for `RoleHierarchy`, `PlatformEngine`
and `ScopePaths`, whose call returns for good, and for `AuthorizeStack`, whose
requests are each answered once.

Fairness. `RoleHierarchy!FairSpec` and `TenantEngine!FairSpec` assume weak fairness
of the steps of a task: its executor polls it again and every read of the source
ends, with an answer or an error. Nothing is assumed of edits, invalidations,
new requests or of locks. `AuthorizeStack!FairSpec` assumes weak fairness of the
steps of a request, as engines and handlers answer and the server polls, and
strong fairness of `BecomesReady`: a limit gives a permit that becomes free to
who has waited longest (tokio's semaphore is a FIFO queue), so a request that
finds a permit free again and again will get one. Termination does not rest on the graph standing still:
each role is entered once at most, because it stays visiting or visited.

## Findings

- `TenantEngine_stale_doc`. `docs/05-integration-production.md:212` and
  `docs/redesign-v0.3.md:730` say that once an invalidation has returned no
  expired grant is hit. A request that read the source before the edit stores
  its grants after the invalidation has returned (`src/engine.rs:271`); without
  a ttl the entry stays. `FencedEntriesExact` and `AnswersExact` state what does
  hold: an entry is exact when its key was invalidated after the last edit and
  no computation from before that edit was still running.
- `RoleHierarchy_depth_doc`. `docs/08-testing-benchmark.md:83` says that
  exceeding `max_role_depth` is an error. The depth compared is the one at which
  the walk happens to reach a role, and a visited role is skipped
  (`src/role_hierarchy.rs:56`-`65`): with parents in a certain order a graph with
  a longer chain is accepted, in another it is an error. What does hold is
  `InheritedWithinDepth` (every inherited role is within the limit by some chain)
  and `DepthErrorIsReal` (an error means that some chain is too long).

## Proofs

`MemoryCacheProofs`, for any threads, keys, hash, capacity, shards and ttls (the
assumptions are those `MemoryCache` states of its constants): `TypeCorrect`,
`CoherenceHolds`, `CapacityHolds`, `InvalidationHolds`, `TotalCapacityHolds`,
`HitsAreLive`, `LossesAreJustified`, `RecencyHolds`, `ContractHolds`. The
inductive invariant `Inv` is the type invariant, every shard being sound, at home
and within its share, and `OwedAhead`: a key an invalidation still owes is one it
targets, in a shard its sweep has yet to reach. `InvalidationComplete` alone is
not inductive: it does not say that the shards behind the sweep owe nothing.
`CacheShardProofs` shows once and for all that each helper takes sound shards to
sound shards, and that eviction ends within the capacity; the deque listing each
key of the map is what makes the popping loop reach it. That rests on what
`Retain` does to sequences without repetition. A second invariant, `InFlight`,
says that a running call has no answer yet, that the instant it took is not ahead
of the clock, and that a cache of capacity 0 starts no get and no set.
`TotalCapacityHolds` adds up: the shares of all shards come to the capacity, and
no first `n` shards hold more keys than their shares, or there would be a least
such `n`. `ContractHolds` is the refinement of `LossyCache`, step by step: a call
is its call, the section that answers is the step that answers, a sweep is `Clear`
and the last one `Finish`, and `ReadDefer` changes nothing of the map. What is
evicted or has expired is what that step loses.

`RoleHierarchyProofs`, for any roles and limit. `TypeCorrect`, `StackHolds` and
`OutputHolds` allow any edits. Their invariant is `ShapeInv`: the stack is a
repetition-free chain whose roles are `visiting`, output and the two sets agree.
`ExpansionExact`, `AcceptedAcyclic` and `CycleErrorsReal` assume `EditableRoles =
{}`. Their invariant `GraphInv` adds `Explored` (visited roles are closed under
parents; each parent of a role on the stack is still to be drawn, visited, or the
next on the stack) and `Sound` (what is entered is an ancestor of the root, what
is visited is on no cycle). When the stack is empty, the output is closed and
holds the root, so it holds all ancestors. A role that is drawn while in progress
lies on a cycle because the stack leads from it to itself. `DepthErrorsReal` and
`WithinDepth`, under the same assumption, add that a role on the stack is as far
above the root as it lies deep. They speak of `ChainEnds`, a recursive function on
the lengths of chains. What it is at each length is shown by a least length at
which it would not be so, existence of the function included.

`TenantEngineProofs`, for any tasks, administrators, tenants, principals, roles,
configurations, requests and sources (`RequestsAssumption`, `SourcesAssumption`
and `PoolAssumption` only say that the constants have the types of the code's
structs): `TypeCorrect`, `FencedHoldsExact`, `InactiveAreDenied`,
`AnswersAreExact`, `KeepsToTheContract`. The properties speak of the moment of the
answer, so the invariant speaks of the way there. `Collects`: while nothing a
request reads is edited, the grants it has collected, those of the assignments it
has yet to take, and those of the roles it has yet to read for the assignment in
hand are together the grants of its subject; in the midst of a walk, what it has
yet to read are the ancestors of the role, by the invariant of the expansion.
`StatusRead`: the statuses it has read still hold, unless they were edited.
`FenceInv`: no request with outdated reads will fill a key that is fenced or that
a running invalidation is to fence, and what is stored there is exact, unless it
is among what the invalidation still owes. That an invalidation fences nothing it
does not clear (`armed[a].fenced` is part of `armed[a].cleared`) had to be added:
it is what carries `fenced \subseteq cleared` over its return. A key holds the
text of the configuration, and only whether roles are inherited matters to what is
collected, so an entry is exact for every engine that shares its key. A decision
by the merged, compacted scope is the one by the single grants: among the roots
that cover a target a shortest one is kept. `KeepsToTheContract` closes the circle
with `ContractHolds`: the engine, with its administrators, refines `LossyCache`,
so it asks of its cache only what the contract provides for, and the cache of the
crate answers as the contract says.

`PlatformEngineProofs`, for any principals, roles, tenants, paths, engines,
sources and edits: `TypeCorrect`, `NothingIsInvented`, `NothingIsLost`,
`MixedIsRefused`. The invariant holds the source between `always` and `ever` and
the request between the two: what it has in hand at each step is there in `ever`
(`EverInv`), and of what is there in `always` nothing is forgotten: each
assignment is still to come, done with, or in hand, with those of its roles that
are still to come (`AlwaysInv`). A walk through a graph that is edited under it is
`Explored` with respect to the parents there all the while, and has reached only
ancestors by the parents there at some moment. The two brackets give what is
granted by what stood throughout and what a combination of what stood at some
moment would grant, and what a scope decides
grows with the grants it is merged from, except for mixing, which the third
property is about.

`ScopePathsProofs`, for any ASCII texts, any lists of grants of them and any
length limit: `CoverageIsKept`, `NothingIsRedundant` and `ScopesAreEqual`. The
invariant of the first two speaks of a compaction half done: what is to come and
what was kept together cover what the compaction was given; nothing kept lies
below another, and nothing to come sorts before it. The step that needs the order
is `Take`: a path that is kept is below none before it, and none after it is above
it, as an ancestor sorts before its descendants. Parsing twice is parsing once, so
a grant that is read back covers what it did. `ScopesAreEqual` rests on
`BelowBySegments`: one text lies below another exactly when its segments go on
from the other's. `Split` cuts a text byte by byte, a recursive function; by least
counterexamples, what is cut later never changes a segment before the last and
only lengthens the last, so two texts that differ at a byte differ in the segment
that the byte falls in. Then roots of which none lies below another are determined
by what they cover, and must be the topmost of the paths given; and they come out
sorted, as the order of texts is total.

`AuthorizeStackProofs`, for any requests, stacks, tokens and grants within the
assumptions of `AuthorizeStack`: `TypesKept`, `ServedByRight`, `LimitsHold`,
`AuthenticatedStay`, `StatusIsTrue`, `HandlerSeesAuthorized`. The inductive
invariant says of an active request that what is granted now was granted at some
moment since it came (and dually for `always`); that it holds a permit of every
limit above it; that each layer it has passed was right to pass it; and that each
extension it carries is what the lowest layer above it that writes it has written.
The last is what makes the subject a layer finds the identity that the properties
speak of. Nobody's permit is counted twice, so as many requests are below a limit
as hold its permits, and a permit is taken only when one is free.
`HandlerSeesAuthorized` adds what each layer has asked: whom the layers above it
name. With one source of identity that cannot change on the way down. The proof
needed what had not been said of the constants, that no subject is both a tenant's
and the platform's (`SubjectsAssumption`; in the code they are different types).

Induction over data is by the least counterexample (`SmallestNat` in
`SequenceLemmas`): it takes a set, not an operator, and so is within the provers'
reach, also where it is a recursive function that is shown to exist.

Only model-checked: `Terminates` and both `RequestsEnd`, as liveness under
fairness is out of the prover's reach; and the two violations, which are
counterexamples. Every other property of a run is stated by a theorem.

## Not modelled

- `with_shards` on a clone, which gives the handle shards of its own. Every use in
  the repository builds its handles before it shares them.
- Edits that span several maps of `MemorySource`: a request may read one map
  before and another after. No property is promised of answers computed so. An
  assignment of one moment and a permission of another may add up to a grant that
  held at no single moment; the code does not prevent it, and `NothingInvented`
  bounds such an answer by what each map has held, no closer.
- Decoding of tokens, routing, bodies, other extractors than those of the crate
  and `Extension<AuthSubject>`. `can_access_scope` and `can_platform` of
  `src/axum.rs` only call the engines.
- Parsing of identifiers and permissions, which check characters and length;
  serialisation, except what reading back a grant checks; error texts,
  builders, feature flags, examples, benchmarks.

## Plan

Done: `CacheShard`, `MemoryCache`, `LossyCache`; `ExpandRoles`, `RoleHierarchy`;
`AccessScopes`, `TenantEngine`; `PlatformScopes`, `PlatformEngine`; `ScopePaths`;
`AuthorizeStack`; proofs of every safety and action property that the runs check,
and of both sides of the cache's contract.

Next: that an HTTP request asks an engine what `TenantEngine` answers, which would
compose `AuthorizeStack` with it; edits that span several maps of `MemorySource`.

Run a configuration with `tlc -config MemoryCache_lru.cfg MCMemoryCache.tla`, a
proof with `tlapm MemoryCacheProofs.tla`.
