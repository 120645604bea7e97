# A verification of cmx-rdma

cmx-rdma keeps key-value cache blocks of language model servers in the memory of
*agents*.  An inference engine stores a block under the hash of a token prefix
and gets it back by that hash.  This directory holds TLA+ models of the agent,
of its metadata plane and transport pool, and of the Python connectors, the TLC
configurations that check them, and proofs checked by TLAPS.

`PROJECT.json` lists the same facts for tools: components, runs, the source
lines behind each definition, findings, hazards and theorems.

## The system

| part | source | what it does | module |
|---|---|---|---|
| memory pool | `crates/cmx-memory/src/pool.rs` | one mmap region cut in equal blocks, a stack of free block indices under a mutex | `BlockAllocator` |
| block allocator, header | `crates/cmx-block-store/src/allocator.rs`, `block.rs` | writes header (checksum, generation) and data of a block, reads and verifies it; no lock on the bytes | `BlockAllocator`, used by `CacheAgent` |
| LRU policy | `crates/cmx-block-store/src/eviction.rs` | recency order in a slab of linked nodes under a mutex | `LruOrder` (promise), `LruPolicy` (data structure) |
| block index | `crates/cmx-block-store/src/index.rs` | `DashMap` from key to block location, next to the LRU policy | `BlockIndex` |
| cache service | `crates/cmx-agent/src/grpc.rs` | gRPC handlers `store`, `get`, `delete`, `lookup`, `batch_lookup`, `stats`, `health` | `Cache` (promise), `CacheAgent` |
| pressure monitor | `crates/cmx-agent/src/pressure.rs` | once a second derives a level from the pool usage; `store` and `health` read it | `CacheAgent` |
| metadata client | `crates/cmx-agent/src/metadata.rs` | registers the node in etcd under a lease, publishes blocks, watches blocks and nodes | `Metadata`, with etcd as `Etcd` |
| remote index | `crates/cmx-agent/src/remote_index.rs` | blocks of other nodes, fed by the watches, read by `lookup` | `RemoteIndex`, used by `Metadata` |
| hash ring | `crates/cmx-agent/src/placement.rs` | consistent hashing with virtual nodes; `lookup` logs its advice | `HashRing`; its set of nodes in `Metadata` |
| startup, shutdown, configuration | `crates/cmx-agent/src/main.rs`, `config.rs` | sizes, thresholds, order of initialisation, lease revocation | sizes and thresholds in `CacheAgent`, registration and shutdown in `Metadata` |
| transport | `crates/cmx-transport/src/*` | transport trait, mock, connection pool with health check; not used by the agent yet | `ConnectionPool` |
| Python client and hashing | `python/cmx-client` | gRPC client, prefix hashes of token blocks | in `VllmConnector` and `Backend` |
| vLLM connector | `python/cmx-vllm` | prefix matching, loading and saving around a forward pass | `VllmConnector` |
| LMCache, SGLang backends | `python/cmx-lmcache`, `python/cmx-sglang` | string keys to prefix hashes, put and get | `Backend` |

How they interact: a handler runs as a task of the tokio runtime, on one of
several threads.  `store` checks the pressure level, collects its stream (the
only place where it waits), takes a block from the pool, writes header and data,
and inserts the location in the index, which may evict other entries.  `get`
copies the location out of the index and spawns a task that reads the block.
`delete` removes the entry and frees its block.  The locks are short and
separate: the free list, each shard of the map and the LRU list have one each,
the bytes of a block have none.  What can go wrong lies between these critical
sections, so the models have one step for each of them.

Agents meet in etcd only.  An agent registers its node under a lease that a task
keeps alive, and every store spawns a task that puts the location under the key
of its hash, with the same lease.  Each agent watches the block keys and the node
keys and applies what it hears to its remote index and its ring.  A crash shows
when the lease runs out: etcd then deletes the keys of the lease, and the
watches tell the others.

The connectors meet in the agent only.  They see it as a map in which any key
may vanish at any time; module `Cache` states that promise.  `CacheAgent` is
shown to implement it for clients that do not delete, which no connector does,
and the connectors are specified over it.

## Modules

**`LruOrder`** is what the LRU policy promises: a sequence of keys, most recent
first, with `Touch`, `Forget` and `EvictLru`.

**`LruPolicy`** is the data structure of `eviction.rs`: `entries`,
`free_indices`, `index`, `head` and `tail`, with the private helpers
`alloc_entry`, `unlink` and `push_front` as operators on that record.  Each
method holds the mutex for its whole body and is one step.  The order that a
slab stands for is read off along the `next` links (`Forward`, `Order`); with it
the module implements `LruOrder` (`ImplementsOrder`).  `Backward` reads the
`prev` links from the tail.

**`BlockIndex`** uses the abstract order.  A task inside `insert` goes through
`contains`, `len` (once per shard, as `DashMap::len` locks one shard after the
other), `evict`, `drop`, back to `len`, then `put` and `touch`.  `remove` is two
steps.  `lookup` is one, because the read guard of the shard is held while the
order is touched.  Its own specification `GrowLive` has inserts and lookups;
`CacheAgent` takes all steps from it, those of `remove` among them.

**`BlockAllocator`** has the free list, the generation counter and the bytes.  A
write of a block is three steps (header, some data, all data).  A checksum is
represented by the payload it was computed from; `Torn` is a mixture of two
payloads, and no checksum matches it.  The model takes payloads none of which is
a prefix of another, so that the length field of a header adds nothing.  A fresh
page decodes to the empty payload, `Zeroed`.

**`Cache`** is what the agent promises to engines: `Put`, `Vanish`, and a get
that is opened (`Open`) and later delivered (`Close`) with the payload that the
key had when it was opened.

**`CacheAgent`** composes `BlockAllocator` and `BlockIndex`: its tasks are
requests, and its actions are the steps of the handlers and of the pressure
monitor.  `StoreInsert`, `DeleteBegin` and `DeleteUnlink` are steps of
`BlockIndex` on the same variables.  `call[t]` holds the key and the location in
hand, `buf[t]` a payload or checksum.  `written` is a history variable: entry
`g` is the key and the payload of generation `g`; no action reads it.  The
module models an agent that runs standalone, which is what `main.rs` falls back
to without etcd: nothing is published and no lookup is answered from the remote
index.  The index key `composite_key(m, h)` is a pair, because SHA-256 is taken
to be injective; with the empty model it is the plain hash, which is all that
`delete` can name.  A miss, and a `store` rejected by the pressure level, change
nothing and are not steps.  `EngineSpec` is the same agent without deletes, the
requests that the shipped connectors make.  Under the mapping `Contents`,
`Answers` it implements `Cache`: the content of a key is the payload that was
written under the generation of its entry, and the answer of a get is the
payload of the entry it took.

**`RemoteIndex`** has the methods of `remote_index.rs` as operators on the index
of one agent: a sequence of locations for each hash.

**`Etcd`** is external: what `metadata.rs` relies on.  A put replaces value and
lease of a key, a put under a lease that is over is refused, the end of a lease
deletes its keys in one revision, and a watch delivers in order what changed
since it was created.  Nothing orders the two watches of an agent.

**`Metadata`** composes the two.  `pc[n]` is where `main` is on node `n`; `Boot`
starts a process, registers it and starts the keepalive, each of which may fail
without stopping the agent; the two `watch` calls are steps of their own, since
other nodes can act between them.  `Store` stands for the end of the handler and
adds a task, `Publish` runs one, in any order.  `watch_blocks` applies a response
in one step; `watch_nodes` takes two for a deletion, because it waits for the
lock of the ring in between.  `Expire` can hit a lease at any time, since a
renewal may be late, and `Crash` ends a process anywhere; both leave everything
else as it is.  Restarts begin with generation 1 and an empty index.  `boots`
numbers the processes, and a location carries the number of its process as
history: no action reads it.  The ring is the set of its nodes.

**`HashRing`** is the ring itself.  The `BTreeMap` is a function from positions
to nodes; `hash_position` is an arbitrary function, the variable `position`,
chosen once, so that a run goes through all of them, collisions of virtual nodes
included.  `preferred_node` and `preferred_nodes` are operators on a ring; the
second is the loop of the code, as a recursive function along the walk.

**`ConnectionPool`** has the cache of the pool and the table of the mock
transport as two sets with a lock between them, callers of `get_or_connect`,
`disconnect`, `read` and `write` as tasks, and the health check, which collects
the peers one by one and then examines each with a `try_read` that fails while a
writer has the lock.  The waits for the lock of the table are steps of their own
(`WriteLock`, `ReadLock`); a reader drops its guard before it awaits anything, and
the lock of the remote memory is never held across an await, so what is done
under these is one step.  `crossed` is a history variable: the tasks whose
`get_or_connect` has overlapped a `disconnect` of its peer, or the other way
round; no action reads it.

**`VllmConnector`** has the scheduler half (`get_num_new_matched_tokens` in one
step per hash, `update_state_after_alloc`, `build_connector_meta`) and the worker
half (`start_load_kv`, `wait_for_layer_load`, `save_kv_layer`, `wait_for_save`).
`hash_token_ids` cuts a prompt into blocks, the last one partial; a hash is the
block it is computed from.  A Store call in flight (`stores`) takes effect at any
later time or never (`StoreEnds`), also after the connector has stopped waiting
for it.  vLLM is external: it may schedule and finish requests in any order that
its interface allows.

**`Backend`** is the common body of the LMCache and SGLang backends: `put`,
`contains` and `get`, the last in two calls of the agent with evictions in
between, and the exceptions that the client does not catch.  A store that failed
may still take effect later (`late`, `LateStore`), since the deadline of the client
does not stop the agent.  A lookup that the agent cannot answer itself may be
answered from its remote index (`Answers`), and the get that follows then raises.

**`CacheAgentProofs`** (the agent) over **`AgentStepProofs`** (lemmas on the steps
of the agent), **`MetadataProofs`** over **`EtcdProofs`** (lemmas on what etcd holds
and what its watches send), **`BlockIndexProofs`**, **`LruPolicyProofs`**,
**`RingAndPoolProofs`** (the hash ring and the connection pool) and
**`ConnectorProofs`** (the vLLM connector and the backends) hold the theorems.

`MCBlockIndex`, `MCCacheAgent`, `MCMetadata`, `MCHashRing`, `MCVllmConnector` and
`MCBackend` give TLC shards, prompts, models and symmetry.

Operators whose comment starts with "Mutant" are variations of the operator
that follows them, with a bug planted.  No specification uses them; they show
that a property notices that bug.

## What the runs check

| run | instance | properties | states |
|---|---|---|---|
| `lru` | 4 keys | `SlabConsistent`, `SlabBounded`, `ImplementsOrder`, `MethodsMatchOrder` | 21 thousand |
| `index` | 2 tasks, 3 keys, 2 shards, capacity 1, no remove, fairness | `IndexTypeOK`, `Evictable`, `OvershootBounded`, `InsertLockFree` | 282 thousand |
| `agent_reuse` | 2 tasks, 2 keys in 2 shards, 2 blocks, 3 stores, 2 payloads and an oversized one | `TypeOK`, `Ownership`, `IndexedBlocksIntact`, `GenerationDetectsStaleReads`, `LostWithEntriesOnly` | 660 thousand |
| `agent_engine` | no delete; 2 tasks, 4 keys, 2 blocks, 3 stores | `GetsVerify`, `ImplementsCache` | 268 thousand |
| `agent_live` | 2 tasks, 2 keys, 2 blocks, 2 stores, fairness | `GenerationsUnique`, `OrphanedByRemoveOnly`, `RequestsComplete`, `PressureTracksUsage` | 45 thousand |
| `metadata` | a watcher and a publisher, 1 hash, 3 starts of processes, 2 stores | `MetadataTypeOK`, `DeletedBlocksForgotten`, `CurrentLocationKnown`, `RingHasNoDeadNodes`, `RegisteredNodesStay` | 876 thousand |
| `metadata_live` | two publishers of 1 hash, one of them watching; 2 starts, 2 stores, fairness | `DeadLocationsOverwritten`, `PublicationsExpire`, `CrashedNodesLeaveRing` | 128 thousand |
| `ring` | 3 nodes, up to 2 virtual nodes each, 5 positions, every hash function | `RingFollowsMembers`, `ReplicasAreSuccessors`, `MinimalMovement` | 51 thousand |
| `pool` | 3 tasks, 1 peer, fairness | `PoolTypeOK`, `CallsReturn`, `StaleConnectionsLeave`, `StaleByCrossingOnly`, `ForgottenByHealthCheckOnly` | 41 thousand |
| `vllm` | 2 requests that share a block, 3 forward passes of 2 layers, fairness | `LoadsWereFound`, `LoadedOnce`, `SavesBelongToTheirStep`, `CallsEnd` | 71 thousand |
| `backends` | 3 backends, one with a `model_id`, 1 string | `PutsAreFound` | 60 thousand |

All of them hold.  What they say:

* The linked slab behaves as a recency order, method by method, under every
  reuse of slots, and never has more slots than keys.
* Without deletes the index loses no entry from the recency order, whatever
  overlaps, and two inserts at once exceed its capacity by one entry at most.
  (Three can do worse: an insert that found its key in the map does not count,
  and adds an entry if the key is evicted before its `map.insert`.)  With deletes
  an entry leaves the order only by a remove that overlaps an insert of its key.
  The eviction loop cannot keep all tasks busy for ever.
* No block has two owners; an index entry always leads to a complete block,
  written for its key, with its generation.  A block gets lost only with an
  entry that insert evicts or replaces, and on no error path.
* A `get` can be overtaken, but the generation in the block header tells.  The
  code does not make that comparison (see below); the property says that it
  would be sufficient.
* Without deletes the agent implements `Cache`: a `get` answers with the payload
  its key had when it was looked up.  Its verification never fails.
* Every request that has its input completes, and the pressure level settles on
  the actual usage, so that rejection ends after deletes.
* An agent that has caught up with its watches has forgotten the blocks whose
  keys are gone, has no dead node in its ring, and knows the current location of
  a hash it knows at all, provided that the publisher's node never restarted.
  The proviso is needed: the deletion of one registration of a node drops the
  locations of all its processes.  It takes a registered node out of its ring
  only with a response still to come that puts the node back.
* What a process published under its lease leaves etcd after the process is
  gone, and a node that stays down leaves the rings.  An agent that has applied
  its block watch answers with the location of a process whose registration went
  with its lease only while etcd holds another publication of the hash.
* Agents that know the same nodes have the same ring outside collisions of
  virtual nodes, whatever the order of joins and leaves.  Keys move only to a
  node that joins or from one that leaves.  The replicas of a key are the nodes
  that would own it if the ones before them left.
* Calls of the connection pool return, and a cached connection that the
  transport does not have leaves the cache.  It arises only at the end of a
  `disconnect` or `get_or_connect` that overlapped a call of the other kind about
  its peer; calls about a peer that do not overlap leave the two tables in
  agreement.  A connection that the pool has forgotten is the doing of the health
  check, never of callers.
* The vLLM connector loads only what its lookup found, each load goes to one
  step, what is stored belongs to a step that asked for it (also when the store
  takes effect long after), and no forward pass hangs, whatever the agent does.
* A backend without `model_id` finds what it has put until it is evicted, whatever
  others put and whenever their failed stores take effect.  Nothing of the kind
  holds with a `model_id` (see below).

### Disagreements between comments and code

Run `agent_stale` checks a sentence of the repository, and TLC shows a behaviour
of the code that contradicts it.  `block.rs:19` says "Readers compare against the
generation in metadata to detect stale reads after eviction/rewrite."  No reader
compares: a `get` that is overtaken by a delete and a store of another key
returns that key's payload.

Others are plain from the text, or visible in a property that had to be weakened,
and have no run:

* `store` (`grpc.rs:234`) rejects at the level REJECT only, where
  `pressure.rs:66` says "At critical or above, the pressure level signals
  store() to reject new writes".
* `store` asks the pool before the index evicts, so a full pool refuses the
  store, where `eviction.rs:3` says "When the block store is full, the least
  recently used entries are evicted to make room".  Theorem `EngineNeverEvicts`
  shows how far that goes: as long as nobody deletes, no interleaving of stores
  makes the index evict.
* `store` does nothing with the blocks of the entries that `insert` evicts or
  replaces, where `grpc.rs:279` says "(blocks freed by LRU)".
  `LostWithEntriesOnly` says that no block is lost in another way.
* A remove that overlaps an insert of its key leaves the entry outside the order
  (`index.rs:78`); a full index of such entries has no victim, where
  `index.rs:46` says "Evicts LRU entries if at capacity."
  `OrphanedByRemoveOnly` says that nothing else does this.
* `read_verified` copies after it has verified, and a store can rewrite the
  block in between, where `allocator.rs:64` says "Returns the data (without
  header) if checksum matches".
* `DashMap::len` counts one shard after the other, so an insert can count an
  entry that is deleted meanwhile and evict below the capacity.
* The deletion of a node, from one watch, can be applied before an older
  publication of the node, from the other (`metadata.rs:322`); the entry stays
  and `lookup` answers with it, where `remote_index.rs:53` says "Remove all block
  entries from a specific node (e.g., when its lease expires)."
  `DeadLocationsOverwritten` says when it can last.
* Watches report an agent's own publications too, where `remote_index.rs:1` says
  "tracks blocks available on other nodes".
* The health check of the connection pool takes a peer for stale while a writer
  holds the lock (`pool.rs:81`), so it can drop a healthy connection from the
  cache; the transport then keeps a connection that the pool does not know.
* `preferred_nodes` with `n = 0` returns one node (`placement.rs:65`).
* `start_load_kv` keeps the metadata of a step only if it has loads
  (`connector.py:221`), so a step without loads saves nothing, and with a cache
  that is empty at first nothing is ever saved; `connector.py:257` says
  "Serialize KV tensor and start async gRPC Store."
* Matching hashes the tokens after the computed ones (`connector.py:129`) and
  loading hashes them from the start (`:161`), so `LoadsWereFound` is limited to
  requests without computed tokens.  A partial block counts as a full one
  (`:148`), all layers are stored under one hash (`:264`), and the bytes of a
  load are dropped (`:247`).
* `hash_token_ids` hashes each block by itself, so equal blocks after different
  prefixes share a key.
* A backend with a `model_id` stores under the composite key and looks up the
  bare hash (`cmx_lmcache/connector.py:49`, `cmx_sglang/backend.py:32`), so it
  never finds what it has put; `PutsAreFound` excludes it.
* The same bare hash finds what a backend without `model_id` has put, so a get of
  a backend with one returns the data of another model, where
  `cmx_lmcache/connector.py:42` and `cmx_sglang/backend.py:25` say "Model
  identifier for cache isolation".  In `Backend` it takes three steps: `put` by a
  backend without, `GetLookup` and `GetStream` by one with a model.
* `client.get` raises on NOT_FOUND, where `client.py:215` says "or None if not
  found."

### Bounds

Two tasks are enough for every race of two critical sections, and the code has
no wait that involves three.  Two blocks and three stores let a block be
written, freed and written again while another is in use.  One capacity slot and
three keys (`index`) let two inserts race for the same slot and evict a third
key.  `MaxStores` bounds the stores ever begun; `MaxEvicted` bounds the
evictions of running inserts, by starting no new insert once one has evicted so
many.  With 2 stores (`agent_live`) a store, a delete and a get of the reused
block still meet; an instance with evictions is too large for liveness, and the
progress of the eviction loop is checked in `index`.

In `Metadata` no agent's watches influence anything but its own index and ring, so
one watching agent (`Watchers`) stands for all; `Publishers` are the agents that
are sent stores, in `metadata_live` both, so that two nodes compete for a key.
`Frail` are the agents whose process or keepalive may end: the watched one, since
the watcher's own end only ends what is stated about it.  Three starts
(`MaxBoots`) let the publisher crash and come back under the eyes of the watcher.
`MaxStores` bounds the stores of all processes; two let a location be replaced,
by the same process or by the next.

In `HashRing`, `Size` and `MaxVnodes` are small so that all hash functions are
tried and collisions are common.  In `VllmConnector` the prompts have a full and
a partial block and are prefixes of each other, vLLM has computed no block or one,
`MaxSteps` bounds the forward passes; two layers are enough for a layer that is
not the last.  Three backends give two of one model and one of another; they
share one string, since calls about different strings use different keys.

In `ConnectionPool` calls about different peers meet in the lock only, and nothing
reads whose peer its holder is about, so one peer with three tasks has every
meeting: two calls that cross and a third that waits or makes a `try_read` fail.

Tasks, payloads and nodes are interchangeable and are declared symmetric in runs
without liveness.

The runs of `Metadata` do not check for deadlock, because all processes may have
ended when the bounds are used up.

### Fairness

After the stream is collected no handler waits for a client or for another task:
the locks are held for a few instructions, and the channel of `get` has room for
all the messages it sends.  The tokio runtime polls a runnable task again, and
the monitor's interval keeps ticking.  That gives weak fairness of the steps of
each request and of the monitor.  There is none for the start of a request or
for `collect`, where a client may stall for ever.  One insert alone may starve
while others keep filling the index, so `InsertLockFree` promises only that some
insert returns.

For `Metadata`, the runtime polls the watch task when a response has arrived, and
etcd ends a lease that nobody renews.  Nothing else is assumed: agents may stay
down, publications may be delayed for ever, and a lease that is renewed may
live for ever.

In `ConnectionPool` a call that waits for the lock, as a writer or as a reader, gets
it although others keep taking it, because tokio's `RwLock` serves its waiters in
order: strong fairness of `TakeLock`, weak fairness of the rest of a call and of
the health check.

In `VllmConnector` vLLM calls the methods of a forward pass one after the other,
and every wait of the connector has a timeout, so its steps and the failure of a
lookup are weakly fair.  Nothing is assumed of the agent.

## What is proved

Every safety invariant, action property and refinement that a run checks is also
a theorem, for every value of the constants that satisfies the assumptions of
its module.  Only liveness stays with TLC.  Four theorems, marked with a star, state
more than any run checks.

| module | theorem | states |
|---|---|---|
| `CacheAgentProofs` | `TypeCorrect` | `Spec => []TypeOK` |
| | `BlocksHaveOneOwner` | `Spec => []Ownership` |
| | `IndexIsSound` | `Spec => []IndexedBlocksIntact` |
| | `GenerationsTell` | `Spec => []GenerationsUnique` |
| | `StaleReadsDetectable` | `Spec => []GenerationDetectsStaleReads` |
| | `AgentIndexIsMap` * | `Spec => IndexIsMap` |
| | `AgentIndexBounded` * | `Spec => [](Cardinality(Indexed) <= TotalBlocks)` |
| | `BlocksLostWithEntriesOnly` | `Spec => LostWithEntriesOnly` |
| | `OnlyRemoveOrphans` | `Spec => OrphanedByRemoveOnly` |
| | `GetsAlwaysVerify` | `EngineSpec => []GetsVerify` |
| | `EngineGetsOwnKey` * | `EngineSpec => []GetReturnsOwnKey` |
| | `AgentImplementsCache` | `EngineSpec => ImplementsCache` |
| | `EngineNeverEvicts` * | `EngineSpec => []NoEviction` |
| `BlockIndexProofs` | `IndexTypes` | `GrowLive => []IndexTypeOK` |
| | `EntriesEvictable` | `GrowLive => []Evictable` |
| | `OvershootIsOne` | `GrowLive => []OvershootBounded` |
| `LruPolicyProofs` | `SlabIsConsistent` | `PolicySpec => []SlabConsistent` |
| | `SlabIsBounded` | `PolicySpec => []SlabBounded` |
| | `ListImplementsOrder` | `PolicySpec => ImplementsOrder` |
| | `MethodsMatch` | `PolicySpec => MethodsMatchOrder` |
| `MetadataProofs` | `MetadataTypes` | `Spec => []MetadataTypeOK` |
| | `BlocksForgotten` | `Spec => []DeletedBlocksForgotten` |
| | `LocationKnown` | `Spec => []CurrentLocationKnown` |
| | `RingIsAlive` | `Spec => []RingHasNoDeadNodes` |
| | `DeadAreOverwritten` | `Spec => []DeadLocationsOverwritten` |
| | `RegisteredStay` | `Spec => RegisteredNodesStay` |
| `RingAndPoolProofs` | `RingAgreement` | `RingSpec => [](RingTypeOK /\ RingFollowsMembers)` |
| | `KeysMoveMinimally` | `RingSpec => MinimalMovement` |
| | `ReplicasFollow` | `RingSpec => []ReplicasAreSuccessors` |
| | `PoolTypes` | `PoolSpec => []PoolTypeOK` |
| | `StaleByCrossing` | `PoolSpec => StaleByCrossingOnly` |
| | `ForgottenByHealthCheck` | `PoolSpec => ForgottenByHealthCheckOnly` |
| `ConnectorProofs` | `OnlyFoundIsLoaded` | `VllmSpec => []LoadsWereFound` |
| | `NothingLoadedTwice` | `VllmSpec => []LoadedOnce` |
| | `SavesAreOrdered` | `VllmSpec => []SavesBelongToTheirStep` |
| | `PutsFound` | `BackendSpec => []PutsAreFound` |

The assumptions are those of the modules.  The sets of keys, of tasks of an index
and of nodes of a ring are finite; there is at least one block, one shard, one
position, one layer and one token in a block; the bounds (`MaxStores`,
`MaxBoots`, `MaxSteps`, ...) are any natural numbers; `None`, `Nobody`, `Zeroed`, `Torn`
and the like are distinct from what they mark the absence of; the thresholds are
ordered; and the keys of a cache include those that its connectors form.
`OvershootBounded` speaks of two tasks, since with three it is not true; all
other theorems are about any number of tasks, agents, requests or backends.  The
module of a passing run extends each of these modules, so TLC evaluates the
assumptions on the instances.

**Invariants of the agent** (`AgentStepProofs`, `CacheAgentProofs`).  None of the first five is
inductive alone.  The inductive invariant `IInv` joins them;
`GenerationsUnique` in it says what running handlers know: a store that
writes has its own generation and checksum in the header of its block, a store
that inserts has a complete block, no two blocks carry the same generation, and
a get whose block still has the generation of its entry finds the block complete
and nobody writing under that generation.  Ownership is what keeps a store from
touching the blocks that these facts are about.  TLC checks every conjunct of
`IInv` as an invariant (`agent_reuse`, `agent_live`).  The argument runs in
passes over the actions, one per part of `IInv`: types, ownership, generations of
running handlers, and index entries.  To keep them short, lemma `StepShapes`
first sorts the actions into a few *shapes* (`Reads`, `Opens`, `Allocates`,
`Labels`, `Fills`, `Drops`, `Puts`, `Takes`, `Frees` and steps outside of
memory), and the later passes go through the shapes.  What they need of the sizes
of sets is a hypothesis of the lemmas, `Counting`, that `CacheAgentProofs` proves
from the theory of finite sets where it puts the lemmas together.

**Steps of the agent** (`CacheAgentProofs`).  That blocks get lost with entries
only is shown shape by shape from `Ownership`.  For the refinement `EngineInv`
adds to `IInv` that nobody is inside a delete and that every get is safe
(`SafeRead`): the block it reads still has the generation of its entry, is not
free, and no store holds it, since only `delete` gives a block back.  So the
answer that a get will give is fixed when it is opened, and each shape maps to a
step of `Cache` or to a stutter: `Puts` to `Put`, `Drops` to `Vanish`, `Opens` to
`Open`, the end of a handler to `Close`.  `OnlyRemoveOrphans` goes through the
steps of the index: each that takes a key from the order or from the map leaves
the task where `Reachable` still sees the key, except the second half of
`remove`.

**The bytes behind the index** (also `CacheAgentProofs`).  With deletes the agent
does not implement `Cache` (run `agent_stale`).  `AgentIndexIsMap` says how much
of it remains: a delete frees a block that gets are still copying, but only after
its entry is gone, so nobody writes to a block that an entry has (`Ownership`).
The payloads behind the entries are therefore a map that changes by whole
payloads, as `Cache` says of a cache without readers.  `EngineGetsOwnKey` states for
clients that do not delete what the run refutes for those that do.
`AgentIndexBounded` counts blocks: every entry has one of its own, so the
overshoot that `BlockIndex` allows to two inserts needs a block too many.

**No eviction** (also `CacheAgentProofs`).  `EngineNeverEvicts` is the other side of
a disagreement listed above: it shows that the eviction promised for a full store
is never reached by clients that do not delete.  A store that counts the index holds a block
that no entry has, and different entries have different blocks (`Ownership`), so
there are fewer entries than blocks.  As no entry disappears while nobody
evicts, the sum that a task has when it comes to shard `s` is at most the number
of entries that are now in the shards below `s` (`CountInv`), although the shards
are read at different times.  So the sum never reaches the capacity.

**The ring** (`RingAndPoolProofs`).  `RingFollowsMembers` is inductive with
`RingTypeOK`.  For `MinimalMovement` the owner of a key is the node at the least
taken position at or after it, or the least of all; the lemmas compare these
least elements before and after a node takes or gives up its positions.

For `ReplicasAreSuccessors`, the loop of `preferred_nodes` is a function along
the walk.  That such a function exists is shown with a least counterexample
(`LoopExists`), and that after `i` positions it has `Collected` the distinct nodes
met so far, each where the walk first left the nodes found before it, in the same
way (`LoopCollects`).  A node found so is the owner of the key in the ring without
the earlier ones (`CollectedReplicas`), and the walk visits every position, so
the loop misses no node before it has enough (`CollectedEnough`).

**The index** (`BlockIndexProofs`).  `Evictable` is inductive with the types and
with what the locals of an insert are at each label (`IndexInv`).  For the
overshoot a key counts as taken when it is in the map or a task will put it
there next.  `Crowding` bounds the taken keys by the capacity and
one, and needs two facts about what a running count has missed, since the shards
are read one by one: at most one taken key, unless the capacity is not exceeded
anyway; and when both tasks count, one of them has missed none.

**The LRU list** (`LruPolicyProofs`).  `PolicyInv` says that there is a sequence `p`
of slots along which the links run (`Slab(inner, p)`): `head` and `tail` are its
ends, `next` and `prev` its neighbours, the map names exactly its slots, and the
other slots are on the free stack once.  Each of `unlink`, `push_front` and
`alloc_entry` is shown to change `p` in one way (cut an element out, put one in
front, take a free slot), and each method follows from these.  The properties are
about `Forward` and `Backward`, which follow the links recursively; lemmas show
that such a walk exists, and that along `Slab(l, p)` it is `p` or its reverse.  So
`Order` is the keys along `p`, and a method moves keys as `LruOrder` says.

**Metadata** (`EtcdProofs`, `MetadataProofs`).  What an agent knows is behind etcd by the
responses still in its two streams, so the invariant is about what these
responses will leave.  `BlocksFollow`: the last response about a hash tells what
etcd holds for it, and without one the index has nothing if the key is gone, and
otherwise nothing or what etcd holds, if the publisher's node never restarted.
`RingFollows`: for a node that is not registered, the last response about it is a
deletion, or none is to come and it is not in the ring.  `remove_node` acts on
the block index from the other stream; to keep `BlocksFollow` through it `MetaInv`
adds what leases, keys, processes and deletions in flight say of each other: a
registration is under a live lease of a process of its node, a publication is
under the live lease of its process or without any, and the deletion of a node
in a stream or in the hands of `watch_nodes` means that the lease of one of its
processes is gone.  So the process whose location etcd holds is not the one whose
node was deleted, unless its node was restarted.  The argument has a pass over
the actions for each part.  `RegisteredNodesStay` needs the converse of
`RingFollows` (`JoinsFollow`): for a node that is registered, every deletion still
in a stream is followed by a put.  That `retain` keeps what it should, which rests
on the theory of finite sets, is a hypothesis of the lemmas (`RetainSelects`) and
proved before the theorems (`RetainKeeps`).  `Spec` is the specification of `metadata` and is implied by that of
`metadata_live`.

**The connection pool** (`RingAndPoolProofs`).  `PoolInv` joins the types and the
owner of the lock with `CrossInv`: of a `get_or_connect` and a `disconnect` of one
peer that are under way at once both are in `crossed`, and so is a `disconnect`
whose peer is cached again, and a `get_or_connect` about to cache a peer that the
transport has dropped.  The last two are the only ways to a stale connection;
they are kept because only a call of the other kind can bring them about, and
by the first fact that call has crossed.  The two action properties then follow
action by action.
The health check does forget connections, since it takes every peer for missing
while a writer has the lock (`transport_type`); `ForgottenByHealthCheckOnly` says
that nothing else does.

**The connectors** (`ConnectorProofs`).  For the backends, `BackendInv` adds to
`PutsAreFound` what relates the cache to the history: a key put and not evicted
is in the cache, whichever stores replace its payload late.
For vLLM, `VllmInv` has the types; that a request has load tasks only between its
allocation and the first step that schedules it, and every load was found; and
that the worker holds the metadata of the running step or none.  That the hashes asked and
the hashes loaded are the same for a request without computed tokens rests on
lemmas about how `hash_token_ids` rounds the number of blocks.

Model-checked and not proved: liveness and everything that rests on fairness
(`InsertLockFree`, `RequestsComplete`, `PressureTracksUsage`,
`PublicationsExpire`, `CrashedNodesLeaveRing`, `CallsReturn`,
`StaleConnectionsLeave`, `CallsEnd`), which is out of the prover's reach.  The
auxiliary invariants of the proofs that are not conjunctions of checked
properties (`PolicyInv`, `MetaInv`, `Crowding` and the like) are in the proof
modules only, and no run needs them.

## Not modelled

* `numa.rs` and `gpu.rs` (wrappers of system calls and a stub), `nixl.rs` (a
  stub), the generated protocol code, metrics and logging, benchmarks and
  deployment files: no behaviour of the system's own.
* Parsing and defaults of the configuration, the command line, and the options
  of the server; `validate()` enters as the assumptions on thresholds and
  numbers of blocks.  Sizes in bytes: a payload fits in a block or does not.
* `stats`, `health`, `list_nodes`, `lookup_block` and `node_count`, which only
  read.
* `register_memory` of the mock transport, which only counts.
* Of the Python client, opening and closing the channel and the wrappers of
  `delete`, `stats` and `health`, which no connector calls.  Of the vLLM
  connector, the start of its event loop, `shutdown`, preempted requests, and how
  fields are found in vLLM's objects, which depends on the version of vLLM.
* The local index and the publications in one model.  Deletes, evictions and
  replacements never unpublish anything, so a published location promises
  nothing about the agent's index that could be stated as a property; what other
  agents do with it is up to the engines.
* The ring inside `Metadata` is the set of its nodes, which is all that the
  watches change.  `RingFollowsMembers` carries it over to positions.
