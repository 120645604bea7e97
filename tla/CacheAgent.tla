----------------------------- MODULE CacheAgent -----------------------------
(***************************************************************************)
(* One cache agent: the gRPC handlers of crates/cmx-agent/src/grpc.rs      *)
(* running as concurrent tasks over the block index and the block          *)
(* allocator, and the pressure monitor of pressure.rs beside them.         *)
(*                                                                         *)
(* A task serves one request at a time.  pc[t] is the next step of its     *)
(* handler; the steps inside the index are those of BlockIndex.  call[t]   *)
(* holds the request's key and the block location in hand (the block being *)
(* stored, the entry that a get or a delete took from the index); buf[t]   *)
(* holds a store's payload, or for a get first the checksum of the header  *)
(* and then the bytes copied from the block.                               *)
(*                                                                         *)
(* The agent runs standalone, as main.rs lets it when there is no etcd: a  *)
(* store publishes nothing and no lookup is answered by another node.      *)
(***************************************************************************)
EXTENDS BlockAllocator, FiniteSets

CONSTANTS Tasks,        \* concurrent requests
          Models,       \* model_id values, NoModel among them
          NoModel,      \* the empty model_id
          Hashes,       \* prefix hashes
          None,
          NumShards, ShardOf,
          WarnAt, CriticalAt, RejectAt,  \* thresholds, in used blocks
          MaxStores     \* bound on the number of blocks ever written

VARIABLES map, lru, pc, call,  \* BlockIndex
          buf,
          pressure,            \* the shared pressure level
          sampled,             \* used blocks the monitor read, or None
          evictions,           \* the eviction counter of the service
          written              \* history: key and payload of each generation

(* The index key.  The empty model_id gives the hash itself; otherwise the
   key is a hash of model_id and prefix hash, taken to be injective. *)
composite_key(m, h) == <<m, h>>

Keys == {composite_key(m, h) : m \in Models, h \in Hashes}

(* main.rs sizes the index to the number of blocks in the pool. *)
INSTANCE BlockIndex
  WITH Entries <- Location, Capacity <- TotalBlocks, MaxEvicted <- MaxStores

NORMAL == 0
WARN == 1
CRITICAL == 2
REJECT == 3

ASSUME AgentAssumption ==
  /\ NoModel \in Models
  /\ None \notin Keys \cup Location \cup Data \cup Oversized \cup {Zeroed, Torn}
  /\ IsFiniteSet(Keys)
  /\ NumShards \in Nat \ {0}
  /\ ShardOf \in [Keys -> 1..NumShards]
  /\ WarnAt \in 0..TotalBlocks
  /\ CriticalAt \in WarnAt..TotalBlocks
  /\ RejectAt \in CriticalAt..TotalBlocks

vars == <<map, lru, pc, call, free_list, mem, generation, buf, pressure,
          sampled, evictions, written>>

agentVars == <<buf, pressure, sampled, evictions, written>>
monitorVars == <<pressure, sampled>>
telemetry == <<evictions, written>>

Init ==
  /\ AllocatorInit
  /\ IndexInit
  /\ buf = [t \in Tasks |-> None]
  /\ pressure = NORMAL
  /\ sampled = None
  /\ evictions = 0
  /\ written = << >>

SetBuf(t, d) == buf' = [buf EXCEPT ![t] = d]

(* The handler of task t returns. *)
Finish(t) ==
  /\ Goto(t, "idle")
  /\ Set(t, NoCall)
  /\ SetBuf(t, None)

----------------------------------------------------------------------------
(***************************************************************************)
(* store.                                                                  *)
(***************************************************************************)
StoresStarted ==
  generation - 1 + Cardinality({t \in Tasks : pc[t] \in {"collect", "alloc", "header"}})

(* The pressure check comes before the first message is awaited. *)
StoreBegin(t) ==
  /\ At(t, "idle")
  /\ StoresStarted < MaxStores
  /\ pressure < REJECT
  /\ Goto(t, "collect")
  /\ UNCHANGED <<map, lru, call, allocatorVars, agentVars>>

(* The stream ends early, is malformed, or the client goes away. *)
StoreAbort(t) ==
  /\ At(t, "collect")
  /\ Finish(t)
  /\ UNCHANGED <<map, lru, allocatorVars, monitorVars, telemetry>>

StoreCollected(t, m, h, d) ==
  /\ At(t, "collect")
  /\ Goto(t, "alloc")
  /\ Set(t, [NoCall EXCEPT !.key = composite_key(m, h)])
  /\ SetBuf(t, d)
  /\ UNCHANGED <<map, lru, allocatorVars, monitorVars, telemetry>>

(* Mutant of StoreAllocate: the old contents are cleared before the new header
   is written. *)
StoreScrubs(t) ==
  /\ At(t, "alloc")
  /\ buf[t] \notin Oversized
  /\ \E b \in Blocks :
       /\ allocate(b)
       /\ mem' = [mem EXCEPT ![b].data = Zeroed]
       /\ Set(t, [call[t] EXCEPT !.entry = [block |-> b, gen |-> 0]])
  /\ Goto(t, "header")
  /\ UNCHANGED <<map, lru, generation, agentVars>>

StoreAllocate(t) ==
  /\ At(t, "alloc")
  /\ buf[t] \notin Oversized
  /\ \E b \in Blocks :
       /\ allocate(b)
       /\ Set(t, [call[t] EXCEPT !.entry = [block |-> b, gen |-> 0]])
  /\ Goto(t, "header")
  /\ UNCHANGED <<map, lru, mem, generation, agentVars>>

(* "memory pool exhausted": also what a client with an oversized payload is
   told, whose size is checked before the pool is asked. *)
StoreRefused(t) ==
  /\ At(t, "alloc")
  /\ free_list = << >> \/ buf[t] \in Oversized
  /\ Finish(t)
  /\ UNCHANGED <<map, lru, allocatorVars, monitorVars, telemetry>>

StoreWriteHeader(t) ==
  /\ At(t, "header")
  /\ WriteHeader(call[t].entry.block, buf[t])
  /\ Set(t, [call[t] EXCEPT !.entry.gen = generation])
  /\ written' = Append(written, [key |-> call[t].key, data |-> buf[t]])
  /\ Goto(t, "data")
  /\ UNCHANGED <<map, lru, free_list, buf, monitorVars, evictions>>

(* Mutant of StoreWriteSome: the copy is cut short. *)
StoreWritesShort(t) ==
  /\ At(t, "data")
  /\ WriteSomeData(call[t].entry.block, buf[t])
  /\ Goto(t, "contains")
  /\ UNCHANGED <<map, lru, call, free_list, generation, agentVars>>

StoreWriteSome(t) ==
  /\ At(t, "data")
  /\ WriteSomeData(call[t].entry.block, buf[t])
  /\ Goto(t, "torn")
  /\ UNCHANGED <<map, lru, call, free_list, generation, agentVars>>

StoreWriteAll(t) ==
  /\ At(t, "torn")
  /\ WriteAllData(call[t].entry.block, buf[t])
  /\ Goto(t, "contains")
  /\ UNCHANGED <<map, lru, call, free_list, generation, agentVars>>

StoreInsert(t) == InsertStep(t) /\ UNCHANGED <<allocatorVars, agentVars>>

(* Nothing is done with the blocks of evicted entries. *)
StoreFinish(t) ==
  /\ At(t, "inserted")
  /\ evictions' = evictions + call[t].evicted
  /\ Finish(t)
  /\ UNCHANGED <<map, lru, allocatorVars, monitorVars, written>>

(***************************************************************************)
(* lookup, and each hash of a batch_lookup.  Only a local hit changes      *)
(* anything.                                                               *)
(***************************************************************************)
Lookup(m, h) ==
  /\ LookupHit(composite_key(m, h))
  /\ UNCHANGED <<pc, call, allocatorVars, agentVars>>

(***************************************************************************)
(* get.  The entry is cloned out of the index; a spawned task then reads   *)
(* the block with read_verified.                                           *)
(***************************************************************************)
GetFound(t, m, h) ==
  LET k == composite_key(m, h)
  IN  /\ At(t, "idle")
      /\ LookupHit(k)
      /\ Set(t, [NoCall EXCEPT !.key = k, !.entry = map[k]])
      /\ Goto(t, "opened")
      /\ UNCHANGED <<allocatorVars, agentVars>>

(* The client dropped the stream before the header message was sent. *)
GetDropped(t) ==
  /\ At(t, "opened")
  /\ Finish(t)
  /\ UNCHANGED <<map, lru, allocatorVars, monitorVars, telemetry>>

(* Mutant of GetReadHeader: the index is asked once more. *)
GetReadsAgain(t) ==
  LET e == map[call[t].key]
  IN  /\ At(t, "opened")
      /\ Set(t, [call[t] EXCEPT !.entry = e])
      /\ SetBuf(t, mem[e.block].crc)
      /\ Goto(t, "verify")
      /\ UNCHANGED <<map, lru, allocatorVars, monitorVars, telemetry>>

(* A header read while a store writes it may mix both headers; such a mixture
   matches no data. *)
GetReadHeader(t) ==
  LET b == call[t].entry.block
  IN  /\ At(t, "opened")
      /\ \/ SetBuf(t, mem[b].crc)
         \/ /\ \E u \in Tasks : At(u, "header") /\ call[u].entry.block = b
            /\ SetBuf(t, Torn)
      /\ Goto(t, "verify")
      /\ UNCHANGED <<map, lru, call, allocatorVars, monitorVars, telemetry>>

Verifies(t) ==
  /\ buf[t] # Torn
  /\ mem[call[t].entry.block].data = buf[t]

GetVerified(t) ==
  /\ At(t, "verify")
  /\ Verifies(t)
  /\ Goto(t, "copy")
  /\ UNCHANGED <<map, lru, call, allocatorVars, agentVars>>

(* Mutant of GetDataLoss: the verification is tried again. *)
GetTriesAgain(t) ==
  /\ At(t, "verify")
  /\ ~Verifies(t)
  /\ UNCHANGED vars

(* DATA_LOSS: "block CRC32C verification failed". *)
GetDataLoss(t) ==
  /\ At(t, "verify")
  /\ ~Verifies(t)
  /\ Finish(t)
  /\ UNCHANGED <<map, lru, allocatorVars, monitorVars, telemetry>>

(* data.to_vec() reads the block once more. *)
GetCopy(t) ==
  /\ At(t, "copy")
  /\ SetBuf(t, mem[call[t].entry.block].data)
  /\ Goto(t, "reply")
  /\ UNCHANGED <<map, lru, call, allocatorVars, monitorVars, telemetry>>

GetReply(t) ==
  /\ At(t, "reply")
  /\ Finish(t)
  /\ UNCHANGED <<map, lru, allocatorVars, monitorVars, telemetry>>

(***************************************************************************)
(* delete.  The request carries no model_id, so it reaches only keys       *)
(* stored without one.                                                     *)
(***************************************************************************)
DeleteBegin(t, h) ==
  /\ RemoveEntry(t, composite_key(NoModel, h))
  /\ UNCHANGED <<allocatorVars, agentVars>>

DeleteUnlink(t) == RemoveUnlink(t) /\ UNCHANGED <<allocatorVars, agentVars>>

(* Mutant of DeleteFree: the block is not given back. *)
DeleteForgets(t) ==
  /\ At(t, "removed")
  /\ Finish(t)
  /\ UNCHANGED <<map, lru, allocatorVars, monitorVars, telemetry>>

DeleteFree(t) ==
  /\ At(t, "removed")
  /\ deallocate(call[t].entry.block)
  /\ Finish(t)
  /\ UNCHANGED <<map, lru, mem, generation, monitorVars, telemetry>>

(***************************************************************************)
(* The pressure monitor: read the pool's statistics, then swap the level.  *)
(***************************************************************************)
LevelOf(used) ==
  CASE used >= RejectAt -> REJECT
    [] used >= CriticalAt /\ used < RejectAt -> CRITICAL
    [] used >= WarnAt /\ used < CriticalAt -> WARN
    [] OTHER -> NORMAL

MonitorSample ==
  /\ sampled = None
  /\ sampled' = used_blocks
  /\ UNCHANGED <<map, lru, pc, call, allocatorVars, buf, pressure, telemetry>>

(* Mutant of MonitorUpdate: the level only ever rises. *)
MonitorRaises ==
  /\ sampled # None
  /\ pressure' = IF LevelOf(sampled) > pressure THEN LevelOf(sampled) ELSE pressure
  /\ sampled' = None
  /\ UNCHANGED <<map, lru, pc, call, allocatorVars, buf, telemetry>>

MonitorUpdate ==
  /\ sampled # None
  /\ pressure' = LevelOf(sampled)
  /\ sampled' = None
  /\ UNCHANGED <<map, lru, pc, call, allocatorVars, buf, telemetry>>

----------------------------------------------------------------------------
StoreStep(t) ==
  \/ StoreAllocate(t) \/ StoreRefused(t) \/ StoreWriteHeader(t)
  \/ StoreWriteSome(t) \/ StoreWriteAll(t) \/ StoreInsert(t) \/ StoreFinish(t)

GetStep(t) ==
  \/ GetDropped(t) \/ GetReadHeader(t) \/ GetVerified(t) \/ GetDataLoss(t)
  \/ GetCopy(t) \/ GetReply(t)

(* The requests that the shipped connectors make: none of them deletes. *)
EngineNext ==
  \/ \E m \in Models, h \in Hashes : Lookup(m, h)
  \/ \E t \in Tasks :
       \/ StoreBegin(t) \/ StoreAbort(t)
       \/ \E m \in Models, h \in Hashes, d \in Data \cup Oversized :
            StoreCollected(t, m, h, d)
       \/ StoreStep(t)
       \/ \E m \in Models, h \in Hashes : GetFound(t, m, h)
       \/ GetStep(t)
  \/ MonitorSample \/ MonitorUpdate

DeleteStep(t) == DeleteUnlink(t) \/ DeleteFree(t)

Next ==
  \/ EngineNext
  \/ \E t \in Tasks : DeleteStep(t) \/ \E h \in Hashes : DeleteBegin(t, h)

Spec == Init /\ [][Next]_vars

EngineSpec == Init /\ [][EngineNext]_vars

(* Once a request's stream is collected, nothing in a handler waits for
   another task or for the client, and the runtime keeps polling it; the
   monitor's interval keeps ticking.  A client may stall a store for ever in
   "collect", and starts no request it does not want. *)
Fairness ==
  /\ \A t \in Tasks :
       WF_vars(StoreStep(t)) /\ WF_vars(GetStep(t)) /\ WF_vars(DeleteStep(t))
  /\ WF_vars(MonitorSample \/ MonitorUpdate)

LiveSpec == Spec /\ Fairness

----------------------------------------------------------------------------
AgentPc == {"idle", "collect", "alloc", "header", "data", "torn", "contains",
            "len", "evict", "drop", "put", "touch", "inserted",
            "opened", "verify", "copy", "reply", "unlink", "removed"}

(* Steps at which a task has a block that is neither free nor indexed: a store
   up to map.insert, a delete up to deallocate. *)
Writing == {"data", "torn"}
Inserting == {"contains", "len", "evict", "drop", "put"}
Holding == {"header"} \cup Writing \cup Inserting \cup {"unlink", "removed"}

(* Steps at which a get still uses the entry that it cloned. *)
Reading == {"opened", "verify", "copy", "reply"}

Calls == [key : Keys \cup {None}, entry : Location \cup {None},
          shard : 0..NumShards, count : Nat, victim : Keys \cup {None},
          evicted : Nat]

Cells == [gen : Nat, crc : Data \cup {Zeroed}, data : Data \cup {Zeroed, Torn}]

VariablesOK ==
  /\ map \in [Keys -> Location \cup {None}]
  /\ lru \in Seq(Keys)
  /\ pc \in [Tasks -> AgentPc]
  /\ call \in [Tasks -> Calls]
  /\ free_list \in Seq(Blocks)
  /\ mem \in [Blocks -> Cells]
  /\ generation \in Nat \ {0}
  /\ buf \in [Tasks -> Data \cup Oversized \cup {Zeroed, Torn, None}]
  /\ pressure \in {NORMAL, WARN, CRITICAL, REJECT}
  /\ sampled \in 0..TotalBlocks \cup {None}
  /\ evictions \in Nat
  /\ written \in Seq([key : Keys, data : Data])

LocalsOK ==
  \A t \in Tasks :
    /\ pc[t] \notin {"idle", "collect"} => call[t].key \in Keys
    /\ pc[t] \in Holding \cup Reading => call[t].entry \in Location
    /\ At(t, "len") => call[t].shard \in 1..NumShards
    /\ At(t, "drop") => call[t].victim \in Keys
    /\ At(t, "alloc") => buf[t] \in Data \cup Oversized
    /\ pc[t] \in {"header"} \cup Writing => buf[t] \in Data

(* Every variable has its type, and the locals of a handler are what its next
   step expects: a key, a location and a payload that fits where it uses them. *)
TypeOK == VariablesOK /\ LocalsOK

(* No block is handed out twice.  MemoryPool::deallocate does not detect a
   double free, and handles are plain copies, so this rests on the handlers:
   the free list holds no block twice, and a free block, the blocks that
   running stores and deletes hold, and the blocks of the index entries are
   all different. *)
Ownership ==
  /\ IsInjective(free_list)
  /\ \A t \in Tasks : pc[t] \in Holding =>
       /\ call[t].entry.block \notin Range(free_list)
       /\ \A k \in Indexed : map[k].block # call[t].entry.block
       /\ \A u \in Tasks \ {t} :
            pc[u] \in Holding => call[u].entry.block # call[t].entry.block
  /\ \A k \in Indexed :
       /\ map[k].block \notin Range(free_list)
       /\ \A l \in Indexed \ {k} : map[l].block # map[k].block

(* Somebody accounts for block b: it is free, held by a running request, or
   in an index entry. *)
Accounted(b) ==
  \/ b \in Range(free_list)
  \/ \E k \in Indexed : map[k].block = b
  \/ \E t \in Tasks : pc[t] \in Holding /\ call[t].entry.block = b

(* Blocks get lost with index entries only.  No error path of a handler
   forgets its block: a block that is accounted for stays so, except that
   insert drops the block of the entry it evicts or replaces (store ignores
   both), and a lost block never comes back. *)
LostWithEntriesOnly ==
  [][\A b \in Blocks :
       /\ Accounted(b)' => Accounted(b)
       /\ Accounted(b) /\ ~Accounted(b)' =>
            \E k \in Indexed, t \in Tasks :
              /\ map[k].block = b
              /\ \/ At(t, "drop") /\ call[t].victim = k
                 \/ At(t, "put") /\ call[t].key = k
              /\ pc'[t] # pc[t]]_vars

(* Location e holds, complete and unmixed, what a store wrote for key k. *)
Intact(e, k) ==
  /\ e.gen \in DOMAIN written
  /\ written[e.gen].key = k
  /\ mem[e.block].gen = e.gen
  /\ mem[e.block].crc = written[e.gen].data
  /\ mem[e.block].data = written[e.gen].data

(* An index entry always leads to the whole payload that some store sent for
   this very key, with the generation that the entry names: never to a block
   that is half written, reused for another key, or rewritten in place. *)
IndexedBlocksIntact == \A k \in Indexed : Intact(map[k], k)

(* The header generation tells stale reads.  A get may be overtaken by a
   delete and a store that reuses the block, but whenever the bytes it copied
   are not the payload of the entry it looked up, the header of the block
   carries another generation than the entry.  Comparing the two after the
   copy, as the comment on BlockHeader::generation (block.rs:19) has readers
   do, would therefore catch every such read. *)
GenerationDetectsStaleReads ==
  \A t \in Tasks :
    /\ At(t, "reply")
    /\ mem[call[t].entry.block].gen = call[t].entry.gen
    => buf[t] = written[call[t].entry.gen].data

(* Every generation has one store, and the header of a block is ahead of its
   data.  In detail: a store that is writing has put its own generation and
   checksum in the header of its block; from then to map.insert its block is
   complete; no two blocks carry the same generation; and a get whose block
   still carries the generation of its entry finds the block complete, and no
   store is writing under that generation. *)
GenerationsUnique ==
  /\ generation = Len(written) + 1
  /\ \A b \in Blocks : mem[b].gen < generation
  /\ \A b, c \in Blocks : mem[b].gen = mem[c].gen => b = c \/ mem[b].gen = 0
  /\ \A t \in Tasks : LET e == call[t].entry IN
       /\ pc[t] \in Inserting => Intact(e, call[t].key)
       /\ pc[t] \in Writing =>
            /\ e.gen \in DOMAIN written
            /\ written[e.gen] = [key |-> call[t].key, data |-> buf[t]]
            /\ mem[e.block].gen = e.gen
            /\ mem[e.block].crc = buf[t]
       /\ pc[t] \in Reading =>
            /\ e.gen \in DOMAIN written
            /\ mem[e.block].gen = e.gen => Intact(e, call[t].key)
            /\ \A u \in Tasks : pc[u] \in Writing => call[u].entry.gen # e.gen

(* A get returns the payload that was stored for the key it asked for. *)
GetReturnsOwnKey ==
  \A t \in Tasks : At(t, "reply") /\ buf[t] \in Data =>
    \E g \in DOMAIN written : written[g] = [key |-> call[t].key, data |-> buf[t]]

(* The promise of module Cache, for clients that do not delete.  The content
   of a key is the payload that the store of its entry sent; a get that runs
   is bound to the payload of the entry it cloned, and in "reply" the bytes
   it copied must be that payload. *)
ContentOf(k) == IF map[k] = None THEN None ELSE written[map[k].gen].data

AnswerOf(t) ==
  CASE At(t, "reply") -> buf[t]
    [] pc[t] \in Reading \ {"reply"} -> written[call[t].entry.gen].data
    [] OTHER -> None

Promise == INSTANCE Cache
  WITH Payloads <- Data, Readers <- Tasks,
       content <- [k \in Keys |-> ContentOf(k)],
       answer <- [t \in Tasks |-> AnswerOf(t)]

(* Without deletes an agent implements Cache: entries appear whole, under
   their own key, and a get answers with the payload its key had when it was
   looked up, however the block of that entry is replaced meanwhile. *)
ImplementsCache == Promise!CacheSpec

(* Without deletes no get ends with DATA_LOSS: the verification of a block
   that was taken from the index succeeds. *)
GetsVerify == \A t \in Tasks : At(t, "verify") => Verifies(t)

(* Every request that has received its input completes, also when deletes and
   stores take the blocks away under a get. *)
RequestsComplete ==
  \A t \in Tasks : pc[t] \notin {"idle", "collect"} ~> At(t, "idle")

(* Once the stores and deletes have ceased, the pressure level is the level of
   the actual usage and stays so: no stale sample survives, so an agent that
   rejected stores accepts them again after deletes have freed enough. *)
PressureTracksUsage == <>[](pressure = LevelOf(used_blocks))
=============================================================================
