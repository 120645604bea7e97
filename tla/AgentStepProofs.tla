-------------------------- MODULE AgentStepProofs ---------------------------
(***************************************************************************)
(* What the steps of CacheAgent keep, for any number of tasks, keys,       *)
(* blocks and shards: the lemmas behind the theorems of CacheAgentProofs.  *)
(* The actions are first reduced to a few shapes of step (StepShapes);     *)
(* each conjunct of the inductive invariant IInv is then shown for each    *)
(* shape.                                                                  *)
(***************************************************************************)
EXTENDS CacheAgent, SequenceTheorems, TLAPS

(* Popping a stack, as MemoryPool::allocate and evict_lru do. *)
LEMMA FrontLast ==
  ASSUME NEW S, NEW s \in Seq(S), s # << >>
  PROVE  /\ SubSeq(s, 1, Len(s) - 1) \in Seq(S)
         /\ s[Len(s)] \in S
         /\ Len(s) \in Nat \ {0}
         /\ Len(SubSeq(s, 1, Len(s) - 1)) = Len(s) - 1
         /\ \A i \in 1..Len(s)-1 : SubSeq(s, 1, Len(s) - 1)[i] = s[i]
<1>1. Len(s) \in Nat \ {0}
  BY EmptySeq, Zenon
<1>2. \A i \in 1..Len(s) : s[i] \in S
  BY ElementOfSeq, Zenon
<1>3. \A i \in 1..Len(s)-1 : s[i] \in S
  BY <1>1, <1>2
<1> DEFINE n == Len(s) - 1
<1>4. n \in Int /\ 1 \in Int /\ \A i \in 1..n : s[i] \in S
  BY <1>1, <1>3
<1>5. /\ SubSeq(s, 1, n) \in Seq(S)
      /\ Len(SubSeq(s, 1, n)) = IF 1 <= n THEN n-1+1 ELSE 0
      /\ \A i \in 1..n-1+1 : SubSeq(s, 1, n)[i] = s[1+i-1]
  <2> HIDE DEF n
  <2> QED BY <1>4, SubSeqProperties
<1>7. n \in Nat
  <2>1. \A m \in Nat \ {0} : m - 1 \in Nat
    OBVIOUS
  <2>2. QED
    BY <1>1, <2>1, Zenon
<1> HIDE DEF n
<1>8. /\ SubSeq(s, 1, n) \in Seq(S)
      /\ Len(SubSeq(s, 1, n)) = n
      /\ \A i \in 1..n : SubSeq(s, 1, n)[i] = s[i]
  BY <1>4, <1>5, <1>7
<1>9. QED
  BY <1>1, <1>2, <1>8 DEF n

(* Unlinking a key leaves a list over the same keys. *)
LEMMA WithoutType ==
  ASSUME NEW S, NEW s \in Seq(S), NEW k
  PROVE  Without(s, k) \in Seq(S)
<1>0. Len(s) \in Nat /\ DOMAIN s = 1..Len(s) /\ \A i \in 1..Len(s) : s[i] \in S
  BY LenProperties, ElementOfSeq, Zenon
<1>1. CASE \E i \in DOMAIN s : s[i] = k
  <2> DEFINE j == CHOOSE i \in DOMAIN s : s[i] = k
             a == SubSeq(s, 1, j-1)
             b == SubSeq(s, j+1, Len(s))
  <2>1. j \in DOMAIN s
    BY <1>1, Zenon
  <2>2. j \in 1..Len(s)
    BY <2>1, <1>0, Zenon
  <2>3. /\ 1 \in Int /\ j-1 \in Int /\ j+1 \in Int /\ Len(s) \in Int
        /\ \A i \in 1..j-1 : s[i] \in S
        /\ \A i \in j+1..Len(s) : s[i] \in S
    <3> HIDE DEF j
    <3> QED BY <2>2, <1>0
  <2>4. a \in Seq(S) /\ b \in Seq(S)
    <3> HIDE DEF j
    <3> QED BY <2>3, SubSeqProperties, Zenon
  <2>5. a \o b \in Seq(S)
    <3> HIDE DEF a, b
    <3> QED BY <2>4, ConcatProperties, Zenon
  <2>6. QED
    BY <1>1, <2>5, Zenon DEF Without
<1>2. CASE ~ \E i \in DOMAIN s : s[i] = k
  BY <1>2, Zenon DEF Without
<1>3. QED
  BY <1>1, <1>2, Zenon

(* Touch keeps the recency order a sequence of keys. *)
LEMMA TouchType ==
  ASSUME lru \in Seq(Keys), NEW k \in Keys, Touch(k)
  PROVE  lru' \in Seq(Keys)
<1>1. <<k>> \in Seq(Keys) /\ Without(lru, k) \in Seq(Keys)
  BY WithoutType
<1>2. QED
  BY <1>1, ConcatProperties, Zenon DEF Touch

(* The sizes of sets of keys, of free lists, and of what has blocks of its own
   other than b.  CacheAgentProofs proves this from the theory of finite sets
   (CountingHolds); the lemmas take it as a hypothesis and need none of that
   theory. *)
Counting ==
  /\ Cardinality({}) = 0
  /\ \A S \in SUBSET Keys : Cardinality(S) \in Nat
  /\ \A S \in SUBSET Keys : \A R \in SUBSET S : Cardinality(R) <= Cardinality(S)
  /\ \A R, S \in SUBSET Keys :
       R \cap S = {} => Cardinality(R \cup S) = Cardinality(R) + Cardinality(S)
  /\ \A s \in Seq(Blocks) : IsInjective(s) => Len(s) <= TotalBlocks
  /\ \A S \in SUBSET Keys : \A f \in [S -> Blocks] :
       IsInjective(f) =>
         /\ Cardinality(S) <= TotalBlocks
         /\ \A b \in Blocks : (\A k \in S : f[k] # b) => Cardinality(S) < TotalBlocks

(* An injective free list has at most as many blocks as the pool. *)
LEMMA FreeListShort ==
  ASSUME Counting, free_list \in Seq(Blocks), IsInjective(free_list)
  PROVE  used_blocks \in 0..TotalBlocks
<1>1. Len(free_list) \in Nat /\ Len(free_list) <= TotalBlocks
  BY LenProperties, Zenon DEF Counting
<1>2. QED
  BY <1>1, AllocatorAssumption, SMT DEF used_blocks

(* The number of entries in a shard is a number. *)
LEMMA ShardLenType == ASSUME Counting, NEW s PROVE ShardLen(s) \in Nat
<1>1. {k \in Indexed : ShardOf[k] = s} \in SUBSET Keys
  BY Zenon DEF Indexed
<1>2. QED
  BY <1>1, Zenon DEF Counting, ShardLen

(* The inductive invariant. *)
IInv ==
  /\ VariablesOK /\ LocalsOK /\ Ownership /\ IndexedBlocksIntact
  /\ GenerationsUnique /\ GenerationDetectsStaleReads

(* The keys of the index are the composite keys. *)
LEMMA KeysAre ==
  ASSUME NEW m \in Models, NEW h \in Hashes
  PROVE  composite_key(m, h) \in Keys
  BY DEF Keys

(* A task that holds or reads a block has its location. *)
LEMMA EntryType ==
  ASSUME LocalsOK, NEW t \in Tasks, pc[t] \in Holding \cup Reading
  PROVE  /\ call[t].entry \in Location
         /\ call[t].entry.block \in Blocks
         /\ call[t].entry.gen \in Nat
<1>1. call[t].entry \in Location
  BY Zenon DEF LocalsOK
<1>2. QED
  BY <1>1, Zenon DEF Location

(* The call of an idle task is well typed. *)
LEMMA NoCallType == NoCall \in Calls
  BY AgentAssumption DEF Calls, NoCall

(* map.contains_key starts the count of map.len at the first shard and keeps the
   key and the location of the insert. *)
LEMMA CheckKeeps ==
  ASSUME pc \in [Tasks -> AgentPc], call \in [Tasks -> Calls], NEW t \in Tasks, InsertCheck(t)
  PROVE  /\ call'[t].key = call[t].key /\ call'[t].entry = call[t].entry
         /\ pc'[t] = "len" => call'[t].shard = 1
<1>1. CASE map[call[t].key] = None
  <2>1. call' = [call EXCEPT ![t] = [call[t] EXCEPT !.shard = 1, !.count = 0]]
    BY <1>1, Zenon DEF InsertCheck, Set
  <2>2. call'[t] = [call[t] EXCEPT !.shard = 1, !.count = 0] /\ call[t] \in Calls
    BY <2>1, Zenon
  <2>3. QED
    BY <2>2, Zenon DEF Calls
<1>2. CASE map[call[t].key] # None
  <2>1. call' = call /\ pc' = [pc EXCEPT ![t] = "put"] /\ pc[t] = "contains"
    BY <1>2, Zenon DEF InsertCheck, Goto, At
  <2>2. pc'[t] # "len"
    BY <2>1, Zenon
  <2>3. QED
    BY <2>1, <2>2, Zenon
<1>3. QED
  BY <1>1, <1>2, Zenon

(* The cases of TypeStep, for the task that takes the step. *)
LEMMA StoreType ==
  ASSUME VariablesOK, LocalsOK, NEW t \in Tasks,
         \/ StoreBegin(t)
         \/ \E m \in Models, h \in Hashes, d \in Data \cup Oversized :
              StoreCollected(t, m, h, d)
         \/ StoreAllocate(t) \/ StoreWriteHeader(t) \/ StoreWriteSome(t)
         \/ StoreWriteAll(t)
  PROVE  VariablesOK'
<1> USE DEF Goto, Set, SetBuf, At, agentVars, allocatorVars, monitorVars,
            telemetry
<1>0. call[t] \in Calls
  BY Zenon DEF VariablesOK
<1>1. CASE StoreBegin(t)
  BY <1>1, Zenon DEF VariablesOK, StoreBegin, AgentPc
<1>2. ASSUME NEW m \in Models, NEW h \in Hashes, NEW d \in Data \cup Oversized,
             StoreCollected(t, m, h, d)
      PROVE  VariablesOK'
  <2>1. [NoCall EXCEPT !.key = composite_key(m, h)] \in Calls
    BY KeysAre, NoCallType, Zenon DEF Calls
  <2>2. QED
    BY <1>2, <2>1, Zenon DEF VariablesOK, StoreCollected, AgentPc
<1>3. CASE StoreAllocate(t)
  <2>1. PICK b \in Blocks :
          /\ allocate(b)
          /\ Set(t, [call[t] EXCEPT !.entry = [block |-> b, gen |-> 0]])
    BY <1>3, Zenon DEF StoreAllocate
  <2>2. [call[t] EXCEPT !.entry = [block |-> b, gen |-> 0]] \in Calls
    BY <1>0, Zenon DEF Calls, Location
  <2>3. free_list' \in Seq(Blocks)
    BY <2>1, FrontLast, Zenon DEF allocate, VariablesOK
  <2>4. QED
    BY <1>3, <2>1, <2>2, <2>3, Zenon DEF VariablesOK, StoreAllocate, AgentPc
<1>4. CASE StoreWriteHeader(t)
  <2>1. buf[t] \in Data /\ call[t].key \in Keys
    BY <1>4, Zenon DEF LocalsOK, StoreWriteHeader, Writing
  <2>2. call[t].entry \in Location /\ call[t].entry.block \in Blocks
    BY <1>4, EntryType, Zenon DEF StoreWriteHeader, Holding
  <2>3. [call[t] EXCEPT !.entry.gen = generation] \in Calls
    BY <1>0, <2>2, Zenon DEF VariablesOK, Calls, Location
  <2>4. mem' \in [Blocks -> Cells]
    <3> DEFINE b == call[t].entry.block
    <3>1. [mem[b] EXCEPT !.gen = generation, !.crc = buf[t]] \in Cells
      BY <2>1, <2>2, ZenonT(40) DEF VariablesOK, Cells
    <3>2. mem' = [mem EXCEPT ![b] = [mem[b] EXCEPT !.gen = generation, !.crc = buf[t]]]
      BY <1>4, <2>2, Zenon DEF VariablesOK, Cells, StoreWriteHeader, WriteHeader
    <3>3. QED
      BY <2>2, <3>1, <3>2, Zenon DEF VariablesOK
  <2>5. written' \in Seq([key : Keys, data : Data])
    BY <1>4, <2>1 DEF VariablesOK, StoreWriteHeader
  <2>6. generation' \in Nat \ {0}
    BY <1>4 DEF VariablesOK, StoreWriteHeader, WriteHeader
  <2>7. QED
    BY <1>4, <2>3, <2>4, <2>5, <2>6, Zenon DEF VariablesOK, StoreWriteHeader, AgentPc
<1>5. CASE StoreWriteSome(t) \/ StoreWriteAll(t)
  <2>1. buf[t] \in Data
    BY <1>5, Zenon DEF LocalsOK, StoreWriteSome, StoreWriteAll, Writing
  <2>2. call[t].entry.block \in Blocks
    BY <1>5, EntryType, Zenon DEF StoreWriteSome, StoreWriteAll, Holding, Writing
  <2>3. mem' \in [Blocks -> Cells]
    <3> DEFINE b == call[t].entry.block
    <3>1. /\ [mem[b] EXCEPT !.data = buf[t]] \in Cells
          /\ [mem[b] EXCEPT !.data = Torn] \in Cells
      BY <2>1, <2>2, ZenonT(40) DEF VariablesOK, Cells
    <3>2. \/ mem' = [mem EXCEPT ![b] = [mem[b] EXCEPT !.data = buf[t]]]
          \/ mem' = [mem EXCEPT ![b] = [mem[b] EXCEPT !.data = Torn]]
      BY <1>5, <2>2, Zenon
      DEF VariablesOK, StoreWriteSome, StoreWriteAll, WriteSomeData, WriteAllData
    <3>3. QED
      BY <2>2, <3>1, <3>2, Zenon DEF VariablesOK
  <2>4. QED
    BY <1>5, <2>3, Zenon DEF VariablesOK, StoreWriteSome, StoreWriteAll, AgentPc
<1>6. QED
  BY <1>1, <1>2, <1>3, <1>4, <1>5, Zenon

(* BlockIndex::insert, step by step. *)
LEMMA InsertType ==
  ASSUME Counting, VariablesOK, LocalsOK, NEW t \in Tasks, StoreInsert(t)
  PROVE  VariablesOK'
<1> USE DEF Goto, Set, At, agentVars, allocatorVars
<1>0. call[t] \in Calls /\ UNCHANGED <<allocatorVars, agentVars>>
  BY Zenon DEF VariablesOK, StoreInsert
<1>9. NumShards \in Nat /\ 0 \in 0..NumShards /\ 1 \in 0..NumShards
  BY AgentAssumption
<1>1. CASE InsertCheck(t)
  <2>1. [call[t] EXCEPT !.shard = 1, !.count = 0] \in Calls
    BY <1>0, <1>9, Zenon DEF Calls
  <2>2. QED
    BY <1>0, <1>1, <2>1, ZenonT(30) DEF VariablesOK, InsertCheck, AgentPc
<1>2. CASE CountShard(t)
  <2> DEFINE n == call[t].count + ShardLen(call[t].shard)
  <2>1. n \in Nat
    BY <1>0, ShardLenType DEF Calls
  <2>2. call[t].shard < NumShards =>
          [call[t] EXCEPT !.shard = @ + 1, !.count = n] \in Calls
    <3>1. call[t].shard < NumShards => call[t].shard + 1 \in 0..NumShards
      BY <1>0, <1>9 DEF Calls
    <3>2. QED
      BY <1>0, <2>1, <3>1, Zenon DEF Calls
  <2>3. [call[t] EXCEPT !.shard = 0, !.count = 0] \in Calls
    BY <1>0, <1>9, Zenon DEF Calls
  <2>4. call' \in [Tasks -> Calls] /\ pc' \in [Tasks -> AgentPc]
    BY <1>2, <2>2, <2>3, ZenonT(40) DEF VariablesOK, CountShard, AgentPc
  <2>5. QED
    BY <1>0, <1>2, <2>4, Zenon DEF VariablesOK, CountShard
<1>3. CASE EvictVictim(t)
  <2>1. PICK v \in Keys : EvictLru(v) /\ Set(t, [call[t] EXCEPT !.victim = v])
    BY <1>3, Zenon DEF EvictVictim
  <2>2. lru' \in Seq(Keys)
    BY <2>1, FrontLast, Zenon DEF EvictLru, VariablesOK
  <2>3. [call[t] EXCEPT !.victim = v] \in Calls
    BY <1>0, Zenon DEF Calls
  <2>4. QED
    BY <1>0, <1>3, <2>1, <2>2, <2>3, Zenon DEF VariablesOK, EvictVictim, AgentPc
<1>4. CASE EvictNothing(t)
  BY <1>0, <1>4, Zenon DEF VariablesOK, EvictNothing, AgentPc
<1>5. CASE DropVictim(t)
  <2>1. [call[t] EXCEPT !.victim = None, !.evicted = @ + 1, !.shard = 1] \in Calls
    <3>1. call[t].evicted + 1 \in Nat
      BY <1>0 DEF Calls
    <3>2. QED
      BY <1>0, <1>9, <3>1, Zenon DEF Calls
  <2>2. QED
    BY <1>0, <1>5, <2>1, Zenon DEF VariablesOK, DropVictim, AgentPc
<1>6. CASE Put(t)
  <2>1. call[t].entry \in Location
    BY <1>6, EntryType, Zenon DEF Put, Holding, Inserting
  <2>2. QED
    BY <1>0, <1>6, <2>1, Zenon DEF VariablesOK, Put, AgentPc
<1>7. CASE InsertTouch(t)
  <2>1. call[t].key \in Keys
    BY <1>7, Zenon DEF InsertTouch, LocalsOK
  <2>2. lru' \in Seq(Keys)
    BY <1>7, <2>1, TouchType, Zenon DEF InsertTouch, VariablesOK
  <2>3. QED
    BY <1>0, <1>7, <2>2, Zenon DEF VariablesOK, InsertTouch, AgentPc
<1>8. QED
  BY <1>1, <1>2, <1>3, <1>4, <1>5, <1>6, <1>7, Zenon DEF StoreInsert, InsertStep

(* A handler that returns, whatever it did before. *)
LEMMA ReturnType ==
  ASSUME VariablesOK, NEW t \in Tasks,
         \/ StoreAbort(t) \/ StoreRefused(t) \/ StoreFinish(t)
         \/ GetDropped(t) \/ GetDataLoss(t) \/ GetReply(t)
  PROVE  VariablesOK'
<1> USE DEF Finish, Goto, Set, SetBuf, At, allocatorVars, monitorVars, telemetry
<1>1. call[t].evicted \in Nat
  BY Zenon DEF VariablesOK, Calls
<1>2. pc' \in [Tasks -> AgentPc] /\ call' \in [Tasks -> Calls]
  BY NoCallType, ZenonT(40) DEF VariablesOK, AgentPc, StoreAbort, StoreRefused, StoreFinish,
    GetDropped, GetDataLoss, GetReply
<1>3. buf' \in [Tasks -> Data \cup Oversized \cup {Zeroed, Torn, None}]
  BY Zenon DEF VariablesOK, StoreAbort, StoreRefused, StoreFinish, GetDropped,
    GetDataLoss, GetReply
<1>4. QED
  BY <1>1, <1>2, <1>3, SMTT(30) DEF VariablesOK, StoreAbort, StoreRefused, StoreFinish,
    GetDropped, GetDataLoss, GetReply

(* The steps of get before its reply. *)
LEMMA GetType ==
  ASSUME VariablesOK, LocalsOK, NEW t \in Tasks,
         \/ \E m \in Models, h \in Hashes : GetFound(t, m, h)
         \/ GetReadHeader(t) \/ GetVerified(t) \/ GetCopy(t)
  PROVE  VariablesOK'
<1> USE DEF Goto, Set, SetBuf, At, allocatorVars, agentVars, monitorVars,
            telemetry
<1>1. ASSUME NEW m \in Models, NEW h \in Hashes, GetFound(t, m, h)
      PROVE  VariablesOK'
  <2> DEFINE k == composite_key(m, h)
  <2>1. k \in Keys
    BY KeysAre, Zenon
  <2>2. map[k] \in Location \cup {None}
    BY <2>1, Zenon DEF VariablesOK
  <2>3. [NoCall EXCEPT !.key = k, !.entry = map[k]] \in Calls
    BY <2>1, <2>2, NoCallType, Zenon DEF Calls
  <2>4. lru' \in Seq(Keys)
    BY <1>1, <2>1, TouchType, Zenon DEF VariablesOK, GetFound, LookupHit
  <2>5. QED
    BY <1>1, <2>3, <2>4, Zenon DEF VariablesOK, GetFound, LookupHit, AgentPc
<1>2. CASE GetReadHeader(t) \/ GetVerified(t) \/ GetCopy(t)
  <2>1. call[t].entry.block \in Blocks
    BY <1>2, EntryType, Zenon DEF GetReadHeader, GetVerified, GetCopy, Reading
  <2>2. mem[call[t].entry.block] \in Cells
    BY <2>1, Zenon DEF VariablesOK
  <2>3. /\ mem[call[t].entry.block].crc \in Data \cup {Zeroed}
        /\ mem[call[t].entry.block].data \in Data \cup {Zeroed, Torn}
    BY <2>2, Zenon DEF Cells
  <2>4. buf' \in [Tasks -> Data \cup Oversized \cup {Zeroed, Torn, None}]
    BY <1>2, <2>3, Zenon DEF VariablesOK, GetReadHeader, GetVerified, GetCopy
  <2>5. pc' \in [Tasks -> AgentPc]
    BY <1>2, ZenonT(40) DEF VariablesOK, AgentPc, GetReadHeader, GetVerified, GetCopy
  <2>6. QED
    BY <1>2, <2>4, <2>5, Zenon DEF VariablesOK, GetReadHeader, GetVerified, GetCopy
<1>3. QED
  BY <1>1, <1>2, Zenon

(* The steps of delete. *)
LEMMA DeleteType ==
  ASSUME VariablesOK, LocalsOK, NEW t \in Tasks,
         DeleteStep(t) \/ \E h \in Hashes : DeleteBegin(t, h)
  PROVE  VariablesOK'
<1> USE DEF Goto, Set, At, allocatorVars, agentVars, monitorVars, telemetry
<1>1. ASSUME NEW h \in Hashes, DeleteBegin(t, h)
      PROVE  VariablesOK'
  <2> DEFINE k == composite_key(NoModel, h)
  <2>1. k \in Keys
    BY KeysAre, AgentAssumption, Zenon
  <2>2. map[k] \in Location \cup {None}
    BY <2>1, Zenon DEF VariablesOK
  <2>3. [NoCall EXCEPT !.key = k, !.entry = map[k]] \in Calls
    BY <2>1, <2>2, NoCallType, Zenon DEF Calls
  <2>4. QED
    BY <1>1, <2>3, Zenon DEF VariablesOK, DeleteBegin, RemoveEntry, AgentPc
<1>2. CASE DeleteUnlink(t)
  <2>1. lru' \in Seq(Keys)
    BY <1>2, WithoutType, Zenon DEF VariablesOK, DeleteUnlink, RemoveUnlink, Forget
  <2>2. QED
    BY <1>2, <2>1, Zenon DEF VariablesOK, DeleteUnlink, RemoveUnlink, AgentPc
<1>3. CASE DeleteFree(t)
  <2>1. call[t].entry.block \in Blocks
    BY <1>3, EntryType, Zenon DEF DeleteFree, Holding
  <2>2. free_list' \in Seq(Blocks)
    BY <1>3, <2>1 DEF VariablesOK, DeleteFree, deallocate
  <2>3. QED
    BY <1>3, <2>2, NoCallType, Zenon
    DEF VariablesOK, DeleteFree, Finish, SetBuf, AgentPc
<1>4. QED
  BY <1>1, <1>2, <1>3, Zenon DEF DeleteStep

(* No step of a handler or of the monitor breaks the type of a variable. *)
LEMMA TypeStep ==
  ASSUME Counting, IInv, [Next]_vars
  PROVE  VariablesOK'
<1> USE DEF IInv
<1>1. ASSUME NEW m \in Models, NEW h \in Hashes, Lookup(m, h)
      PROVE  VariablesOK'
  BY <1>1, KeysAre, TouchType, Zenon
  DEF VariablesOK, Lookup, LookupHit, allocatorVars, agentVars
<1>2. CASE MonitorSample
  BY <1>2, FreeListShort, Zenon
  DEF VariablesOK, Ownership, MonitorSample, allocatorVars, telemetry
<1>3. CASE MonitorUpdate
  BY <1>3, Zenon DEF VariablesOK, MonitorUpdate, LevelOf, NORMAL, WARN, CRITICAL, REJECT,
    allocatorVars, telemetry
<1>4. CASE UNCHANGED vars
  BY <1>4, Zenon DEF VariablesOK, vars
<1>5. QED
  BY <1>1, <1>2, <1>3, <1>4, StoreType, InsertType, ReturnType, GetType,
    DeleteType, Zenon DEF Next, EngineNext, StoreStep, GetStep

----------------------------------------------------------------------------
(***************************************************************************)
(* What a step does to the state that the invariants read: the map, the    *)
(* block memory, the history, and where each task is and what it holds.    *)
(* Every step of Next has one of twelve shapes (StepShapes), and each      *)
(* invariant is proved once per shape.                                     *)
(***************************************************************************)
Rest(t) ==
  \A u \in Tasks \ {t} : pc'[u] = pc[u] /\ call'[u] = call[u] /\ buf'[u] = buf[u]

(* Task t keeps its key and its location. *)
Keeps(t) == call'[t].key = call[t].key /\ call'[t].entry = call[t].entry

memory == <<mem, generation, written>>

Nothing == UNCHANGED <<map, free_list, memory, pc, call, buf>>

Outside(t) ==
  /\ UNCHANGED <<map, free_list, memory>> /\ Rest(t)
  /\ pc[t] \notin Holding
  /\ pc'[t] \notin Holding \cup Reading

Inside(t) ==
  /\ UNCHANGED <<map, free_list, memory>> /\ Rest(t) /\ Keeps(t)
  /\ \/ pc[t] \in Inserting /\ pc'[t] \in Inserting
     \/ pc[t] = "unlink" /\ pc'[t] = "removed"

Reads(t) ==
  /\ UNCHANGED <<map, free_list, memory>> /\ Rest(t) /\ Keeps(t)
  /\ pc[t] \in Reading /\ pc'[t] \in Reading
  /\ pc'[t] = "verify" =>
       \/ buf'[t] = mem[call[t].entry.block].crc
       \/ \E u \in Tasks : pc[u] = "header" /\ call[u].entry.block = call[t].entry.block
  /\ pc'[t] = "copy" => pc[t] = "verify" /\ buf'[t] = buf[t]
  /\ pc'[t] = "reply" => buf'[t] = mem[call[t].entry.block].data

Opens(t) ==
  /\ UNCHANGED <<map, free_list, memory>> /\ Rest(t)
  /\ pc[t] = "idle" /\ pc'[t] = "opened"
  /\ \E k \in Indexed : call'[t].key = k /\ call'[t].entry = map[k]

Allocates(t) ==
  /\ UNCHANGED <<map, memory>> /\ Rest(t)
  /\ pc[t] = "alloc" /\ pc'[t] = "header"
  /\ \E b \in Blocks : allocate(b) /\ call'[t].entry.block = b

Labels(t) ==
  LET b == call[t].entry.block
  IN  /\ UNCHANGED <<map, free_list>> /\ Rest(t)
      /\ pc[t] = "header" /\ pc'[t] = "data"
      /\ call'[t].key = call[t].key
      /\ call'[t].entry.block = b /\ call'[t].entry.gen = generation
      /\ buf'[t] = buf[t]
      /\ \A c \in Blocks \ {b} : mem'[c] = mem[c]
      /\ mem'[b].gen = generation /\ mem'[b].crc = buf[t]
      /\ generation' = generation + 1
      /\ written' = Append(written, [key |-> call[t].key, data |-> buf[t]])

Fills(t) ==
  LET b == call[t].entry.block
  IN  /\ UNCHANGED <<map, free_list, generation, written>> /\ Rest(t) /\ Keeps(t)
      /\ buf'[t] = buf[t]
      /\ \A c \in Blocks \ {b} : mem'[c] = mem[c]
      /\ mem'[b].gen = mem[b].gen /\ mem'[b].crc = mem[b].crc
      /\ pc[t] \in Writing
      /\ \/ pc'[t] \in Writing
         \/ pc'[t] = "contains" /\ mem'[b].data = buf[t]

Drops(t) ==
  /\ UNCHANGED <<free_list, memory>> /\ Rest(t) /\ Keeps(t)
  /\ pc[t] \in Inserting /\ pc'[t] \in Inserting
  /\ pc[t] = "drop" /\ pc'[t] # pc[t]
  /\ \E v \in Keys : v = call[t].victim /\ map' = [map EXCEPT ![v] = None]

Puts(t) ==
  /\ UNCHANGED <<free_list, memory>> /\ Rest(t)
  /\ pc[t] = "put" /\ pc'[t] = "touch"
  /\ map' = [map EXCEPT ![call[t].key] = call[t].entry]

Takes(t) ==
  /\ UNCHANGED <<free_list, memory>> /\ Rest(t)
  /\ pc[t] = "idle" /\ pc'[t] = "unlink"
  /\ \E k \in Indexed : call'[t].entry = map[k] /\ map' = [map EXCEPT ![k] = None]

Frees(t) ==
  /\ UNCHANGED <<map, memory>> /\ Rest(t)
  /\ pc[t] = "removed" /\ pc'[t] = "idle"
  /\ deallocate(call[t].entry.block)

(* Counting a shard changes neither the key nor the location of an insert. *)
LEMMA CountShardKeeps ==
  ASSUME NEW t \in Tasks, call \in [Tasks -> Calls], CountShard(t)
  PROVE  Keeps(t)
<1>1. \A i, n : /\ [call[t] EXCEPT !.shard = i, !.count = n].key = call[t].key
                /\ [call[t] EXCEPT !.shard = i, !.count = n].entry = call[t].entry
  BY Zenon DEF Calls
<1>2. \E i, n : call'[t] = [call[t] EXCEPT !.shard = i, !.count = n]
  <2>1. CASE call[t].shard < NumShards
    BY <2>1, Zenon DEF CountShard, Set
  <2>2. CASE ~(call[t].shard < NumShards)
    BY <2>2, Zenon DEF CountShard, Set
  <2>3. QED
    BY <2>1, <2>2, Zenon
<1>3. QED
  BY <1>1, <1>2 DEF Keeps

(* Each step of a store has one of the shapes above. *)
LEMMA StoreShapes ==
  ASSUME VariablesOK, LocalsOK, NEW t \in Tasks, StoreStep(t)
  PROVE  \/ Outside(t) \/ Inside(t) \/ Allocates(t) \/ Labels(t) \/ Fills(t)
         \/ Drops(t) \/ Puts(t)
<1> USE DEF Goto, Set, SetBuf, At, agentVars, allocatorVars, monitorVars,
            telemetry, memory, Rest, Keeps, Inserting, Writing, VariablesOK
<1>0. call[t] \in Calls
  BY Zenon
<1>1. CASE StoreAllocate(t)
  <2>1. PICK b \in Blocks :
          allocate(b) /\ Set(t, [call[t] EXCEPT !.entry = [block |-> b, gen |-> 0]])
    BY <1>1, Zenon DEF StoreAllocate
  <2>2. call'[t].entry.block = b
    BY <1>0, <2>1, Zenon DEF Calls
  <2>3. Allocates(t)
    BY <1>1, <2>1, <2>2, Zenon DEF StoreAllocate, Allocates
  <2>4. QED
    BY <2>3, Zenon
<1>2. CASE StoreRefused(t) \/ StoreFinish(t)
  <2>1. Outside(t)
    BY <1>2, Zenon DEF StoreRefused, StoreFinish, Finish, Outside, Holding, Reading
  <2>2. QED
    BY <2>1, Zenon
<1>3. CASE StoreWriteHeader(t)
  <2> DEFINE b == call[t].entry.block
  <2>1. call[t].entry \in Location /\ b \in Blocks
    BY <1>3, EntryType, Zenon DEF StoreWriteHeader, Holding
  <2>2. call'[t].key = call[t].key /\ call'[t].entry.block = b
    BY <1>0, <1>3, <2>1, Zenon DEF StoreWriteHeader, Calls, Location
  <2>3. call'[t].entry.gen = generation
    BY <1>0, <1>3, <2>1, Zenon DEF StoreWriteHeader, Calls, Location
  <2>4. mem'[b].gen = generation /\ mem'[b].crc = buf[t]
    BY <1>3, <2>1, ZenonT(30) DEF StoreWriteHeader, WriteHeader, Cells
  <2>5. \A c \in Blocks \ {b} : mem'[c] = mem[c]
    BY <1>3, <2>1, Zenon DEF StoreWriteHeader, WriteHeader, Cells
  <2>6. Labels(t)
    BY <1>3, <2>2, <2>3, <2>4, <2>5, Zenon DEF StoreWriteHeader, WriteHeader, Labels
  <2>7. QED
    BY <2>6, Zenon
<1>4. CASE StoreWriteSome(t) \/ StoreWriteAll(t)
  <2> DEFINE b == call[t].entry.block
  <2>1. b \in Blocks
    BY <1>4, EntryType, Zenon DEF StoreWriteSome, StoreWriteAll, Holding
  <2>2. \A c \in Blocks \ {b} : mem'[c] = mem[c]
    BY <1>4, <2>1, Zenon
    DEF StoreWriteSome, StoreWriteAll, WriteSomeData, WriteAllData
  <2>7. mem[b] \in Cells
    BY <2>1, Zenon
  <2>8. PICK x : /\ mem'[b] = [mem[b] EXCEPT !.data = x]
                 /\ StoreWriteAll(t) => x = buf[t]
    <3>1. CASE StoreWriteSome(t)
      BY <2>1, <3>1, Zenon DEF StoreWriteSome, WriteSomeData, StoreWriteAll
    <3>2. CASE StoreWriteAll(t)
      BY <2>1, <3>2, Zenon DEF StoreWriteAll, WriteAllData
    <3>3. QED
      BY <1>4, <3>1, <3>2, Zenon
  <2>3. mem'[b].gen = mem[b].gen /\ mem'[b].crc = mem[b].crc
    BY <2>7, <2>8, Zenon DEF Cells
  <2>4. StoreWriteAll(t) => mem'[b].data = buf[t]
    BY <2>7, <2>8, Zenon DEF Cells
  <2>5. Fills(t)
    BY <1>4, <2>2, <2>3, <2>4, Zenon DEF StoreWriteSome, StoreWriteAll, Fills
  <2>6. QED
    BY <2>5, Zenon
<1>5. CASE StoreInsert(t)
  <2>1. UNCHANGED <<allocatorVars, agentVars>>
    BY <1>5, Zenon DEF StoreInsert
  <2>2. CASE InsertCheck(t)
    <3>1. Keeps(t)
      BY <1>0, <2>2, CheckKeeps, Zenon
    <3>2. Inside(t)
      BY <2>1, <2>2, <3>1, Zenon DEF InsertCheck, Inside
    <3>3. QED
      BY <3>2, Zenon
  <2>3. CASE CountShard(t)
    <3>1. Inside(t)
      BY <1>0, <2>1, <2>3, CountShardKeeps, ZenonT(40) DEF CountShard, Inside
    <3>2. QED
      BY <3>1, Zenon
  <2>4. CASE EvictVictim(t) \/ EvictNothing(t)
    <3>1. Keeps(t)
      <4>1. \A v : /\ [call[t] EXCEPT !.victim = v].key = call[t].key
                   /\ [call[t] EXCEPT !.victim = v].entry = call[t].entry
        BY <1>0, Zenon DEF Calls
      <4>2. call' = call \/ \E v : call'[t] = [call[t] EXCEPT !.victim = v]
        BY <2>4, Zenon DEF EvictVictim, EvictNothing
      <4>3. QED
        BY <4>1, <4>2, Zenon
    <3>2. Inside(t)
      BY <2>1, <2>4, <3>1, Zenon DEF EvictVictim, EvictNothing, Inside
    <3>3. QED
      BY <3>2, Zenon
  <2>5. CASE DropVictim(t)
    <3>1. Keeps(t)
      BY <1>0, <2>5, Zenon DEF DropVictim, Calls
    <3>2. call[t].victim \in Keys
      BY <2>5, Zenon DEF LocalsOK, DropVictim
    <3>3. Drops(t)
      BY <2>1, <2>5, <3>1, <3>2, Zenon DEF DropVictim, Drops
    <3>4. QED
      BY <3>3, Zenon
  <2>6. CASE Put(t)
    <3>1. Puts(t)
      BY <2>1, <2>6, Zenon DEF Put, Puts
    <3>2. QED
      BY <3>1, Zenon
  <2>7. CASE InsertTouch(t)
    <3>1. Outside(t)
      BY <2>1, <2>7, Zenon DEF InsertTouch, Outside, Holding, Reading
    <3>2. QED
      BY <3>1, Zenon
  <2>8. QED
    BY <1>5, <2>2, <2>3, <2>4, <2>5, <2>6, <2>7, ZenonT(40) DEF StoreInsert, InsertStep
<1>6. QED
  BY <1>1, <1>2, <1>3, <1>4, <1>5, Zenon DEF StoreStep

(* So has each step of the agent but those of delete. *)
LEMMA EngineShapes ==
  ASSUME VariablesOK, LocalsOK, [EngineNext]_vars
  PROVE  \/ Nothing
         \/ \E t \in Tasks :
              \/ Outside(t) \/ Inside(t) \/ Reads(t) \/ Opens(t)
              \/ Allocates(t) \/ Labels(t) \/ Fills(t) \/ Drops(t)
              \/ Puts(t)
<1> USE DEF Goto, Set, SetBuf, At, agentVars, allocatorVars, monitorVars,
            telemetry, memory, Rest, Keeps, VariablesOK
<1>1. CASE \/ \E m \in Models, h \in Hashes : Lookup(m, h)
           \/ MonitorSample \/ MonitorUpdate \/ UNCHANGED vars
  BY <1>1, Zenon DEF Nothing, Lookup, LookupHit, MonitorSample, MonitorUpdate, vars
<1>2. ASSUME NEW t \in Tasks,
             \/ StoreBegin(t) \/ StoreAbort(t)
             \/ \E m \in Models, h \in Hashes, d \in Data \cup Oversized :
                  StoreCollected(t, m, h, d)
             \/ GetDropped(t) \/ GetDataLoss(t) \/ GetReply(t)
      PROVE  Outside(t)
  BY <1>2, SMTT(30) DEF Outside, Holding, Reading, Writing, Inserting, StoreBegin,
    StoreAbort, StoreCollected, GetDropped, GetDataLoss, GetReply, Finish
<1>3. ASSUME NEW t \in Tasks, GetReadHeader(t) \/ GetVerified(t) \/ GetCopy(t)
      PROVE  Reads(t)
  BY <1>3, Zenon DEF Reads, Reading, GetReadHeader, GetVerified, GetCopy
<1>4. ASSUME NEW t \in Tasks, NEW m \in Models, NEW h \in Hashes,
             GetFound(t, m, h)
      PROVE  Opens(t)
  <2> DEFINE k == composite_key(m, h)
  <2>1. k \in Keys
    BY KeysAre, Zenon
  <2>2. k \in Indexed
    BY <1>4, <2>1, Zenon DEF GetFound, LookupHit, Indexed
  <2>3. call'[t].key = k /\ call'[t].entry = map[k]
    BY <1>4, Zenon DEF GetFound, NoCall
  <2>4. QED
    BY <1>4, <2>2, <2>3, Zenon DEF GetFound, LookupHit, Opens
<1>5. QED
  BY <1>1, <1>2, <1>3, <1>4, StoreShapes, ZenonT(40) DEF EngineNext, GetStep

(* Each step of the agent has one of the shapes above, so that the invariants
   about blocks are proved once per shape and not once per action. *)
LEMMA StepShapes ==
  ASSUME VariablesOK, LocalsOK, [Next]_vars
  PROVE  \/ Nothing
         \/ \E t \in Tasks :
              \/ Outside(t) \/ Inside(t) \/ Reads(t) \/ Opens(t)
              \/ Allocates(t) \/ Labels(t) \/ Fills(t) \/ Drops(t)
              \/ Puts(t) \/ Takes(t) \/ Frees(t)
<1> USE DEF Goto, Set, SetBuf, At, agentVars, allocatorVars, monitorVars,
            telemetry, memory, Rest, Keeps, VariablesOK
<1>1. ASSUME NEW t \in Tasks, NEW h \in Hashes, DeleteBegin(t, h)
      PROVE  Takes(t)
  <2> DEFINE k == composite_key(NoModel, h)
  <2>1. k \in Keys
    BY KeysAre, AgentAssumption, Zenon
  <2>2. k \in Indexed
    BY <1>1, <2>1, Zenon DEF DeleteBegin, RemoveEntry, Indexed
  <2>3. call'[t].entry = map[k]
    BY <1>1, Zenon DEF DeleteBegin, RemoveEntry, NoCall
  <2>4. QED
    BY <1>1, <2>2, <2>3, Zenon DEF DeleteBegin, RemoveEntry, Takes
<1>2. ASSUME NEW t \in Tasks, DeleteUnlink(t)
      PROVE  Inside(t)
  BY <1>2, Zenon DEF DeleteUnlink, RemoveUnlink, Inside
<1>3. ASSUME NEW t \in Tasks, DeleteFree(t)
      PROVE  Frees(t)
  BY <1>3, Zenon DEF DeleteFree, Finish, Frees
<1>4. QED
  BY <1>1, <1>2, <1>3, EngineShapes, ZenonT(40) DEF Next, DeleteStep

----------------------------------------------------------------------------
(* allocate takes one block out of the free list ... *)
LEMMA PopFree ==
  ASSUME free_list \in Seq(Blocks), IsInjective(free_list), NEW b, allocate(b)
  PROVE  /\ b \in Range(free_list)
         /\ b \notin Range(free_list')
         /\ Range(free_list') \subseteq Range(free_list)
         /\ Range(free_list) \subseteq Range(free_list') \cup {b}
         /\ IsInjective(free_list')
<1>1. /\ Len(free_list) \in Nat \ {0}
      /\ free_list' \in Seq(Blocks)
      /\ Len(free_list') = Len(free_list) - 1
      /\ \A i \in 1..Len(free_list) - 1 : free_list'[i] = free_list[i]
  BY FrontLast, Zenon DEF allocate
<1>2. DOMAIN free_list = 1..Len(free_list) /\ DOMAIN free_list' = 1..Len(free_list) - 1
  BY <1>1, LenProperties, Zenon
<1>3. b = free_list[Len(free_list)]
  BY Zenon DEF allocate
<1>4. \A i \in DOMAIN free_list' :
        i \in DOMAIN free_list /\ free_list'[i] = free_list[i] /\ i # Len(free_list)
  BY <1>1, <1>2
<1>5. Len(free_list) \in DOMAIN free_list
  BY <1>1, <1>2
<1>6. \A i \in DOMAIN free_list : i \in DOMAIN free_list' \/ i = Len(free_list)
  BY <1>1, <1>2
<1>7. Range(free_list) \subseteq Range(free_list') \cup {b}
  BY <1>3, <1>4, <1>6, Zenon DEF Range
<1>8. QED
  BY <1>3, <1>4, <1>5, <1>7, Zenon DEF Range, IsInjective

(* ... and deallocate adds one. *)
LEMMA PushFree ==
  ASSUME free_list \in Seq(Blocks), IsInjective(free_list), NEW b \in Blocks,
         b \notin Range(free_list), deallocate(b)
  PROVE  /\ Range(free_list') = Range(free_list) \cup {b}
         /\ IsInjective(free_list')
<1> DEFINE n == Len(free_list)
<1>1. n \in Nat /\ DOMAIN free_list = 1..n
  BY LenProperties, Zenon
<1>2. /\ DOMAIN free_list' = 1..n + 1
      /\ \A i \in 1..n : free_list'[i] = free_list[i]
      /\ free_list'[n + 1] = b
  BY <1>1 DEF deallocate
<1>3. \A i \in 1..n + 1 : i \in 1..n \/ i = n + 1
  BY <1>1
<1>4. n + 1 \in 1..n + 1 /\ \A i \in 1..n : i \in 1..n + 1 /\ i # n + 1
  BY <1>1
<1> HIDE DEF n
<1>5. Range(free_list') = Range(free_list) \cup {b}
  BY <1>1, <1>2, <1>3, <1>4, Zenon DEF Range
<1>6. \A i \in 1..n : free_list[i] # b
  BY <1>1, Zenon DEF Range
<1>7. ASSUME NEW i \in 1..n + 1, NEW j \in 1..n + 1, free_list'[i] = free_list'[j]
      PROVE  i = j
  BY <1>1, <1>2, <1>3, <1>6, <1>7, Zenon DEF IsInjective
<1>8. QED
  BY <1>2, <1>5, <1>7, Zenon DEF IsInjective

(* A step after which nobody owns a block that it did not own before. *)
LEMMA OwnershipKept ==
  ASSUME Ownership,
         IsInjective(free_list'),
         Range(free_list') \subseteq Range(free_list),
         \A k \in Keys : map'[k] = None \/ map'[k] = map[k],
         \A u \in Tasks : pc'[u] \in Holding =>
           pc[u] \in Holding /\ call'[u].entry.block = call[u].entry.block
  PROVE  Ownership'
  BY DEF Ownership, Indexed

(* Every shape of step keeps the blocks of the free list, of the index and of
   the handlers apart. *)
LEMMA OwnershipStep ==
  ASSUME IInv, [Next]_vars
  PROVE  Ownership'
<1> USE DEF IInv
<1> DEFINE Same(u) == pc'[u] \in Holding =>
             pc[u] \in Holding /\ call'[u].entry.block = call[u].entry.block
<1>1. CASE Nothing
  BY <1>1, Zenon DEF Nothing, Ownership, Indexed
<1>2. ASSUME NEW t \in Tasks,
             Outside(t) \/ Inside(t) \/ Reads(t) \/ Opens(t) \/ Labels(t) \/ Fills(t)
      PROVE  Ownership'
  <2>1. \A u \in Tasks \ {t} : Same(u)
    BY <1>2, Zenon DEF Outside, Inside, Reads, Opens, Labels, Fills, Rest
  <2>2. Same(t)
    BY <1>2, Zenon DEF Outside, Inside, Reads, Opens, Labels, Fills, Keeps, Holding,
      Reading, Writing, Inserting
  <2>3. UNCHANGED <<map, free_list>>
    BY <1>2, Zenon DEF Outside, Inside, Reads, Opens, Labels, Fills
  <2>4. QED
    BY <2>1, <2>2, <2>3, OwnershipKept, Zenon DEF Ownership
<1>3. ASSUME NEW t \in Tasks, Drops(t)
      PROVE  Ownership'
  <2>1. \A u \in Tasks \ {t} : Same(u)
    BY <1>3, Zenon DEF Drops, Rest
  <2>2. Same(t)
    BY <1>3, Zenon DEF Drops, Keeps, Holding
  <2>3. \A k \in Keys : map'[k] = None \/ map'[k] = map[k]
    BY <1>3, Zenon DEF Drops, VariablesOK
  <2>4. QED
    BY <1>3, <2>1, <2>2, <2>3, OwnershipKept, Zenon DEF Drops, Ownership
<1>4. ASSUME NEW t \in Tasks, Allocates(t)
      PROVE  Ownership'
  <2>1. PICK b \in Blocks : allocate(b) /\ call'[t].entry.block = b
    BY <1>4, Zenon DEF Allocates
  <2>2. /\ b \in Range(free_list) /\ b \notin Range(free_list')
        /\ Range(free_list') \subseteq Range(free_list)
        /\ IsInjective(free_list')
    BY <2>1, PopFree, Zenon DEF VariablesOK, Ownership
  <2>3. map' = map /\ Indexed' = Indexed
    BY <1>4, Zenon DEF Allocates, Indexed
  <2>4. \A u \in Tasks \ {t} : pc'[u] = pc[u] /\ call'[u] = call[u]
    BY <1>4, Zenon DEF Allocates, Rest
  <2>5. /\ \A k \in Indexed : map[k].block # b
        /\ \A u \in Tasks : pc[u] \in Holding => call[u].entry.block # b
    BY <2>2, Zenon DEF Ownership
  <2>6. QED
    BY <2>1, <2>2, <2>3, <2>4, <2>5, SMTT(30) DEF Ownership
<1>5. ASSUME NEW t \in Tasks, Puts(t)
      PROVE  Ownership'
  <2>1. call[t].key \in Keys /\ pc[t] \in Holding /\ pc'[t] \notin Holding
    BY <1>5, Zenon DEF Puts, LocalsOK, Holding, Inserting, Writing
  <2>2. \A l \in Keys : map'[l] = IF l = call[t].key THEN call[t].entry ELSE map[l]
    BY <1>5, Zenon DEF Puts, VariablesOK
  <2>3. free_list' = free_list /\ Rest(t)
    BY <1>5, Zenon DEF Puts
  <2>4. QED
    BY <2>1, <2>2, <2>3, SMTT(30) DEF Ownership, Indexed, Rest
<1>6. ASSUME NEW t \in Tasks, Takes(t)
      PROVE  Ownership'
  <2>1. PICK k \in Indexed :
          call'[t].entry = map[k] /\ map' = [map EXCEPT ![k] = None]
    BY <1>6, Zenon DEF Takes
  <2>2. \A l \in Keys : map'[l] = IF l = k THEN None ELSE map[l]
    BY <2>1, Zenon DEF VariablesOK, Indexed
  <2>3. Indexed' = Indexed \ {k} /\ \A l \in Indexed \ {k} : map'[l] = map[l]
    BY <2>2, Zenon DEF Indexed
  <2>4. free_list' = free_list /\ Rest(t)
    BY <1>6, Zenon DEF Takes
  <2>5. QED
    BY <2>1, <2>3, <2>4, SMTT(30) DEF Ownership, Rest
<1>7. ASSUME NEW t \in Tasks, Frees(t)
      PROVE  Ownership'
  <2> DEFINE b == call[t].entry.block
  <2>1. pc[t] \in Holding /\ pc'[t] \notin Holding /\ b \in Blocks
    BY <1>7, EntryType, Zenon DEF Frees, Holding, Writing, Inserting
  <2>2. Range(free_list') = Range(free_list) \cup {b} /\ IsInjective(free_list')
    BY <1>7, <2>1, PushFree, Zenon DEF Frees, VariablesOK, Ownership
  <2>3. map' = map /\ Indexed' = Indexed /\ Rest(t)
    BY <1>7, Zenon DEF Frees, Indexed
  <2>4. QED
    BY <2>1, <2>2, <2>3, SMTT(30) DEF Ownership, Rest
<1>8. QED
  <2> HIDE DEF IInv
  <2> QED BY <1>1, <1>2, <1>3, <1>4, <1>5, <1>6, <1>7, StepShapes, Zenon DEF IInv

----------------------------------------------------------------------------
LocalOK(t) ==
  /\ pc[t] \notin {"idle", "collect"} => call[t].key \in Keys
  /\ pc[t] \in Holding \cup Reading => call[t].entry \in Location
  /\ At(t, "len") => call[t].shard \in 1..NumShards
  /\ At(t, "drop") => call[t].victim \in Keys
  /\ At(t, "alloc") => buf[t] \in Data \cup Oversized
  /\ pc[t] \in {"header"} \cup Writing => buf[t] \in Data

(* A step of one task leaves the locals of the others alone. *)
LEMMA LocalsRest ==
  ASSUME LocalsOK, NEW t \in Tasks, LocalOK(t)', Rest(t)
  PROVE  LocalsOK'
<1>1. \A u \in Tasks \ {t} : LocalOK(u)'
  BY Zenon DEF LocalsOK, LocalOK, Rest, At
<1>2. \A u \in Tasks : LocalOK(u)'
  BY <1>1, Zenon
<1>3. QED
  BY <1>2, Zenon DEF LocalsOK, LocalOK

(* The locals of a store after each of its steps. *)
LEMMA LocalsStore ==
  ASSUME VariablesOK, LocalsOK, NEW t \in Tasks, StoreStep(t)
  PROVE  LocalsOK'
<1> USE DEF Goto, Set, SetBuf, At, agentVars, allocatorVars, monitorVars,
            telemetry, Writing, Inserting, Holding, Reading, VariablesOK
<1>0. call[t] \in Calls /\ LocalOK(t)
  BY Zenon DEF LocalsOK, LocalOK
<1>1. CASE StoreAllocate(t)
  <2>1. PICK b \in Blocks :
          call' = [call EXCEPT ![t] = [call[t] EXCEPT !.entry = [block |-> b, gen |-> 0]]]
    BY <1>1, Zenon DEF StoreAllocate
  <2>2. call'[t].key = call[t].key /\ call'[t].entry = [block |-> b, gen |-> 0]
    BY <1>0, <2>1, Zenon DEF Calls
  <2>3. [block |-> b, gen |-> 0] \in Location
    BY Zenon DEF Location
  <2>4. pc'[t] = "header" /\ pc[t] = "alloc" /\ buf'[t] = buf[t] /\ buf[t] \in Data
    BY <1>0, <1>1, Zenon DEF StoreAllocate, LocalOK
  <2>5. LocalOK(t)'
    BY <1>0, <2>2, <2>3, <2>4, Zenon DEF LocalOK
  <2>6. Rest(t)
    BY <1>1, <2>1, Zenon DEF StoreAllocate, Rest
  <2>7. QED
    BY <2>5, <2>6, LocalsRest, Zenon
<1>2. CASE StoreRefused(t) \/ StoreFinish(t)
  <2>1. pc'[t] = "idle" /\ Rest(t)
    BY <1>2, Zenon DEF StoreRefused, StoreFinish, Finish, Rest
  <2>2. QED
    BY <2>1, LocalsRest, Zenon DEF LocalOK
<1>3. CASE StoreWriteHeader(t)
  <2>1. call[t].entry \in Location
    BY <1>0, <1>3, Zenon DEF StoreWriteHeader, LocalOK
  <2>2. call'[t].key = call[t].key
    BY <1>0, <1>3, <2>1, Zenon DEF StoreWriteHeader, Calls
  <2>3. call'[t].entry = [call[t].entry EXCEPT !.gen = generation]
    BY <1>0, <1>3, <2>1, Zenon DEF StoreWriteHeader, Calls
  <2>4. call'[t].entry \in Location
    BY <2>1, <2>3, Zenon DEF Location
  <2>5. pc'[t] = "data" /\ pc[t] = "header" /\ buf'[t] = buf[t] /\ Rest(t)
    BY <1>3, Zenon DEF StoreWriteHeader, Rest
  <2>6. QED
    BY <1>0, <2>2, <2>4, <2>5, LocalsRest, Zenon DEF LocalOK
<1>4. CASE StoreWriteSome(t) \/ StoreWriteAll(t)
  <2>1. /\ call' = call /\ buf' = buf /\ Rest(t)
        /\ pc[t] \in Writing /\ pc'[t] \in {"torn", "contains"}
    BY <1>4, Zenon DEF StoreWriteSome, StoreWriteAll, Rest
  <2>2. QED
    BY <1>0, <2>1, LocalsRest, Zenon DEF LocalOK
<1>5. CASE InsertCheck(t) /\ UNCHANGED buf
  <2>1. pc[t] = "contains" /\ pc'[t] \in {"len", "put"} /\ Rest(t)
    BY <1>5, Zenon DEF InsertCheck, Rest
  <2>2. call'[t].key = call[t].key /\ call'[t].entry = call[t].entry
    BY <1>0, <1>5, CheckKeeps, Zenon
  <2>3. pc'[t] = "len" => call'[t].shard = 1
    BY <1>0, <1>5, CheckKeeps, Zenon
  <2>4. 1 \in 1..NumShards
    BY AgentAssumption, SMTT(30)
  <2>5. LocalOK(t)'
    BY <1>0, <1>5, <2>1, <2>2, <2>3, <2>4, ZenonT(40) DEF LocalOK
  <2>6. QED
    BY <2>1, <2>5, LocalsRest, Zenon
<1>6. CASE CountShard(t) /\ UNCHANGED buf
  <2>1. /\ pc[t] = "len" /\ pc'[t] \in {"len", "evict", "put"} /\ Rest(t)
        /\ pc'[t] = "len" => call[t].shard < NumShards
    BY <1>6, Zenon DEF CountShard, Rest
  <2>2. call'[t].key = call[t].key /\ call'[t].entry = call[t].entry
    BY <1>6, <1>0, CountShardKeeps, Zenon DEF Keeps
  <2>3. call[t].shard < NumShards => call'[t].shard = call[t].shard + 1
    BY <1>0, <1>6, ZenonT(40) DEF CountShard, Calls
  <2>4. pc'[t] = "len" => call'[t].shard \in 1..NumShards
    <3>1. call[t].shard \in 1..NumShards
      BY <1>0, <2>1, Zenon DEF LocalOK
    <3>2. NumShards \in Nat
      BY AgentAssumption, Zenon
    <3>3. QED
      BY <2>1, <2>3, <3>1, <3>2
  <2>5. LocalOK(t)'
    BY <1>0, <1>6, <2>1, <2>2, <2>4, Zenon DEF LocalOK
  <2>6. QED
    BY <2>1, <2>5, LocalsRest, Zenon
<1>7. CASE EvictVictim(t) /\ UNCHANGED buf
  <2>1. PICK v \in Keys : call' = [call EXCEPT ![t] = [call[t] EXCEPT !.victim = v]]
    BY <1>7, Zenon DEF EvictVictim
  <2>2. /\ call'[t].key = call[t].key /\ call'[t].entry = call[t].entry
        /\ call'[t].victim = v
    BY <1>0, <2>1, Zenon DEF Calls
  <2>3. pc[t] = "evict" /\ pc'[t] = "drop" /\ Rest(t)
    BY <1>7, <2>1, Zenon DEF EvictVictim, Rest
  <2>4. LocalOK(t)'
    BY <1>0, <1>7, <2>2, <2>3, Zenon DEF LocalOK
  <2>5. QED
    BY <2>3, <2>4, LocalsRest, Zenon
<1>8. CASE DropVictim(t) /\ UNCHANGED buf
  <2>1. pc[t] = "drop" /\ pc'[t] = "len" /\ Rest(t)
    BY <1>8, Zenon DEF DropVictim, Rest
  <2>2. /\ call'[t].key = call[t].key /\ call'[t].entry = call[t].entry
        /\ call'[t].shard = 1
    BY <1>0, <1>8, Zenon DEF DropVictim, Calls
  <2>3. 1 \in 1..NumShards
    BY AgentAssumption
  <2>4. LocalOK(t)'
    BY <1>0, <1>8, <2>1, <2>2, <2>3, Zenon DEF LocalOK
  <2>5. QED
    BY <2>1, <2>4, LocalsRest, Zenon
<1>9. CASE (EvictNothing(t) \/ Put(t) \/ InsertTouch(t)) /\ UNCHANGED buf
  <2>1. /\ pc[t] \in Inserting \cup {"touch"} /\ pc'[t] \in {"put", "touch", "inserted"}
        /\ pc'[t] = "put" => pc[t] = "evict"
        /\ call' = call /\ Rest(t)
    BY <1>9, Zenon DEF EvictNothing, Put, InsertTouch, Rest
  <2>2. LocalOK(t)'
    BY <1>0, <1>9, <2>1, Zenon DEF LocalOK
  <2>3. QED
    BY <2>1, <2>2, LocalsRest, Zenon
<1>10. QED
  BY <1>1, <1>2, <1>3, <1>4, <1>5, <1>6, <1>7, <1>8, <1>9, ZenonT(40)
  DEF StoreStep, StoreInsert, InsertStep

(* The locals of a handler fit the place it has reached, after every step. *)
LEMMA LocalsStep ==
  ASSUME IInv, [Next]_vars
  PROVE  LocalsOK'
<1> USE DEF IInv, Goto, Set, SetBuf, At, agentVars, allocatorVars, monitorVars,
            telemetry, VariablesOK
<1>1. CASE \/ \E m \in Models, h \in Hashes : Lookup(m, h)
           \/ MonitorSample \/ MonitorUpdate \/ UNCHANGED vars
  BY <1>1, Zenon DEF LocalsOK, Lookup, MonitorSample, MonitorUpdate, vars
<1>2. ASSUME NEW t \in Tasks,
             \/ StoreBegin(t) \/ StoreAbort(t) \/ GetDropped(t)
             \/ GetDataLoss(t) \/ GetReply(t) \/ DeleteFree(t)
      PROVE  LocalsOK'
  <2>1. pc'[t] \in {"idle", "collect"} /\ Rest(t)
    BY <1>2, Zenon DEF StoreBegin, StoreAbort, GetDropped, GetDataLoss, GetReply,
      DeleteFree, Finish, Rest
  <2>2. QED
    BY <2>1, LocalsRest, Zenon DEF LocalOK, Holding, Reading, Writing, Inserting
<1>3. ASSUME NEW t \in Tasks, NEW m \in Models, NEW h \in Hashes,
             NEW d \in Data \cup Oversized, StoreCollected(t, m, h, d)
      PROVE  LocalsOK'
  <2>1. call'[t].key = composite_key(m, h)
    BY <1>3, Zenon DEF StoreCollected, NoCall
  <2>2. pc'[t] = "alloc" /\ buf'[t] = d /\ Rest(t)
    BY <1>3, Zenon DEF StoreCollected, Rest
  <2>3. QED
    BY <2>1, <2>2, KeysAre, LocalsRest, Zenon
    DEF LocalOK, Holding, Reading, Writing, Inserting
<1>4. ASSUME NEW t \in Tasks,
             \/ GetReadHeader(t) \/ GetVerified(t) \/ GetCopy(t) \/ DeleteUnlink(t)
      PROVE  LocalsOK'
  <2>1. /\ call' = call /\ Rest(t)
        /\ \/ pc[t] \in Reading /\ pc'[t] \in Reading
           \/ pc[t] = "unlink" /\ pc'[t] = "removed"
    BY <1>4, Zenon DEF GetReadHeader, GetVerified, GetCopy, DeleteUnlink, RemoveUnlink,
      Rest, Reading
  <2>2. LocalOK(t)'
    BY <2>1, Zenon DEF LocalsOK, LocalOK, Holding, Reading, Writing, Inserting
  <2>3. QED
    BY <2>1, <2>2, LocalsRest, Zenon
<1>5. ASSUME NEW t \in Tasks, NEW m \in Models, NEW h \in Hashes,
             GetFound(t, m, h) \/ (m = NoModel /\ DeleteBegin(t, h))
      PROVE  LocalsOK'
  <2> DEFINE k == composite_key(m, h)
  <2>1. call'[t].key = k /\ call'[t].entry = map[k]
    <3>1. CASE GetFound(t, m, h)
      BY <3>1, Zenon DEF GetFound, NoCall
    <3>2. CASE m = NoModel /\ DeleteBegin(t, h)
      BY <3>2, Zenon DEF DeleteBegin, RemoveEntry, NoCall
    <3>3. QED
      BY <1>5, <3>1, <3>2, Zenon
  <2>2. k \in Keys /\ map[k] \in Location
    BY <1>5, KeysAre, Zenon DEF GetFound, LookupHit, DeleteBegin, RemoveEntry
  <2>3. pc'[t] \in {"opened", "unlink"} /\ Rest(t)
    BY <1>5, Zenon DEF GetFound, DeleteBegin, RemoveEntry, Rest
  <2>4. LocalOK(t)'
    BY <2>1, <2>2, <2>3, Zenon DEF LocalOK, Writing
  <2>5. QED
    BY <2>3, <2>4, LocalsRest, Zenon
<1>6. QED
  <2>1. NoModel \in Models
    BY AgentAssumption, Zenon
  <2> HIDE DEF Goto, Set, SetBuf, At, agentVars, allocatorVars, monitorVars,
               telemetry, VariablesOK
  <2>2. QED
    BY <1>1, <1>2, <1>3, <1>4, <1>5, <2>1, LocalsStore, ZenonT(40)
    DEF Next, EngineNext, GetStep, DeleteStep

----------------------------------------------------------------------------
(***************************************************************************)
(* GenerationsUnique and GenerationDetectsStaleReads, cut into a part      *)
(* about the counters, a part for each task, and one for pairs of tasks.   *)
(***************************************************************************)
Counters ==
  /\ generation = Len(written) + 1
  /\ \A b \in Blocks : mem[b].gen < generation
  /\ \A b, c \in Blocks : mem[b].gen = mem[c].gen => b = c \/ mem[b].gen = 0

BlockOK(t) ==
  LET e == call[t].entry
  IN  /\ pc[t] \in Inserting => Intact(e, call[t].key)
      /\ pc[t] \in Writing =>
           /\ e.gen \in DOMAIN written
           /\ written[e.gen] = [key |-> call[t].key, data |-> buf[t]]
           /\ mem[e.block].gen = e.gen
           /\ mem[e.block].crc = buf[t]
      /\ pc[t] \in Reading =>
           /\ e.gen \in DOMAIN written
           /\ mem[e.block].gen = e.gen => Intact(e, call[t].key)
      /\ pc[t] = "reply" /\ mem[e.block].gen = e.gen =>
           buf[t] = written[e.gen].data

NoClash(t, u) ==
  pc[t] \in Reading /\ pc[u] \in Writing => call[u].entry.gen # call[t].entry.gen

(* The two invariants about generations, taken apart ... *)
LEMMA PartsOfData ==
  ASSUME GenerationsUnique, GenerationDetectsStaleReads
  PROVE  Counters /\ (\A t \in Tasks : BlockOK(t)) /\ (\A t, u \in Tasks : NoClash(t, u))
  BY Zenon DEF GenerationsUnique, GenerationDetectsStaleReads, Counters, BlockOK, NoClash, At

(* ... and put together again. *)
LEMMA DataFromParts ==
  ASSUME Counters', \A t \in Tasks : BlockOK(t)', \A t, u \in Tasks : NoClash(t, u)'
  PROVE  GenerationsUnique' /\ GenerationDetectsStaleReads'
  BY Zenon DEF GenerationsUnique, GenerationDetectsStaleReads, Counters, BlockOK, NoClash, At

(* Steps that leave the memory alone, for all tasks but the one that moves. *)
LEMMA MemoryKept ==
  ASSUME Counters, \A t \in Tasks : BlockOK(t), \A t, u \in Tasks : NoClash(t, u),
         NEW t \in Tasks, UNCHANGED memory, Rest(t), BlockOK(t)',
         pc'[t] \notin Writing,
         \A u \in Tasks : NoClash(t, u)'
  PROVE  GenerationsUnique' /\ GenerationDetectsStaleReads'
<1>1. Counters'
  BY Zenon DEF Counters, memory
<1>2. \A u \in Tasks : BlockOK(u)'
  <2>1. ASSUME NEW u \in Tasks \ {t}
        PROVE  BlockOK(u)'
    <3>1. pc'[u] = pc[u] /\ call'[u] = call[u] /\ buf'[u] = buf[u] /\ BlockOK(u)
      BY Zenon DEF Rest
    <3>2. mem' = mem /\ written' = written
      BY Zenon DEF memory
    <3>3. QED
      BY <3>1, <3>2, Zenon DEF BlockOK, Intact
  <2>2. QED
    BY <2>1, Zenon
<1>3. \A u, v \in Tasks : NoClash(u, v)'
  BY SMTT(30) DEF NoClash, Rest
<1>4. QED
  BY <1>1, <1>2, <1>3, DataFromParts, Zenon

(* The block of an index entry, and of a store that has written its data,
   is not the block of another task that is writing. *)
LEMMA IndexedNotWritten ==
  ASSUME VariablesOK, LocalsOK, Ownership, Counters, \A t \in Tasks : BlockOK(t),
         NEW u \in Tasks, pc[u] \in Writing, NEW k \in Indexed, Intact(map[k], k)
  PROVE  call[u].entry.gen # map[k].gen
<1>1. pc[u] \in Holding /\ call[u].entry.block \in Blocks
  BY EntryType, Zenon DEF Holding
<1>2. map[k].block # call[u].entry.block
  BY <1>1, Zenon DEF Ownership
<1>3. map[k] \in Location
  BY Zenon DEF VariablesOK, Indexed
<1>4. map[k].block \in Blocks
  BY <1>3, Zenon DEF Location
<1>5. mem[map[k].block].gen = map[k].gen
  BY Zenon DEF Intact
<1>6. mem[call[u].entry.block].gen = call[u].entry.gen
  BY Zenon DEF BlockOK
<1>7. map[k].gen # 0
  <2>1. map[k].gen \in DOMAIN written
    BY Zenon DEF Intact
  <2>2. DOMAIN written = 1..Len(written) /\ Len(written) \in Nat
    BY LenProperties, Zenon DEF VariablesOK
  <2>3. QED
    BY <2>1, <2>2
<1>8. QED
  BY <1>1, <1>2, <1>4, <1>5, <1>6, <1>7, ZenonT(40) DEF Counters

(* Steps that write no block: the generations in memory stay as they are. *)
LEMMA DataQuiet ==
  ASSUME IInv, NEW t \in Tasks,
         \/ Outside(t) \/ Inside(t) \/ Reads(t) \/ Opens(t) \/ Allocates(t)
         \/ Drops(t) \/ Puts(t) \/ Takes(t) \/ Frees(t)
  PROVE  GenerationsUnique' /\ GenerationDetectsStaleReads'
<1>0. Counters /\ (\A u \in Tasks : BlockOK(u)) /\ (\A u, v \in Tasks : NoClash(u, v))
  BY PartsOfData, Zenon DEF IInv
<1>1. UNCHANGED memory /\ Rest(t)
  BY Zenon DEF Outside, Inside, Reads, Opens, Allocates, Drops, Puts, Takes, Frees
<1>2. CASE Outside(t) \/ Allocates(t) \/ Puts(t) \/ Takes(t) \/ Frees(t)
  <2>1. pc'[t] \notin Reading \cup Writing \cup Inserting
    BY <1>2, Zenon DEF Outside, Allocates, Puts, Takes, Frees, Holding, Reading,
      Writing, Inserting
  <2>2. pc'[t] # "reply"
    BY <2>1, Zenon DEF Reading
  <2>3. BlockOK(t)' /\ \A u \in Tasks : NoClash(t, u)'
    BY <2>1, <2>2, Zenon DEF BlockOK, NoClash
  <2>4. QED
    BY <1>0, <1>1, <2>1, <2>3, MemoryKept, ZenonT(40)
<1>3. CASE Inside(t) \/ Drops(t)
  <2>1. /\ Keeps(t)
        /\ pc'[t] \in Inserting => pc[t] \in Inserting
        /\ pc'[t] \notin Reading \cup Writing /\ pc'[t] # "reply"
    BY <1>3, Zenon DEF Inside, Drops, Reading, Writing, Inserting
  <2>2. BlockOK(t)' /\ \A u \in Tasks : NoClash(t, u)'
    BY <1>0, <1>1, <2>1, ZenonT(40) DEF BlockOK, NoClash, Keeps, Intact, memory
  <2>3. QED
    BY <1>0, <1>1, <2>1, <2>2, MemoryKept, ZenonT(40)
<1>4. CASE Reads(t)
  <2>1. /\ Keeps(t) /\ pc[t] \in Reading /\ pc'[t] \in Reading
        /\ pc'[t] \notin Writing \cup Inserting
        /\ pc'[t] = "reply" => buf'[t] = mem[call[t].entry.block].data
    BY <1>4, Zenon DEF Reads, Reading, Writing, Inserting
  <2>2. mem[call[t].entry.block].gen = call[t].entry.gen =>
          mem[call[t].entry.block].data = written[call[t].entry.gen].data
    BY <1>0, <2>1, Zenon DEF BlockOK, Intact
  <2>3. BlockOK(t)'
    BY <1>0, <1>1, <2>1, <2>2, ZenonT(40) DEF BlockOK, Keeps, Intact, memory
  <2>4. \A u \in Tasks : NoClash(t, u)'
    BY <1>0, <1>1, <2>1, ZenonT(40) DEF NoClash, Keeps, Rest
  <2>5. QED
    BY <1>0, <1>1, <2>1, <2>3, <2>4, MemoryKept, Zenon
<1>5. CASE Opens(t)
  <2>1. PICK k \in Indexed : call'[t].key = k /\ call'[t].entry = map[k]
    BY <1>5, Zenon DEF Opens
  <2>2. Intact(map[k], k)
    BY Zenon DEF IInv, IndexedBlocksIntact
  <2>3. /\ pc'[t] \in Reading /\ pc'[t] \notin Writing \cup Inserting
        /\ pc'[t] # "reply"
    BY <1>5, Zenon DEF Opens, Reading, Writing, Inserting
  <2>4. BlockOK(t)'
    BY <1>1, <2>1, <2>2, <2>3, Zenon DEF BlockOK, Intact, memory
  <2>5. \A u \in Tasks : pc[u] \in Writing => call[u].entry.gen # map[k].gen
    BY <1>0, <2>2, IndexedNotWritten, Zenon DEF IInv
  <2>6. \A u \in Tasks : NoClash(t, u)'
    BY <1>1, <2>1, <2>3, <2>5, Zenon DEF NoClash, Rest
  <2>7. QED
    BY <1>0, <1>1, <2>3, <2>4, <2>6, MemoryKept, Zenon
<1>6. QED
  BY <1>2, <1>3, <1>4, <1>5, Zenon

(* A new generation is added to the history. *)
LEMMA Extended ==
  ASSUME VariablesOK, Counters, NEW r \in [key : Keys, data : Data],
         written' = Append(written, r)
  PROVE  /\ \A g \in DOMAIN written :
              g \in DOMAIN written' /\ written'[g] = written[g] /\ g # generation
         /\ generation \in DOMAIN written'
         /\ written'[generation] = r
         /\ Len(written') = Len(written) + 1
<1>1. Len(written) \in Nat /\ DOMAIN written = 1..Len(written)
  BY LenProperties, Zenon DEF VariablesOK
<1>2. /\ DOMAIN written' = 1..Len(written) + 1
      /\ Len(written') = Len(written) + 1
      /\ \A i \in 1..Len(written) : written'[i] = written[i]
      /\ written'[Len(written) + 1] = r
  BY <1>1 DEF VariablesOK
<1>3. generation = Len(written) + 1
  BY Zenon DEF Counters
<1>4. \A g \in 1..Len(written) : g \in 1..Len(written) + 1 /\ g # Len(written) + 1
  BY <1>1
<1>5. Len(written) + 1 \in 1..Len(written) + 1
  BY <1>1
<1>6. QED
  BY <1>1, <1>2, <1>3, <1>4, <1>5, Zenon

(* write_block stamps a new generation: it differs from every one handed out,
   so a get that still reads the block sees that it changed. *)
LEMMA DataLabels ==
  ASSUME IInv, NEW t \in Tasks, Labels(t)
  PROVE  GenerationsUnique' /\ GenerationDetectsStaleReads'
<1> DEFINE b == call[t].entry.block
           r == [key |-> call[t].key, data |-> buf[t]]
<1>0. Counters /\ (\A u \in Tasks : BlockOK(u)) /\ (\A u, v \in Tasks : NoClash(u, v))
  BY PartsOfData, Zenon DEF IInv
<1>1. b \in Blocks /\ r \in [key : Keys, data : Data] /\ pc[t] \in Holding
  BY EntryType, Zenon DEF IInv, LocalsOK, Labels, Holding
<1>2. /\ \A g \in DOMAIN written :
            g \in DOMAIN written' /\ written'[g] = written[g] /\ g # generation
      /\ generation \in DOMAIN written' /\ written'[generation] = r
      /\ Len(written') = Len(written) + 1
  BY <1>0, <1>1, Extended, Zenon DEF IInv, Labels
<1>3. /\ \A c \in Blocks \ {b} : mem'[c] = mem[c]
      /\ mem'[b].gen = generation /\ mem'[b].crc = buf[t]
      /\ generation' = generation + 1
      /\ pc'[t] = "data" /\ buf'[t] = buf[t] /\ call'[t].key = call[t].key
      /\ call'[t].entry.block = b /\ call'[t].entry.gen = generation
      /\ Rest(t)
  BY Zenon DEF Labels
<1>4. generation \in Nat \ {0} /\ \A c \in Blocks : mem[c].gen \in Nat
  BY Zenon DEF IInv, VariablesOK, Cells
<1> HIDE DEF b, r
<1>5. Counters'
  <2>1. generation' = Len(written') + 1
    BY <1>0, <1>2, <1>3, <1>4, ZenonT(40) DEF Counters
  <2>2. \A c \in Blocks : mem'[c].gen < generation'
    BY <1>0, <1>3, <1>4, SMTT(30) DEF Counters
  <2>3. \A c \in Blocks \ {b} : mem'[c].gen < generation
    BY <1>0, <1>3, Zenon DEF Counters
  <2>4. \A c, d \in Blocks : mem'[c].gen = mem'[d].gen => c = d \/ mem'[c].gen = 0
    BY <1>0, <1>3, <1>4, <2>3, SMTT(30) DEF Counters
  <2>5. QED
    BY <2>1, <2>2, <2>4, Zenon DEF Counters
<1>6. ASSUME NEW u \in Tasks
      PROVE  BlockOK(u)'
  <2>1. CASE u = t
    <3>1. pc'[t] \notin Reading \cup Inserting /\ pc'[t] # "reply"
      BY <1>3, Zenon DEF Reading, Inserting
    <3>2. QED
      BY <1>2, <1>3, <2>1, <3>1, Zenon DEF BlockOK, r
  <2>2. CASE u # t
    <3> DEFINE c == call[u].entry.block
    <3>1. pc'[u] = pc[u] /\ call'[u] = call[u] /\ buf'[u] = buf[u] /\ BlockOK(u)
      BY <1>0, <1>3, <2>2, Zenon DEF Rest
    <3>2. CASE pc[u] \in Holding
      <4>1. c # b /\ c \in Blocks
        BY <1>1, <2>2, <3>2, EntryType, ZenonT(40) DEF IInv, Ownership, b
      <4>2. mem'[c] = mem[c]
        BY <1>3, <4>1, Zenon
      <4>3. pc[u] \notin Reading /\ pc[u] # "reply"
        BY <3>2, Zenon DEF Holding, Reading, Writing, Inserting
      <4>4. QED
        BY <1>2, <3>1, <4>2, <4>3, ZenonT(40) DEF BlockOK, Intact
    <3>3. CASE pc[u] \in Reading
      <4>1. c \in Blocks /\ pc[u] \notin Writing \cup Inserting
        BY <3>3, EntryType, Zenon DEF IInv, Reading, Writing, Inserting
      <4>2. call[u].entry.gen \in DOMAIN written
        BY <3>1, <3>3, Zenon DEF BlockOK
      <4>3. CASE c = b
        <5>1. call[u].entry.gen \in DOMAIN written' /\ call[u].entry.gen # generation
          BY <1>2, <4>2, Zenon
        <5>2. mem'[call[u].entry.block].gen = generation
          BY <1>3, <4>3, Zenon
        <5>3. QED
          BY <3>1, <4>1, <5>1, <5>2, ZenonT(40) DEF BlockOK
      <4>4. CASE c # b
        <5>1. mem'[c] = mem[c]
          BY <1>3, <4>1, <4>4, Zenon
        <5>2. QED
          BY <1>2, <3>1, <3>3, <4>1, <4>2, <5>1, ZenonT(30) DEF BlockOK, Intact
      <4>5. QED
        BY <4>3, <4>4, Zenon
    <3>4. CASE pc[u] \notin Holding \cup Reading
      BY <3>1, <3>4, Zenon DEF BlockOK, Holding, Reading
    <3>5. QED
      BY <3>2, <3>3, <3>4, Zenon
  <2>3. QED
    BY <2>1, <2>2, Zenon
<1>7. ASSUME NEW u \in Tasks, NEW v \in Tasks
      PROVE  NoClash(u, v)'
  <2>1. CASE u = t
    BY <1>3, <2>1, Zenon DEF NoClash, Reading
  <2>2. CASE u # t /\ v # t
    BY <1>0, <1>3, <2>2, SMTT(30) DEF NoClash, Rest
  <2>3. CASE u # t /\ v = t
    <3>1. pc'[u] = pc[u] /\ call'[u] = call[u] /\ BlockOK(u)
      BY <1>0, <1>3, <2>3, ZenonT(40) DEF Rest
    <3>2. QED
      BY <1>2, <1>3, <2>3, <3>1, ZenonT(40) DEF NoClash, BlockOK
  <2>4. QED
    BY <2>1, <2>2, <2>3, Zenon
<1>8. QED
  BY <1>5, <1>6, <1>7, DataFromParts, ZenonT(40)

(* write_block copies the payload: the block was not readable under its
   generation before, and is intact once the copy is complete. *)
LEMMA DataFills ==
  ASSUME IInv, NEW t \in Tasks, Fills(t)
  PROVE  GenerationsUnique' /\ GenerationDetectsStaleReads'
<1> DEFINE b == call[t].entry.block
<1>0. Counters /\ (\A u \in Tasks : BlockOK(u)) /\ (\A u, v \in Tasks : NoClash(u, v))
  BY PartsOfData, Zenon DEF IInv
<1>1. b \in Blocks /\ pc[t] \in Holding /\ pc[t] \in Writing
  BY EntryType, Zenon DEF IInv, Fills, Holding
<1>2. /\ \A c \in Blocks \ {b} : mem'[c] = mem[c]
      /\ mem'[b].gen = mem[b].gen /\ mem'[b].crc = mem[b].crc
      /\ UNCHANGED <<generation, written>> /\ buf'[t] = buf[t]
      /\ Keeps(t) /\ Rest(t)
      /\ \/ pc'[t] \in Writing
         \/ pc'[t] = "contains" /\ mem'[b].data = buf[t]
  BY Zenon DEF Fills
<1>3. call'[t].key = call[t].key /\ call'[t].entry = call[t].entry
  BY <1>2, Zenon DEF Keeps
<1> HIDE DEF b
<1>4. Counters'
  BY <1>0, <1>2, SMTT(30) DEF Counters
<1>5. ASSUME NEW u \in Tasks
      PROVE  BlockOK(u)'
  <2>1. CASE u = t
    <3>1. pc'[t] \notin Reading /\ pc'[t] # "reply"
      BY <1>2, Zenon DEF Reading, Writing
    <3>2. /\ call[t].entry.gen \in DOMAIN written
          /\ written[call[t].entry.gen] = [key |-> call[t].key, data |-> buf[t]]
          /\ mem[b].gen = call[t].entry.gen
          /\ mem[b].crc = buf[t]
      BY <1>0, <1>1, Zenon DEF BlockOK, b
    <3>3. /\ written[call[t].entry.gen].key = call[t].key
          /\ written[call[t].entry.gen].data = buf[t]
      <4> DEFINE w == [key |-> call[t].key, data |-> buf[t]]
      <4>1. w.key = call[t].key /\ w.data = buf[t]
        OBVIOUS
      <4>2. written[call[t].entry.gen] = w
        BY <3>2, Zenon
      <4> HIDE DEF w
      <4>3. QED
        BY <4>1, <4>2, Zenon
    <3>4. CASE pc'[t] \in Writing
      <4>1. pc'[t] \notin Inserting
        BY <3>4, Zenon DEF Writing, Inserting
      <4>2. QED
        BY <1>2, <1>3, <2>1, <3>1, <3>2, <3>4, <4>1, ZenonT(40) DEF BlockOK, b
    <3>5. CASE pc'[t] = "contains" /\ mem'[b].data = buf[t]
      <4>1. pc'[t] \notin Writing
        BY <3>5, ZenonT(30) DEF Writing
      <4>2. QED
        BY <1>2, <1>3, <2>1, <3>1, <3>2, <3>3, <3>5, <4>1, ZenonT(40) DEF BlockOK, Intact, b
    <3>6. QED
      BY <1>2, <3>4, <3>5, Zenon
  <2>2. CASE u # t
    <3> DEFINE c == call[u].entry.block
    <3>1. pc'[u] = pc[u] /\ call'[u] = call[u] /\ buf'[u] = buf[u] /\ BlockOK(u)
      BY <1>0, <1>2, <2>2, Zenon DEF Rest
    <3>2. CASE pc[u] \in Holding
      <4>1. c # b /\ c \in Blocks
        BY <1>1, <2>2, <3>2, EntryType, ZenonT(40) DEF IInv, Ownership, b
      <4>2. mem'[c] = mem[c]
        BY <1>2, <4>1, ZenonT(40)
      <4>3. pc[u] \notin Reading /\ pc[u] # "reply"
        BY <3>2, Zenon DEF Holding, Reading, Writing, Inserting
      <4>4. QED
        BY <1>2, <3>1, <4>2, <4>3, Zenon DEF BlockOK, Intact
    <3>3. CASE pc[u] \in Reading
      <4>1. c \in Blocks /\ pc[u] \notin Writing \cup Inserting
        BY <3>3, EntryType, Zenon DEF IInv, Reading, Writing, Inserting
      <4>2. CASE c = b
        <5>1. call[t].entry.gen # call[u].entry.gen
          BY <1>0, <1>1, <3>3, Zenon DEF NoClash
        <5>2. mem'[c].gen = call[t].entry.gen
          BY <1>0, <1>1, <1>2, <4>2, Zenon DEF BlockOK, b
        <5>3. QED
          BY <1>2, <3>1, <3>3, <4>1, <5>1, <5>2, ZenonT(30) DEF BlockOK
      <4>3. CASE c # b
        <5>1. mem'[c] = mem[c]
          BY <1>2, <4>1, <4>3, ZenonT(40)
        <5>2. QED
          BY <1>2, <3>1, <3>3, <4>1, <5>1, ZenonT(40) DEF BlockOK, Intact
      <4>4. QED
        BY <4>2, <4>3, Zenon
    <3>4. CASE pc[u] \notin Holding \cup Reading
      BY <3>1, <3>4, Zenon DEF BlockOK, Holding, Reading
    <3>5. QED
      BY <3>2, <3>3, <3>4, Zenon
  <2>3. QED
    BY <2>1, <2>2, Zenon
<1>6. ASSUME NEW u \in Tasks, NEW v \in Tasks
      PROVE  NoClash(u, v)'
  <2>1. pc'[u] \in Reading => pc[u] \in Reading /\ call'[u].entry = call[u].entry
    BY <1>2, <1>3, Zenon DEF Rest, Reading, Writing
  <2>2. pc'[v] \in Writing => pc[v] \in Writing /\ call'[v].entry = call[v].entry
    BY <1>1, <1>2, <1>3, Zenon DEF Rest
  <2>3. QED
    BY <1>0, <2>1, <2>2, Zenon DEF NoClash
<1>7. QED
  BY <1>4, <1>5, <1>6, DataFromParts, Zenon

(* Every step of the agent keeps the invariants about generations. *)
LEMMA DataStep ==
  ASSUME IInv, [Next]_vars
  PROVE  GenerationsUnique' /\ GenerationDetectsStaleReads'
<1>1. CASE Nothing
  BY <1>1, ZenonT(40) DEF IInv, Nothing, memory, GenerationsUnique,
    GenerationDetectsStaleReads, Intact, At
<1>2. QED
  BY <1>1, DataQuiet, DataLabels, DataFills, StepShapes, ZenonT(40) DEF IInv

(* Only map.insert makes an entry, and it has a complete block by then. *)
LEMMA IndexStep ==
  ASSUME IInv, [Next]_vars
  PROVE  IndexedBlocksIntact'
<1> USE DEF IInv
<1>1. CASE Nothing
  BY <1>1, Zenon DEF Nothing, memory, IndexedBlocksIntact, Indexed, Intact
<1>2. ASSUME NEW t \in Tasks,
             \/ Outside(t) \/ Inside(t) \/ Reads(t) \/ Opens(t) \/ Allocates(t)
             \/ Drops(t) \/ Takes(t) \/ Frees(t)
      PROVE  IndexedBlocksIntact'
  <2>1. UNCHANGED memory
    BY <1>2, Zenon DEF Outside, Inside, Reads, Opens, Allocates, Drops, Takes, Frees
  <2>2. \A k \in Keys : map'[k] = None \/ map'[k] = map[k]
    BY <1>2, Zenon DEF Outside, Inside, Reads, Opens, Allocates, Drops, Takes, Frees,
      VariablesOK, Indexed
  <2>3. QED
    BY <2>1, <2>2, SMTT(30) DEF IndexedBlocksIntact, Indexed, Intact, memory
<1>3. ASSUME NEW t \in Tasks, Puts(t)
      PROVE  IndexedBlocksIntact'
  <2>1. Intact(call[t].entry, call[t].key)
    BY <1>3, Zenon DEF GenerationsUnique, Puts, Inserting
  <2>2. \A k \in Keys : map'[k] = IF k = call[t].key THEN call[t].entry ELSE map[k]
    BY <1>3, Zenon DEF Puts, VariablesOK
  <2>3. UNCHANGED memory
    BY <1>3, Zenon DEF Puts
  <2>4. ASSUME NEW k \in Keys, map'[k] # None
        PROVE  Intact(map[k], k)'
    <3>1. CASE k = call[t].key
      <4>1. map'[k] = call[t].entry
        BY <2>2, <3>1, Zenon
      <4>2. QED
        BY <2>1, <2>3, <3>1, <4>1, Zenon DEF Intact, memory
    <3>2. CASE k # call[t].key
      <4>1. map'[k] = map[k] /\ Intact(map[k], k)
        BY <2>2, <2>4, <3>2, Zenon DEF IndexedBlocksIntact, Indexed
      <4>2. QED
        BY <2>3, <4>1, Zenon DEF Intact, memory
    <3>3. QED
      BY <3>1, <3>2, Zenon
  <2>5. QED
    BY <2>4, Zenon DEF IndexedBlocksIntact, Indexed
<1>4. ASSUME NEW t \in Tasks, Labels(t) \/ Fills(t)
      PROVE  IndexedBlocksIntact'
  <2> DEFINE b == call[t].entry.block
  <2>1. pc[t] \in Holding
    BY <1>4, Zenon DEF Labels, Fills, Holding
  <2>2. \A c \in Blocks \ {b} : mem'[c] = mem[c]
    BY <1>4, Zenon DEF Labels, Fills
  <2>3. \A g \in DOMAIN written : g \in DOMAIN written' /\ written'[g] = written[g]
    <3>1. CASE Fills(t)
      BY <3>1, Zenon DEF Fills
    <3>2. CASE Labels(t)
      <4>1. Counters
        BY PartsOfData, Zenon
      <4>2. [key |-> call[t].key, data |-> buf[t]] \in [key : Keys, data : Data]
        BY <3>2, Zenon DEF Labels, LocalsOK
      <4>3. QED
        BY <3>2, <4>1, <4>2, Extended, Zenon DEF Labels
    <3>3. QED
      BY <1>4, <3>1, <3>2, Zenon
  <2>4. map' = map
    BY <1>4, Zenon DEF Labels, Fills
  <2>5. ASSUME NEW k \in Indexed
        PROVE  Intact(map[k], k)'
    <3>1. map[k] \in Location /\ Intact(map[k], k)
      BY Zenon DEF VariablesOK, Indexed, IndexedBlocksIntact
    <3>2. map[k].block \in Blocks /\ map[k].block # b
      BY <2>1, <3>1, Zenon DEF Location, Ownership
    <3>3. mem'[map[k].block] = mem[map[k].block]
      BY <2>2, <3>2, Zenon
    <3>4. QED
      BY <2>3, <2>4, <3>1, <3>3, Zenon DEF Intact
  <2>6. QED
    BY <2>4, <2>5, Zenon DEF IndexedBlocksIntact, Indexed
<1>5. QED
  <2> HIDE DEF IInv
  <2> QED BY <1>1, <1>2, <1>3, <1>4, StepShapes, Zenon DEF IInv

(* An agent starts with all blocks free, an empty index and no call in progress. *)
LEMMA InitInv == Init => IInv
<1> SUFFICES ASSUME Init PROVE IInv
  BY Zenon
<1> USE DEF Init, AllocatorInit, IndexInit, LruInit
<1>1. VariablesOK
  <2>1. NoCall \in Calls /\ free_list \in Seq(Blocks)
    BY NoCallType, AllocatorAssumption, SMTT(30) DEF Blocks
  <2>2. mem \in [Blocks -> Cells]
    BY Zenon DEF Cells
  <2>3. generation \in Nat \ {0} /\ evictions \in Nat
    OBVIOUS
  <2>4. pc \in [Tasks -> AgentPc] /\ call \in [Tasks -> Calls]
    BY <2>1, Zenon DEF AgentPc
  <2>5. /\ map \in [Keys -> Location \cup {None}]
        /\ buf \in [Tasks -> Data \cup Oversized \cup {Zeroed, Torn, None}]
        /\ pressure \in {NORMAL, WARN, CRITICAL, REJECT}
        /\ sampled \in 0..TotalBlocks \cup {None}
    BY Zenon
  <2>6. lru \in Seq(Keys) /\ written \in Seq([key : Keys, data : Data])
    BY EmptySeq
  <2>7. QED
    BY <2>1, <2>2, <2>3, <2>4, <2>5, <2>6, ZenonT(40) DEF VariablesOK
<1>2. \A t \in Tasks : pc[t] = "idle"
  BY Zenon
<1>3. LocalsOK
  BY <1>2, Zenon DEF LocalsOK, Holding, Reading, Writing, Inserting, At
<1>4. Indexed = {}
  BY Zenon DEF Indexed
<1>5. Ownership
  <2>1. IsInjective(free_list)
    BY AllocatorAssumption DEF IsInjective
  <2>2. QED
    BY <1>2, <1>4, <2>1, Zenon DEF Ownership, Holding, Writing, Inserting
<1>6. IndexedBlocksIntact
  BY <1>4, Zenon DEF IndexedBlocksIntact
<1>7. GenerationsUnique
  <2>1. generation = Len(written) + 1
    OBVIOUS
  <2>2. \A b \in Blocks : mem[b].gen = 0
    BY Zenon
  <2>3. 0 < generation
    OBVIOUS
  <2>4. \A t \in Tasks : pc[t] \notin Reading \cup Writing \cup Inserting
    BY <1>2 DEF Reading, Writing, Inserting
  <2>5. QED
    BY <2>1, <2>2, <2>3, <2>4, ZenonT(30) DEF GenerationsUnique
<1>8. GenerationDetectsStaleReads
  BY <1>2, Zenon DEF GenerationDetectsStaleReads, At
<1>9. QED
  BY <1>1, <1>3, <1>5, <1>6, <1>7, <1>8, ZenonT(40) DEF IInv

(* IInv is inductive. *)
LEMMA InvStep ==
  ASSUME Counting, IInv, [Next]_vars
  PROVE  IInv'
BY TypeStep, LocalsStep, OwnershipStep, IndexStep, DataStep, Zenon DEF IInv
=============================================================================
