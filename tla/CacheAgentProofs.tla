-------------------------- MODULE CacheAgentProofs --------------------------
(***************************************************************************)
(* Theorems about CacheAgent, for any number of tasks, keys, blocks and    *)
(* shards.                                                                 *)
(*                                                                         *)
(* The safety invariants follow from IInv, which is inductive              *)
(* (AgentStepProofs).  The action properties follow from IInv and the      *)
(* shapes of the steps.  For clients that do not delete two more things    *)
(* are invariant: nobody writes to a block that a get is reading           *)
(* (SafeRead), which holds because only delete gives a block back and      *)
(* which makes every step a step of module Cache or a stutter; and what a  *)
(* store may have counted so far (CountInv), so that no insert evicts.     *)
(***************************************************************************)
EXTENDS AgentStepProofs

(***************************************************************************)
(* Blocks and their owners.                                                *)
(***************************************************************************)
Holds(t, b) == pc[t] \in Holding /\ call[t].entry.block = b

(* Task t is the only one that may come to hold a block, or cease to. *)
LEMMA HoldersKept ==
  ASSUME NEW t \in Tasks, Rest(t), NEW b
  PROVE  \A u \in Tasks \ {t} : Holds(u, b)' <=> Holds(u, b)
  BY Zenon DEF Rest, Holds

(* The three places where a block is accounted for. *)
LEMMA AccountedIs ==
  ASSUME NEW b
  PROVE  /\ Accounted(b) <=> \/ b \in Range(free_list)
                             \/ \E k \in Indexed : map[k].block = b
                             \/ \E t \in Tasks : Holds(t, b)
         /\ Accounted(b)' <=> \/ b \in Range(free_list')
                              \/ \E k \in Indexed' : map'[k].block = b
                              \/ \E t \in Tasks : Holds(t, b)'
  BY Zenon DEF Accounted, Holds, Indexed

(* Block b is lost in this step, and with an index entry. *)
LostWith(b) ==
  \E k \in Indexed, t \in Tasks :
    /\ map[k].block = b
    /\ \/ At(t, "drop") /\ call[t].victim = k
       \/ At(t, "put") /\ call[t].key = k
    /\ pc'[t] # pc[t]

Loss(b) ==
  /\ Accounted(b)' => Accounted(b)
  /\ Accounted(b) /\ ~Accounted(b)' => LostWith(b)

(* No shape of step loses a block in another way. *)
LEMMA LossStep ==
  ASSUME IInv, [Next]_vars, NEW b \in Blocks
  PROVE  Loss(b)
<1> USE DEF IInv
<1>1. CASE Nothing
  BY <1>1, Zenon DEF Nothing, Loss, Accounted, Indexed
<1>2. ASSUME NEW t \in Tasks,
             Outside(t) \/ Inside(t) \/ Reads(t) \/ Opens(t) \/ Labels(t) \/ Fills(t)
      PROVE  Loss(b)
  <2>1. UNCHANGED <<map, free_list>> /\ Rest(t)
    BY <1>2, Zenon DEF Outside, Inside, Reads, Opens, Labels, Fills
  <2>2. Holds(t, b)' <=> Holds(t, b)
    BY <1>2, Zenon DEF Outside, Inside, Reads, Opens, Labels, Fills, Keeps, Holds,
      Holding, Reading, Writing, Inserting
  <2>3. Accounted(b)' <=> Accounted(b)
    BY <2>1, <2>2, HoldersKept, AccountedIs, Zenon DEF Indexed
  <2>4. QED
    BY <2>3, Zenon DEF Loss
<1>3. ASSUME NEW t \in Tasks, Allocates(t)
      PROVE  Loss(b)
  <2>1. PICK c \in Blocks : allocate(c) /\ call'[t].entry.block = c
    BY <1>3, Zenon DEF Allocates
  <2>2. /\ c \in Range(free_list) /\ Range(free_list') \subseteq Range(free_list)
        /\ Range(free_list) \subseteq Range(free_list') \cup {c}
    BY <2>1, PopFree, Zenon DEF VariablesOK, Ownership
  <2>3. ~Holds(t, b) /\ (Holds(t, b)' <=> b = c)
    BY <1>3, <2>1, Zenon DEF Allocates, Holds, Holding, Writing, Inserting
  <2>4. map' = map /\ Rest(t)
    BY <1>3, Zenon DEF Allocates
  <2>5. Accounted(b)' <=> Accounted(b)
    BY <2>2, <2>3, <2>4, HoldersKept, AccountedIs, ZenonT(40) DEF Indexed
  <2>6. QED
    BY <2>5, Zenon DEF Loss
<1>4. ASSUME NEW t \in Tasks, Frees(t)
      PROVE  Loss(b)
  <2> DEFINE c == call[t].entry.block
  <2>1. pc[t] \in Holding /\ pc'[t] \notin Holding /\ c \in Blocks
    BY <1>4, EntryType, Zenon DEF Frees, Holding, Writing, Inserting
  <2>2. Range(free_list') = Range(free_list) \cup {c}
    BY <1>4, <2>1, PushFree, Zenon DEF Frees, VariablesOK, Ownership
  <2>3. ~Holds(t, b)' /\ (Holds(t, b) <=> b = c)
    BY <2>1, Zenon DEF Holds
  <2>4. map' = map /\ Rest(t)
    BY <1>4, Zenon DEF Frees
  <2> HIDE DEF c
  <2>5. Accounted(b)' <=> Accounted(b)
    BY <2>2, <2>3, <2>4, HoldersKept, AccountedIs, ZenonT(40) DEF Indexed
  <2>6. QED
    BY <2>5, Zenon DEF Loss
<1>5. ASSUME NEW t \in Tasks, Takes(t)
      PROVE  Loss(b)
  <2>1. PICK k \in Indexed :
          call'[t].entry = map[k] /\ map' = [map EXCEPT ![k] = None]
    BY <1>5, Zenon DEF Takes
  <2>2. \A l \in Keys : map'[l] = IF l = k THEN None ELSE map[l]
    BY <2>1, Zenon DEF VariablesOK, Indexed
  <2>3. Indexed' = Indexed \ {k} /\ \A l \in Indexed \ {k} : map'[l] = map[l]
    BY <2>2, Zenon DEF Indexed
  <2>4. ~Holds(t, b) /\ (Holds(t, b)' <=> b = map[k].block)
    BY <1>5, <2>1, Zenon DEF Takes, Holds, Holding, Writing, Inserting
  <2>5. free_list' = free_list /\ Rest(t)
    BY <1>5, Zenon DEF Takes
  <2>6. Accounted(b)' <=> Accounted(b)
    BY <2>3, <2>4, <2>5, HoldersKept, AccountedIs, ZenonT(40)
  <2>7. QED
    BY <2>6, Zenon DEF Loss
<1>6. ASSUME NEW t \in Tasks, Drops(t)
      PROVE  Loss(b)
  <2>1. PICK v \in Keys : v = call[t].victim /\ map' = [map EXCEPT ![v] = None]
    BY <1>6, Zenon DEF Drops
  <2>2. \A l \in Keys : map'[l] = IF l = v THEN None ELSE map[l]
    BY <2>1, Zenon DEF VariablesOK
  <2>3. Indexed' = Indexed \ {v} /\ \A l \in Indexed \ {v} : map'[l] = map[l]
    BY <2>2, Zenon DEF Indexed
  <2>4. Holds(t, b)' <=> Holds(t, b)
    BY <1>6, Zenon DEF Drops, Keeps, Holds, Holding
  <2>5. free_list' = free_list /\ Rest(t)
    BY <1>6, Zenon DEF Drops
  <2>6. v \in Indexed /\ map[v].block = b => LostWith(b)
    BY <1>6, <2>1, Zenon DEF Drops, LostWith, At
  <2>7. QED
    BY <2>3, <2>4, <2>5, <2>6, HoldersKept, AccountedIs, ZenonT(40) DEF Loss
<1>7. ASSUME NEW t \in Tasks, Puts(t)
      PROVE  Loss(b)
  <2> DEFINE k == call[t].key
             c == call[t].entry.block
  <2>1. k \in Keys /\ pc[t] \in Holding /\ pc'[t] \notin Holding
    BY <1>7, Zenon DEF Puts, LocalsOK, Holding, Inserting, Writing
  <2>2. \A l \in Keys : map'[l] = IF l = k THEN call[t].entry ELSE map[l]
    BY <1>7, Zenon DEF Puts, VariablesOK
  <2>3. call[t].entry # None
    BY <2>1, EntryType, AgentAssumption, Zenon
  <2>4. /\ Indexed' = Indexed \cup {k} /\ map'[k].block = c
        /\ \A l \in Indexed \ {k} : map'[l] = map[l]
    BY <2>1, <2>2, <2>3, Zenon DEF Indexed
  <2>5. ~Holds(t, b)' /\ (Holds(t, b) <=> b = c)
    BY <2>1, Zenon DEF Holds
  <2>6. free_list' = free_list /\ Rest(t)
    BY <1>7, Zenon DEF Puts
  <2>7. k \in Indexed /\ map[k].block = b => LostWith(b)
    BY <1>7, Zenon DEF Puts, LostWith, At
  <2> HIDE DEF k, c
  <2>8. QED
    BY <2>4, <2>5, <2>6, <2>7, HoldersKept, AccountedIs, ZenonT(40) DEF Loss
<1>8. QED
  <2> HIDE DEF IInv
  <2> QED BY <1>1, <1>2, <1>3, <1>4, <1>5, <1>6, <1>7, StepShapes, Zenon DEF IInv

----------------------------------------------------------------------------
(***************************************************************************)
(* Clients that do not delete.  The block that a get reads is neither free *)
(* nor in anybody's hands, so that it still carries the generation of the  *)
(* entry, and once the header is read buf[t] is the payload of the entry.  *)
(***************************************************************************)
SafeRead(t) ==
  LET e == call[t].entry
  IN  pc[t] \in Reading =>
        /\ e.block \notin Range(free_list)
        /\ \A u \in Tasks : pc[u] \in Holding => call[u].entry.block # e.block
        /\ mem[e.block].gen = e.gen
        /\ pc[t] # "opened" => buf[t] = written[e.gen].data

EngineInv ==
  /\ IInv
  /\ \A t \in Tasks : pc[t] \notin {"unlink", "removed"}
  /\ \A t \in Tasks : SafeRead(t)

(* The block of a safe read is complete, and its payload is one that some
   store sent for the key. *)
LEMMA SafeReadIntact ==
  ASSUME EngineInv, NEW t \in Tasks, pc[t] \in Reading
  PROVE  /\ Intact(call[t].entry, call[t].key)
         /\ call[t].entry.gen \in DOMAIN written
         /\ written[call[t].entry.gen].data \in Data
         /\ call[t].entry.block \in Blocks
<1>1. Intact(call[t].entry, call[t].key)
  BY Zenon DEF EngineInv, IInv, SafeRead, GenerationsUnique
<1>2. call[t].entry.gen \in DOMAIN written
  BY <1>1, Zenon DEF Intact
<1>3. written \in Seq([key : Keys, data : Data])
  BY Zenon DEF EngineInv, IInv, VariablesOK
<1>4. written[call[t].entry.gen] \in [key : Keys, data : Data]
  BY <1>2, <1>3, ElementOfSeq, LenProperties, Zenon
<1>5. call[t].entry.block \in Blocks
  BY EntryType, Zenon DEF EngineInv, IInv
<1>6. QED
  BY <1>1, <1>2, <1>4, <1>5, Zenon

(* The history of a generation does not change. *)
LEMMA HistoryKept ==
  ASSUME IInv, [Next]_vars
  PROVE  \A g \in DOMAIN written : g \in DOMAIN written' /\ written'[g] = written[g]
<1>1. ASSUME NEW t \in Tasks, Labels(t)
      PROVE  \A g \in DOMAIN written : g \in DOMAIN written' /\ written'[g] = written[g]
  <2>1. Counters
    BY PartsOfData, Zenon DEF IInv
  <2>2. [key |-> call[t].key, data |-> buf[t]] \in [key : Keys, data : Data]
    BY <1>1, Zenon DEF Labels, LocalsOK, IInv
  <2>3. QED
    BY <1>1, <2>1, <2>2, Extended, Zenon DEF Labels, IInv
<1>2. Nothing => written' = written
  BY Zenon DEF Nothing, memory
<1>3. ASSUME NEW t \in Tasks,
             \/ Outside(t) \/ Inside(t) \/ Reads(t) \/ Opens(t) \/ Allocates(t)
             \/ Fills(t) \/ Drops(t) \/ Puts(t) \/ Takes(t) \/ Frees(t)
      PROVE  written' = written
  BY <1>3, Zenon DEF Outside, Inside, Reads, Opens, Allocates, Fills, Drops, Puts,
    Takes, Frees, memory
<1>4. QED
  BY <1>1, <1>2, <1>3, StepShapes, Zenon DEF IInv

(* Without delete no task comes to remove an entry. *)
LEMMA NobodyDeletes ==
  ASSUME EngineInv, [EngineNext]_vars
  PROVE  \A t \in Tasks : pc'[t] \notin {"unlink", "removed"}
<1>1. CASE Nothing
  BY <1>1, Zenon DEF Nothing, EngineInv
<1>2. ASSUME NEW t \in Tasks,
             \/ Outside(t) \/ Inside(t) \/ Reads(t) \/ Opens(t) \/ Allocates(t)
             \/ Labels(t) \/ Fills(t) \/ Drops(t) \/ Puts(t)
      PROVE  \A u \in Tasks : pc'[u] \notin {"unlink", "removed"}
  <2>1. pc[t] # "unlink"
    BY Zenon DEF EngineInv
  <2>2. pc'[t] \notin {"unlink", "removed"}
    BY <1>2, <2>1, ZenonT(40) DEF Outside, Inside, Reads, Opens, Allocates, Labels,
      Fills, Drops, Puts, Holding, Reading, Writing, Inserting
  <2>3. Rest(t)
    BY <1>2, Zenon DEF Outside, Inside, Reads, Opens, Allocates, Labels, Fills,
      Drops, Puts
  <2>4. QED
    BY <2>2, <2>3, Zenon DEF EngineInv, Rest
<1>3. QED
  BY <1>1, <1>2, EngineShapes, Zenon DEF EngineInv, IInv

(* The reads of the other tasks stay safe when task t takes a step that frees
   no block, takes none but a free one, and writes to none but its own. *)
LEMMA OthersSafe ==
  ASSUME EngineInv, NEW t \in Tasks, Rest(t), NEW u \in Tasks \ {t},
         Range(free_list') \subseteq Range(free_list),
         pc'[t] \in Holding =>
           \/ pc[t] \in Holding /\ call'[t].entry.block = call[t].entry.block
           \/ call'[t].entry.block \in Range(free_list),
         \A b \in Blocks :
           mem'[b] = mem[b] \/ (pc[t] \in Holding /\ b = call[t].entry.block),
         \A g \in DOMAIN written : written'[g] = written[g]
  PROVE  SafeRead(u)'
<1> DEFINE e == call[u].entry
<1> SUFFICES ASSUME pc[u] \in Reading
             PROVE  SafeRead(u)'
  BY Zenon DEF Rest, SafeRead
<1>1. pc'[u] = pc[u] /\ call'[u] = call[u] /\ buf'[u] = buf[u] /\ SafeRead(u)
  BY Zenon DEF Rest, EngineInv
<1>2. /\ e.block \in Blocks /\ e.gen \in DOMAIN written
      /\ e.block \notin Range(free_list)
      /\ \A v \in Tasks : pc[v] \in Holding => call[v].entry.block # e.block
      /\ mem[e.block].gen = e.gen
      /\ pc[u] # "opened" => buf[u] = written[e.gen].data
  BY <1>1, SafeReadIntact, Zenon DEF SafeRead
<1>3. mem'[e.block] = mem[e.block] /\ written'[e.gen] = written[e.gen]
  BY <1>2, Zenon
<1>4. \A v \in Tasks : pc'[v] \in Holding => call'[v].entry.block # e.block
  <2>1. \A v \in Tasks \ {t} : pc'[v] \in Holding => call'[v].entry.block # e.block
    BY <1>2, Zenon DEF Rest
  <2>2. pc'[t] \in Holding => call'[t].entry.block # e.block
    BY <1>2, Zenon
  <2>3. QED
    BY <2>1, <2>2, Zenon
<1>5. e.block \notin Range(free_list')
  BY <1>2, Zenon
<1> HIDE DEF e
<1>6. call'[u].entry = e
  BY <1>1, Zenon DEF e
<1>7. QED
  BY <1>1, <1>2, <1>3, <1>4, <1>5, <1>6, Zenon DEF SafeRead

(* Every step but those of delete keeps all reads safe. *)
LEMMA SafeStep ==
  ASSUME EngineInv, [EngineNext]_vars
  PROVE  \A u \in Tasks : SafeRead(u)'
<1>0. IInv /\ [Next]_vars
  BY Zenon DEF EngineInv, Next
<1>1. CASE Nothing
  BY <1>1, Zenon DEF Nothing, memory, EngineInv, SafeRead
<1>2. \A g \in DOMAIN written : written'[g] = written[g]
  BY <1>0, HistoryKept, Zenon
<1>3. ASSUME NEW t \in Tasks,
             \/ Outside(t) \/ Inside(t) \/ Reads(t) \/ Opens(t) \/ Labels(t)
             \/ Fills(t) \/ Drops(t) \/ Puts(t)
      PROVE  \A u \in Tasks \ {t} : SafeRead(u)'
  <2>1. Rest(t) /\ free_list' = free_list
    BY <1>3, Zenon DEF Outside, Inside, Reads, Opens, Labels, Fills, Drops, Puts
  <2>2. pc'[t] \in Holding =>
          pc[t] \in Holding /\ call'[t].entry.block = call[t].entry.block
    BY <1>3, ZenonT(40) DEF Outside, Inside, Reads, Opens, Labels, Fills, Drops, Puts,
      Keeps, Holding, Reading, Writing, Inserting
  <2>3. \A b \in Blocks :
          mem'[b] = mem[b] \/ (pc[t] \in Holding /\ b = call[t].entry.block)
    <3>1. CASE Labels(t) \/ Fills(t)
      BY <3>1, Zenon DEF Labels, Fills, Holding
    <3>2. CASE ~(Labels(t) \/ Fills(t))
      BY <1>3, <3>2, Zenon DEF Outside, Inside, Reads, Opens, Drops, Puts, memory
    <3>3. QED
      BY <3>1, <3>2, Zenon
  <2>4. QED
    BY <1>2, <2>1, <2>2, <2>3, OthersSafe, Zenon
<1>4. ASSUME NEW t \in Tasks, Allocates(t)
      PROVE  \A u \in Tasks \ {t} : SafeRead(u)'
  <2>1. PICK b \in Blocks : allocate(b) /\ call'[t].entry.block = b
    BY <1>4, Zenon DEF Allocates
  <2>2. b \in Range(free_list) /\ Range(free_list') \subseteq Range(free_list)
    BY <1>0, <2>1, PopFree, Zenon DEF IInv, VariablesOK, Ownership
  <2>3. Rest(t) /\ mem' = mem
    BY <1>4, Zenon DEF Allocates, memory
  <2>4. QED
    BY <1>2, <2>1, <2>2, <2>3, OthersSafe, Zenon
<1>5. ASSUME NEW t \in Tasks,
             \/ Outside(t) \/ Inside(t) \/ Allocates(t) \/ Labels(t) \/ Fills(t)
             \/ Drops(t) \/ Puts(t)
      PROVE  SafeRead(t)'
  <2>1. pc[t] # "unlink"
    BY Zenon DEF EngineInv
  <2>2. pc'[t] \notin Reading
    BY <1>5, <2>1, ZenonT(40) DEF Outside, Inside, Allocates, Labels, Fills, Drops,
      Puts, Holding, Reading, Writing, Inserting
  <2>3. QED
    BY <2>2, Zenon DEF SafeRead
<1>6. ASSUME NEW t \in Tasks, Opens(t)
      PROVE  SafeRead(t)'
  <2>1. PICK k \in Indexed : call'[t].entry = map[k]
    BY <1>6, Zenon DEF Opens
  <2>2. /\ map[k].block \notin Range(free_list)
        /\ \A u \in Tasks : pc[u] \in Holding => call[u].entry.block # map[k].block
        /\ mem[map[k].block].gen = map[k].gen
    BY <1>0, Zenon DEF IInv, Ownership, IndexedBlocksIntact, Intact
  <2>3. UNCHANGED <<free_list, mem>> /\ Rest(t) /\ pc'[t] = "opened"
    BY <1>6, Zenon DEF Opens, memory
  <2>4. \A u \in Tasks : pc'[u] \in Holding => call'[u].entry.block # map[k].block
    BY <2>2, <2>3, Zenon DEF Rest, Holding, Writing, Inserting
  <2>5. QED
    BY <2>1, <2>2, <2>3, <2>4, Zenon DEF SafeRead
<1>7. ASSUME NEW t \in Tasks, Reads(t)
      PROVE  SafeRead(t)'
  <2> DEFINE e == call[t].entry
  <2>1. /\ UNCHANGED <<free_list, mem, written>> /\ Rest(t) /\ call'[t].entry = e
        /\ pc[t] \in Reading /\ pc'[t] \in Reading
    BY <1>7, Zenon DEF Reads, Keeps, memory
  <2>2. SafeRead(t) /\ Intact(e, call[t].key)
    BY <2>1, SafeReadIntact, Zenon DEF EngineInv
  <2>3. /\ e.block \notin Range(free_list)
        /\ \A u \in Tasks : pc[u] \in Holding => call[u].entry.block # e.block
        /\ mem[e.block].gen = e.gen
        /\ mem[e.block].crc = written[e.gen].data
        /\ mem[e.block].data = written[e.gen].data
        /\ pc[t] # "opened" => buf[t] = written[e.gen].data
    BY <2>1, <2>2, Zenon DEF SafeRead, Intact
  <2>4. \A u \in Tasks : pc'[u] \in Holding => call'[u].entry.block # e.block
    BY <2>1, <2>3, Zenon DEF Rest, Holding, Reading, Writing, Inserting
  <2>5. pc'[t] # "opened" => buf'[t] = written[e.gen].data
    <3>1. CASE pc'[t] = "verify"
      <4>1. ~ \E u \in Tasks : pc[u] = "header" /\ call[u].entry.block = e.block
        BY <2>3, Zenon DEF Holding
      <4>2. QED
        BY <1>7, <2>3, <3>1, <4>1, Zenon DEF Reads
    <3>2. CASE pc'[t] = "copy"
      BY <1>7, <2>3, <3>2, Zenon DEF Reads
    <3>3. CASE pc'[t] = "reply"
      BY <1>7, <2>3, <3>3, Zenon DEF Reads
    <3>4. QED
      BY <2>1, <3>1, <3>2, <3>3, Zenon DEF Reading
  <2> HIDE DEF e
  <2>6. QED
    BY <2>1, <2>3, <2>4, <2>5, Zenon DEF SafeRead
<1>8. QED
  BY <1>0, <1>1, <1>3, <1>4, <1>5, <1>6, <1>7, EngineShapes, ZenonT(40) DEF IInv

----------------------------------------------------------------------------
(***************************************************************************)
(* The refinement mapping of CacheAgent, with the invariant at hand: the   *)
(* answer of a get is the payload of its entry from "opened" to "reply".   *)
(***************************************************************************)
AnswerOK ==
  \A t \in Tasks :
    AnswerOf(t) = IF pc[t] \in Reading THEN written[call[t].entry.gen].data ELSE None

(* The abstract answer of a get is the payload of its entry. *)
LEMMA AnswerIs == EngineInv => AnswerOK
<1> SUFFICES ASSUME EngineInv, NEW t \in Tasks
             PROVE  AnswerOf(t) = IF pc[t] \in Reading
                                  THEN written[call[t].entry.gen].data ELSE None
  BY Zenon DEF AnswerOK
<1>1. CASE pc[t] = "reply"
  <2>1. buf[t] = written[call[t].entry.gen].data /\ pc[t] \in Reading
    BY <1>1, Zenon DEF EngineInv, SafeRead, Reading
  <2>2. QED
    BY <1>1, <2>1, Zenon DEF AnswerOf, At
<1>2. CASE pc[t] \in Reading \ {"reply"}
  BY <1>2, Zenon DEF AnswerOf, At
<1>3. CASE pc[t] \notin Reading
  <2>1. pc[t] # "reply"
    BY <1>3, Zenon DEF Reading
  <2>2. QED
    BY <1>3, <2>1, Zenon DEF AnswerOf, At
<1>4. QED
  BY <1>1, <1>2, <1>3, Zenon

(* The bytes that a get has copied were stored for its key. *)
LEMMA OwnKey == EngineInv => GetReturnsOwnKey
<1> SUFFICES ASSUME EngineInv, NEW t \in Tasks, pc[t] = "reply"
             PROVE  \E g \in DOMAIN written :
                      written[g] = [key |-> call[t].key, data |-> buf[t]]
  BY Zenon DEF GetReturnsOwnKey, At
<1> DEFINE g == call[t].entry.gen
<1>1. pc[t] \in Reading
  BY Zenon DEF Reading
<1>2. g \in DOMAIN written /\ written[g].key = call[t].key
  BY <1>1, SafeReadIntact, Zenon DEF Intact
<1>3. written[g].data = buf[t]
  BY <1>1, Zenon DEF EngineInv, SafeRead
<1>4. written[g] \in [key : Keys, data : Data]
  <2>1. written \in Seq([key : Keys, data : Data])
    BY Zenon DEF EngineInv, IInv, VariablesOK
  <2>2. QED
    BY <1>2, <2>1, ElementOfSeq, LenProperties, Zenon
<1>5. written[g] = [key |-> call[t].key, data |-> buf[t]]
  <2> HIDE DEF g
  <2> QED BY <1>2, <1>3, <1>4, SMT
<1>6. QED
  BY <1>2, <1>5, Zenon

(* The payload of an entry is known to the history. *)
LEMMA ContentKnown ==
  ASSUME EngineInv, NEW k \in Indexed
  PROVE  /\ map[k].gen \in DOMAIN written
         /\ written[map[k].gen].data \in Data
         /\ ContentOf(k) = written[map[k].gen].data
         /\ ContentOf(k) # None
<1>1. map[k].gen \in DOMAIN written /\ map[k] # None
  BY Zenon DEF EngineInv, IInv, IndexedBlocksIntact, Intact, Indexed
<1>2. written \in Seq([key : Keys, data : Data])
  BY Zenon DEF EngineInv, IInv, VariablesOK
<1>3. written[map[k].gen] \in [key : Keys, data : Data]
  BY <1>1, <1>2, ElementOfSeq, LenProperties, Zenon
<1>4. None \notin Data
  BY AgentAssumption, Zenon
<1>5. QED
  BY <1>1, <1>3, <1>4, Zenon DEF ContentOf

(* A step that leaves the entry of a key alone leaves its content alone. *)
LEMMA ContentKept ==
  ASSUME EngineInv, [EngineNext]_vars, NEW k \in Keys, map'[k] = map[k]
  PROVE  ContentOf(k)' = ContentOf(k)
<1>1. IInv /\ [Next]_vars
  BY Zenon DEF EngineInv, Next
<1>2. k \in Indexed => written'[map[k].gen] = written[map[k].gen]
  BY <1>1, HistoryKept, ContentKnown, Zenon
<1>3. QED
  BY <1>2, Zenon DEF ContentOf, Indexed

(* A task that does not move has the same answer, and so has one that goes on
   reading the same entry. *)
LEMMA AnswerKept ==
  ASSUME EngineInv, EngineInv', [EngineNext]_vars, NEW t \in Tasks,
         pc'[t] \in Reading <=> pc[t] \in Reading,
         pc[t] \in Reading => call'[t].entry = call[t].entry
  PROVE  AnswerOf(t)' = AnswerOf(t)
<1>1. IInv /\ [Next]_vars
  BY Zenon DEF EngineInv, Next
<1>2. AnswerOf(t)' = IF pc'[t] \in Reading THEN written'[call'[t].entry.gen].data ELSE None
  <2>1. AnswerOK'
    BY AnswerIs, PTL
  <2>2. QED
    BY <2>1, Zenon DEF AnswerOK
<1>3. AnswerOf(t) = IF pc[t] \in Reading THEN written[call[t].entry.gen].data ELSE None
  BY AnswerIs, Zenon DEF AnswerOK
<1>4. pc[t] \in Reading => written'[call[t].entry.gen] = written[call[t].entry.gen]
  BY <1>1, HistoryKept, SafeReadIntact, Zenon
<1>5. QED
  BY <1>2, <1>3, <1>4, Zenon

Contents == [k \in Keys |-> ContentOf(k)]

Answers == [t \in Tasks |-> AnswerOf(t)]

(* A step that changes no entry, and no answer but that of task t. *)
LEMMA QuietStep ==
  ASSUME EngineInv, EngineInv', [EngineNext]_vars, NEW t \in Tasks, Rest(t)
  PROVE  /\ map' = map => Contents' = Contents
         /\ \A u \in Tasks \ {t} : AnswerOf(u)' = AnswerOf(u)
<1>1. map' = map => \A k \in Keys : ContentOf(k)' = ContentOf(k)
  BY ContentKept, Zenon
<1>2. \A u \in Tasks \ {t} : AnswerOf(u)' = AnswerOf(u)
  BY AnswerKept, Zenon DEF Rest
<1>3. QED
  BY <1>1, <1>2, Zenon DEF Contents

(* Every step of an agent whose clients do not delete is a step of Cache: a
   map.insert is a Put, an eviction a Vanish, the lookup of a get an Open and
   its end a Close; all others change neither content nor answer. *)
LEMMA CacheStep ==
  ASSUME EngineInv, EngineInv', [EngineNext]_vars
  PROVE  [Promise!CacheNext]_<<Contents, Answers>>
<1> USE DEF Promise!CacheNext, Promise!Put, Promise!Vanish, Promise!Open, Promise!Close
<1>0. AnswerOK /\ AnswerOK'
  BY AnswerIs, PTL
<1>1. CASE Nothing
  <2>1. \A k \in Keys : ContentOf(k)' = ContentOf(k)
    BY <1>1, ContentKept, Zenon DEF Nothing
  <2>2. \A t \in Tasks : AnswerOf(t)' = AnswerOf(t)
    BY <1>1, AnswerKept, Zenon DEF Nothing
  <2>3. QED
    BY <2>1, <2>2, Zenon DEF Contents, Answers
<1>2. ASSUME NEW t \in Tasks,
             \/ Inside(t) \/ Reads(t) \/ Allocates(t) \/ Labels(t) \/ Fills(t)
      PROVE  UNCHANGED <<Contents, Answers>>
  <2>1. map' = map /\ Rest(t)
    BY <1>2, Zenon DEF Inside, Reads, Allocates, Labels, Fills
  <2>2. /\ pc'[t] \in Reading <=> pc[t] \in Reading
        /\ pc[t] \in Reading => call'[t].entry = call[t].entry
    BY <1>2, ZenonT(40) DEF Inside, Reads, Allocates, Labels, Fills, Keeps, Reading,
      Writing, Inserting
  <2>3. AnswerOf(t)' = AnswerOf(t)
    BY <2>2, AnswerKept, Zenon
  <2>4. QED
    BY <2>1, <2>3, QuietStep, Zenon DEF Answers
<1>3. ASSUME NEW t \in Tasks, Outside(t)
      PROVE  Promise!Close(t)
  <2>1. map' = map /\ Rest(t) /\ pc'[t] \notin Reading
    BY <1>3, Zenon DEF Outside
  <2>2. AnswerOf(t)' = None
    BY <1>0, <2>1, Zenon DEF AnswerOK
  <2>3. Contents' = Contents /\ \A u \in Tasks \ {t} : AnswerOf(u)' = AnswerOf(u)
    BY <2>1, QuietStep, Zenon
  <2>4. Answers' = [Answers EXCEPT ![t] = None]
    BY <2>2, <2>3, Zenon DEF Answers
  <2>5. QED
    BY <2>3, <2>4, Zenon DEF Contents, Answers
<1>4. ASSUME NEW t \in Tasks, Opens(t)
      PROVE  \E k \in Keys : Promise!Open(t, k)
  <2>1. PICK k \in Indexed : call'[t].entry = map[k]
    BY <1>4, Zenon DEF Opens
  <2>2. map' = map /\ Rest(t) /\ written' = written
    BY <1>4, Zenon DEF Opens, memory
  <2>3. pc[t] \notin Reading /\ pc'[t] \in Reading
    BY <1>4, Zenon DEF Opens, Reading
  <2>4. AnswerOf(t) = None /\ AnswerOf(t)' = ContentOf(k) /\ ContentOf(k) # None
    BY <1>0, <2>1, <2>2, <2>3, ContentKnown, Zenon DEF AnswerOK
  <2>5. Contents' = Contents /\ \A u \in Tasks \ {t} : AnswerOf(u)' = AnswerOf(u)
    BY <2>2, QuietStep, Zenon
  <2>6. k \in Keys /\ Contents[k] = ContentOf(k) /\ Answers[t] = None
    BY <2>4, Zenon DEF Contents, Answers, Indexed
  <2>7. Answers' = [Answers EXCEPT ![t] = Contents[k]]
    BY <2>4, <2>5, <2>6, Zenon DEF Answers
  <2>8. QED
    BY <2>4, <2>5, <2>6, <2>7, Zenon DEF Contents, Answers
<1>5. ASSUME NEW t \in Tasks, Drops(t)
      PROVE  \E k \in Keys : Promise!Vanish(k)
  <2>1. PICK v \in Keys : map' = [map EXCEPT ![v] = None]
    BY <1>5, Zenon DEF Drops
  <2>2. \A l \in Keys : map'[l] = IF l = v THEN None ELSE map[l]
    BY <2>1, Zenon DEF EngineInv, IInv, VariablesOK
  <2>3. ContentOf(v)' = None /\ \A l \in Keys \ {v} : ContentOf(l)' = ContentOf(l)
    BY <2>2, ContentKept, Zenon DEF ContentOf
  <2>4. Contents' = [Contents EXCEPT ![v] = None]
    BY <2>3, Zenon DEF Contents
  <2>5. Rest(t) /\ pc[t] \notin Reading /\ pc'[t] \notin Reading
    BY <1>5, Zenon DEF Drops, Reading, Inserting
  <2>6. AnswerOf(t)' = AnswerOf(t) /\ \A u \in Tasks \ {t} : AnswerOf(u)' = AnswerOf(u)
    BY <2>5, AnswerKept, QuietStep, Zenon
  <2>7. Answers' = Answers
    BY <2>6, Zenon DEF Answers
  <2>8. QED
    BY <2>4, <2>7, Zenon DEF Contents, Answers
<1>6. ASSUME NEW t \in Tasks, Puts(t)
      PROVE  \E k \in Keys, d \in Data : Promise!Put(k, d)
  <2> DEFINE e == call[t].entry
             d == written[e.gen].data
  <2>0. PICK k \in Keys : k = call[t].key
    BY <1>6, Zenon DEF Puts, EngineInv, IInv, LocalsOK
  <2>1. pc[t] \in Inserting /\ pc[t] \in Holding
    BY <1>6, Zenon DEF Puts, Holding, Inserting
  <2>2. \A l \in Keys : map'[l] = IF l = k THEN e ELSE map[l]
    BY <1>6, <2>0, Zenon DEF Puts, EngineInv, IInv, VariablesOK
  <2>3. e # None /\ written' = written
    BY <1>6, <2>1, EntryType, AgentAssumption, Zenon DEF Puts, memory, EngineInv, IInv
  <2>4. e.gen \in DOMAIN written
    BY <2>1, Zenon DEF EngineInv, IInv, GenerationsUnique, Intact
  <2>5. d \in Data
    <3>1. written \in Seq([key : Keys, data : Data])
      BY Zenon DEF EngineInv, IInv, VariablesOK
    <3>2. written[e.gen] \in [key : Keys, data : Data]
      BY <2>4, <3>1, ElementOfSeq, LenProperties, Zenon
    <3>3. QED
      BY <3>2, Zenon
  <2>6. ContentOf(k)' = d
    BY <2>2, <2>3, Zenon DEF ContentOf
  <2>7. \A l \in Keys \ {k} : ContentOf(l)' = ContentOf(l)
    BY <2>2, ContentKept, Zenon
  <2>8. Rest(t) /\ pc[t] \notin Reading /\ pc'[t] \notin Reading
    BY <1>6, Zenon DEF Puts, Reading
  <2>9. AnswerOf(t)' = AnswerOf(t) /\ \A u \in Tasks \ {t} : AnswerOf(u)' = AnswerOf(u)
    BY <2>8, AnswerKept, QuietStep, Zenon
  <2> HIDE DEF d
  <2>10. Contents' = [Contents EXCEPT ![k] = d]
    BY <2>6, <2>7, Zenon DEF Contents
  <2>11. Answers' = Answers
    BY <2>9, Zenon DEF Answers
  <2>12. QED
    BY <2>5, <2>10, <2>11, Zenon DEF Contents, Answers
<1>7. QED
  <2> HIDE DEF Promise!Put, Promise!Vanish, Promise!Open, Promise!Close
  <2> QED BY <1>1, <1>2, <1>3, <1>4, <1>5, <1>6, EngineShapes, ZenonT(40)
            DEF EngineInv, IInv

----------------------------------------------------------------------------
(***************************************************************************)
(* Entries and the recency order.  Only the second half of a delete takes  *)
(* an entry out of reach of the eviction loop.                             *)
(***************************************************************************)

(* Unlinking a key keeps the others in the order. *)
LEMMA OthersStay ==
  ASSUME NEW S, NEW s \in Seq(S), NEW k, NEW x \in Range(s), x # k
  PROVE  x \in Range(Without(s, k))
<1>0. Len(s) \in Nat /\ DOMAIN s = 1..Len(s) /\ \A i \in 1..Len(s) : s[i] \in S
  BY LenProperties, ElementOfSeq, Zenon
<1>1. CASE \E i \in DOMAIN s : s[i] = k
  <2> DEFINE j == CHOOSE i \in DOMAIN s : s[i] = k
             l == j - 1
             m == j + 1
             a == SubSeq(s, 1, l)
             b == SubSeq(s, m, Len(s))
  <2>1. j \in 1..Len(s) /\ s[j] = k /\ Without(s, k) = a \o b
    BY <1>0, <1>1, Zenon DEF Without
  <2>2. PICK n \in 1..Len(s) : x = s[n]
    BY <1>0, Zenon DEF Range
  <2> HIDE DEF j
  <2>3. /\ j \in Nat \ {0} /\ l \in Int /\ 1 \in Int /\ m \in Int /\ Len(s) \in Int
        /\ \A i \in 1..l : s[i] \in S
        /\ \A i \in m..Len(s) : s[i] \in S
    BY <1>0, <2>1
  <2>4. /\ a \in Seq(S) /\ Len(a) = (IF 1 <= l THEN l - 1 + 1 ELSE 0)
        /\ \A i \in 1..l - 1 + 1 : a[i] = s[1 + i - 1]
    <3> HIDE DEF l
    <3> QED BY <2>3, SubSeqProperties
  <2>5. /\ b \in Seq(S) /\ Len(b) = (IF m <= Len(s) THEN Len(s) - m + 1 ELSE 0)
        /\ \A i \in 1..Len(s) - m + 1 : b[i] = s[m + i - 1]
    <3> HIDE DEF m
    <3> QED BY <2>3, SubSeqProperties
  <2> HIDE DEF a, b
  <2>6. Len(a) = j - 1 /\ Len(b) = Len(s) - j
    <3>1. Len(a) = j - 1
      <4>1. CASE 1 <= l
        BY <2>3, <2>4, <4>1
      <4>2. CASE ~ (1 <= l)
        BY <2>3, <2>4, <4>2
      <4> QED
        BY <4>1, <4>2
    <3>2. Len(b) = Len(s) - j
      <4>1. CASE m <= Len(s)
        BY <1>0, <2>1, <2>3, <2>5, <4>1
      <4>2. CASE ~ (m <= Len(s))
        <5>1. Len(b) = 0
          BY <2>5, <4>2, Zenon
        <5>2. j \in 1..Len(s) /\ Len(s) \in Nat
          BY <1>0, <2>1, Zenon
        <5> QED
          BY <4>2, <5>1, <5>2
      <4> QED
        BY <4>1, <4>2
    <3> QED
      BY <3>1, <3>2
  <2>7. /\ DOMAIN (a \o b) = 1..Len(a) + Len(b)
        /\ \A i \in 1..Len(a) + Len(b) :
             (a \o b)[i] = IF i <= Len(a) THEN a[i] ELSE b[i - Len(a)]
    <3>1. a \in Seq(S) /\ b \in Seq(S)
      BY <2>4, <2>5, Zenon
    <3>2. /\ a \o b \in Seq(S) /\ Len(a \o b) = Len(a) + Len(b)
          /\ \A i \in 1..Len(a) + Len(b) :
               (a \o b)[i] = IF i <= Len(a) THEN a[i] ELSE b[i - Len(a)]
      BY <3>1, ConcatProperties, Zenon
    <3>3. DOMAIN (a \o b) = 1..Len(a \o b)
      BY <3>2, LenProperties, Zenon
    <3> QED
      BY <3>2, <3>3, Zenon
  <2>8. CASE n < j
    <3>1. n \in 1..Len(a) + Len(b) /\ n <= Len(a) /\ n \in 1..l - 1 + 1 /\ 1 + n - 1 = n
      BY <1>0, <2>1, <2>3, <2>6, <2>8
    <3>2. (a \o b)[n] = x /\ n \in DOMAIN (a \o b)
      BY <2>2, <2>4, <2>7, <3>1, Zenon
    <3> QED
      BY <2>1, <3>2, Zenon DEF Range
  <2>9. CASE n > j
    <3> DEFINE p == n - 1
    <3>1. /\ p \in 1..Len(a) + Len(b) /\ ~ (p <= Len(a)) /\ p - Len(a) \in 1..Len(s) - m + 1
          /\ m + (p - Len(a)) - 1 = n
      BY <1>0, <2>1, <2>3, <2>6, <2>9
    <3> HIDE DEF p
    <3>2. (a \o b)[p] = x /\ p \in DOMAIN (a \o b)
      BY <2>2, <2>5, <2>7, <3>1, Zenon
    <3> QED
      BY <2>1, <3>2, Zenon DEF Range
  <2>10. n # j
    BY <2>1, <2>2
  <2> QED
    BY <1>0, <2>1, <2>8, <2>9, <2>10
<1>2. CASE ~ \E i \in DOMAIN s : s[i] = k
  BY <1>2, Zenon DEF Without
<1> QED
  BY <1>1, <1>2

(* Touch keeps every key and enters the touched one. *)
LEMMA TouchKeeps ==
  ASSUME lru \in Seq(Keys), NEW k \in Keys, Touch(k)
  PROVE  Range(lru) \cup {k} \subseteq Range(lru')
<1> DEFINE w == Without(lru, k)
<1>1. w \in Seq(Keys) /\ lru' = <<k>> \o w
  BY WithoutType, Zenon DEF Touch
<1>2. \A x \in Range(lru) \ {k} : x \in Range(w)
  BY OthersStay, Zenon
<1> HIDE DEF w
<1>3. /\ Len(w) \in Nat /\ DOMAIN w = 1..Len(w) /\ DOMAIN lru' = 1..Len(w) + 1
      /\ lru'[1] = k /\ \A i \in 1..Len(w) : lru'[i + 1] = w[i]
  BY <1>1
<1>4. ASSUME NEW x \in Range(w)  PROVE x \in Range(lru')
  <2>1. PICK i \in 1..Len(w) : x = w[i]
    BY <1>3, Zenon DEF Range
  <2>2. i + 1 \in DOMAIN lru' /\ lru'[i + 1] = x
    BY <1>3, <2>1
  <2> QED
    BY <2>2, Zenon DEF Range
<1>5. k \in Range(lru')
  <2>1. 1 \in DOMAIN lru' /\ lru'[1] = k
    BY <1>3
  <2> QED
    BY <2>1, Zenon DEF Range
<1> QED
  BY <1>2, <1>4, <1>5

(* evict_lru takes the last key and keeps the others. *)
LEMMA EvictKeeps ==
  ASSUME lru \in Seq(Keys), NEW v \in Keys, EvictLru(v), NEW x \in Range(lru), x # v
  PROVE  x \in Range(lru')
<1>1. /\ lru # <<>> /\ v = lru[Len(lru)] /\ lru' = SubSeq(lru, 1, Len(lru) - 1)
  BY DEF EvictLru
<1>2. /\ lru' \in Seq(Keys) /\ Len(lru) \in Nat \ {0} /\ Len(lru') = Len(lru) - 1
      /\ \A i \in 1..Len(lru) - 1 : lru'[i] = lru[i]
  BY <1>1, FrontLast, Zenon
<1>3. PICK i \in 1..Len(lru) : x = lru[i]
  BY DEF Range
<1>4. i \in DOMAIN lru' /\ lru'[i] = x
  BY <1>1, <1>2, <1>3
<1> QED
  BY <1>4, Zenon DEF Range

(* Task t moves to another step; the others stay as they are. *)
Moves(t) ==
  \A u \in Tasks \ {t} : pc'[u] = pc[u] /\ call'[u] = call[u]

(* What a handler does outside the index leaves map and order alone, and an
   insert that has a key to touch or a victim to drop is not outside. *)
LEMMA OutsideIndex ==
  ASSUME VariablesOK, NEW t \in Tasks,
         \/ StoreBegin(t) \/ StoreAbort(t)
         \/ \E m \in Models, h \in Hashes, d \in Data \cup Oversized :
              StoreCollected(t, m, h, d)
         \/ StoreAllocate(t) \/ StoreRefused(t) \/ StoreWriteHeader(t)
         \/ StoreWriteSome(t) \/ StoreWriteAll(t) \/ StoreFinish(t)
         \/ GetStep(t) \/ DeleteFree(t)
  PROVE  UNCHANGED <<map, lru>> /\ pc[t] \notin {"touch", "drop"} /\ Moves(t)
<1> USE DEF Goto, Set, At, Finish, Moves
<1>0. DOMAIN pc = Tasks /\ DOMAIN call = Tasks
  BY Zenon DEF VariablesOK
<1>1. CASE StoreBegin(t) \/ StoreAbort(t)
  BY <1>0, <1>1 DEF StoreBegin, StoreAbort
<1>2. CASE \E m \in Models, h \in Hashes, d \in Data \cup Oversized : StoreCollected(t, m, h, d)
  BY <1>0, <1>2 DEF StoreCollected
<1>3. CASE StoreAllocate(t)
  BY <1>0, <1>3 DEF StoreAllocate
<1>4. CASE StoreRefused(t) \/ StoreFinish(t)
  BY <1>0, <1>4 DEF StoreRefused, StoreFinish
<1>5. CASE StoreWriteHeader(t)
  BY <1>0, <1>5 DEF StoreWriteHeader
<1>6. CASE StoreWriteSome(t) \/ StoreWriteAll(t)
  BY <1>0, <1>6, ZenonT(30) DEF StoreWriteSome, StoreWriteAll
<1>7. CASE GetStep(t)
  BY <1>0, <1>7 DEF GetStep, GetDropped, GetReadHeader, GetVerified, GetDataLoss, GetCopy, GetReply
<1>8. CASE DeleteFree(t)
  BY <1>0, <1>8 DEF DeleteFree
<1> QED
  BY <1>1, <1>2, <1>3, <1>4, <1>5, <1>6, <1>7, <1>8, Zenon

(* No other step than the second half of a delete of key k takes k out of
   reach. *)
LEMMA ReachStep ==
  ASSUME IInv, [Next]_vars, NEW k \in Keys, Reachable(k),
         ~ \E t \in Tasks : At(t, "unlink") /\ call[t].key = k /\ pc'[t] # pc[t]
  PROVE  Reachable(k)'
<1> USE DEF Goto, Set, At
<1>0. /\ VariablesOK /\ LocalsOK
      /\ lru \in Seq(Keys) /\ DOMAIN pc = Tasks /\ DOMAIN call = Tasks /\ DOMAIN map = Keys
  BY Zenon DEF IInv, VariablesOK
<1>1. \/ k \notin Indexed
      \/ k \in Range(lru)
      \/ \E t \in Tasks : pc[t] = "touch" /\ call[t].key = k
      \/ \E t \in Tasks : pc[t] = "drop" /\ call[t].victim = k
  BY Zenon DEF Reachable
<1>2. ASSUME \/ k \notin Indexed'
             \/ k \in Range(lru')
             \/ \E t \in Tasks : pc'[t] = "touch" /\ call'[t].key = k
             \/ \E t \in Tasks : pc'[t] = "drop" /\ call'[t].victim = k
      PROVE  Reachable(k)'
  BY <1>2, Zenon DEF Reachable
<1>3. ASSUME k \in Indexed' => k \in Indexed,
             k \in Range(lru) => k \in Range(lru'),
             \A u \in Tasks : pc[u] \in {"touch", "drop"} => pc'[u] = pc[u] /\ call'[u] = call[u]
      PROVE  Reachable(k)'
  BY <1>1, <1>2, <1>3, Zenon
<1>4. UNCHANGED map => Indexed' = Indexed
  BY DEF Indexed
<1>5. ASSUME UNCHANGED <<map, lru>>,
             \A u \in Tasks : pc[u] \in {"touch", "drop"} => pc'[u] = pc[u] /\ call'[u] = call[u]
      PROVE  Reachable(k)'
  BY <1>3, <1>4, <1>5, Zenon
<1>6. ASSUME NEW t \in Tasks, UNCHANGED <<map, lru>>, pc[t] \notin {"touch", "drop"}, Moves(t)
      PROVE  Reachable(k)'
  BY <1>5, <1>6, Zenon DEF Moves
<1>7. CASE UNCHANGED vars \/ MonitorSample \/ MonitorUpdate
  <2>1. UNCHANGED <<map, lru, pc, call>>
    BY <1>7, ZenonT(30) DEF vars, MonitorSample, MonitorUpdate
  <2> QED
    BY <1>5, <2>1, Zenon
<1>8. ASSUME NEW m \in Models, NEW h \in Hashes, Lookup(m, h)  PROVE Reachable(k)'
  <2>1. UNCHANGED <<map, pc, call>> /\ Touch(composite_key(m, h))
    BY <1>8, Zenon DEF Lookup, LookupHit
  <2>2. Range(lru) \subseteq Range(lru')
    BY <1>0, <2>1, KeysAre, TouchKeeps, Zenon
  <2> QED
    BY <1>3, <1>4, <2>1, <2>2, Zenon
<1>9. ASSUME NEW t \in Tasks, NEW m \in Models, NEW h \in Hashes, GetFound(t, m, h)
      PROVE  Reachable(k)'
  <2>1. UNCHANGED map /\ Touch(composite_key(m, h)) /\ pc[t] = "idle" /\ Moves(t)
    BY <1>0, <1>9 DEF GetFound, LookupHit, Moves
  <2>2. Range(lru) \subseteq Range(lru')
    BY <1>0, <2>1, KeysAre, TouchKeeps
  <2>3. \A u \in Tasks : pc[u] \in {"touch", "drop"} => pc'[u] = pc[u] /\ call'[u] = call[u]
    BY <2>1, Zenon DEF Moves
  <2> QED
    BY <1>3, <1>4, <2>1, <2>2, <2>3, Zenon
<1>10. ASSUME NEW t \in Tasks, NEW h \in Hashes, DeleteBegin(t, h)  PROVE Reachable(k)'
  <2> DEFINE l == composite_key(NoModel, h)
  <2>1. /\ map' = [map EXCEPT ![l] = None] /\ UNCHANGED lru /\ pc[t] = "idle" /\ Moves(t)
    BY <1>0, <1>10 DEF DeleteBegin, RemoveEntry, Moves
  <2> HIDE DEF l
  <2>2. Indexed' \subseteq Indexed
    BY <1>0, <2>1 DEF Indexed
  <2>3. \A u \in Tasks : pc[u] \in {"touch", "drop"} => pc'[u] = pc[u] /\ call'[u] = call[u]
    BY <2>1, Zenon DEF Moves
  <2> QED
    BY <1>3, <2>1, <2>2, <2>3, ZenonT(30)
<1>11. ASSUME NEW t \in Tasks, DeleteUnlink(t)  PROVE Reachable(k)'
  <2>1. /\ lru' = Without(lru, call[t].key) /\ UNCHANGED map /\ pc[t] = "unlink"
        /\ pc'[t] = "removed" /\ Moves(t)
    BY <1>0, <1>11 DEF DeleteUnlink, RemoveUnlink, Forget, Moves
  <2>2. call[t].key # k
    BY <2>1
  <2>3. k \in Range(lru) => k \in Range(lru')
    BY <1>0, <2>1, <2>2, OthersStay
  <2>4. \A u \in Tasks : pc[u] \in {"touch", "drop"} => pc'[u] = pc[u] /\ call'[u] = call[u]
    BY <2>1, Zenon DEF Moves
  <2> QED
    BY <1>3, <1>4, <2>1, <2>3, <2>4, ZenonT(30)
<1>12. ASSUME NEW t \in Tasks, InsertStep(t)  PROVE Reachable(k)'
  <2>1. CASE InsertCheck(t) \/ CountShard(t) \/ EvictNothing(t)
    <3>1. UNCHANGED <<map, lru>> /\ pc[t] \notin {"touch", "drop"} /\ Moves(t)
      BY <1>0, <2>1 DEF InsertCheck, CountShard, EvictNothing, Moves
    <3> QED
      BY <1>6, <3>1, Zenon
  <2>2. CASE EvictVictim(t)
    <3>1. PICK v \in Keys : EvictLru(v) /\ call' = [call EXCEPT ![t] = [call[t] EXCEPT !.victim = v]]
      BY <2>2, Zenon DEF EvictVictim
    <3>2. call[t] \in Calls
      BY <1>0, Zenon DEF VariablesOK
    <3>3. call'[t].victim = v
      BY <1>0, <3>1, <3>2, Zenon DEF Calls
    <3>4. UNCHANGED map /\ pc[t] = "evict" /\ pc'[t] = "drop" /\ Moves(t)
      BY <1>0, <2>2 DEF EvictVictim, Moves
    <3>5. \A u \in Tasks : pc[u] \in {"touch", "drop"} => pc'[u] = pc[u] /\ call'[u] = call[u]
      BY <3>4, Zenon DEF Moves
    <3>6. CASE k = v
      BY <1>2, <3>3, <3>4, <3>6, ZenonT(30)
    <3>7. CASE k # v
      <4>1. k \in Range(lru) => k \in Range(lru')
        BY <1>0, <3>1, <3>7, EvictKeeps, Zenon
      <4> QED
        BY <1>3, <1>4, <3>4, <3>5, <4>1, ZenonT(30)
    <3> QED
      BY <3>6, <3>7
  <2>3. CASE DropVictim(t)
    <3> DEFINE v == call[t].victim
    <3>1. /\ map' = [map EXCEPT ![v] = None] /\ UNCHANGED lru /\ pc[t] = "drop" /\ Moves(t)
      BY <1>0, <2>3, Zenon DEF DropVictim, Moves
    <3>2. Indexed' = Indexed \ {v}
      BY <1>0, <3>1 DEF Indexed
    <3> QED
      BY <1>1, <1>2, <3>1, <3>2, ZenonT(30) DEF Moves
  <2>4. CASE Put(t)
    <3>1. /\ \A l \in Keys \ {call[t].key} : map'[l] = map[l]
          /\ UNCHANGED <<lru, call>> /\ pc[t] = "put" /\ pc'[t] = "touch" /\ Moves(t)
      BY <1>0, <2>4 DEF Put, Moves
    <3>2. CASE k = call[t].key
      BY <1>2, <3>1, <3>2, Zenon
    <3>3. CASE k # call[t].key
      <4>1. k \in Indexed' => k \in Indexed
        BY <3>1, <3>3 DEF Indexed
      <4>2. \A u \in Tasks : pc[u] \in {"touch", "drop"} => pc'[u] = pc[u] /\ call'[u] = call[u]
        BY <3>1, Zenon DEF Moves
      <4> QED
        BY <1>3, <3>1, <4>1, <4>2, ZenonT(30)
    <3> QED
      BY <3>2, <3>3
  <2>5. CASE InsertTouch(t)
    <3>1. Touch(call[t].key) /\ UNCHANGED <<map, call>> /\ pc[t] = "touch" /\ Moves(t)
      BY <1>0, <2>5 DEF InsertTouch, Moves
    <3>2. call[t].key \in Keys
      BY <1>0, <3>1 DEF LocalsOK
    <3>3. Range(lru) \cup {call[t].key} \subseteq Range(lru')
      BY <1>0, <3>1, <3>2, TouchKeeps
    <3> QED
      BY <1>1, <1>2, <1>4, <3>1, <3>3, ZenonT(30) DEF Moves
  <2> QED
    BY <1>12, <2>1, <2>2, <2>3, <2>4, <2>5, ZenonT(30) DEF InsertStep
<1> QED
  <2>1. ASSUME NEW t \in Tasks, StoreInsert(t)  PROVE Reachable(k)'
    BY <1>12, <2>1, Zenon DEF StoreInsert
  <2>2. ASSUME NEW t \in Tasks,
               \/ StoreBegin(t) \/ StoreAbort(t)
               \/ \E m \in Models, h \in Hashes, d \in Data \cup Oversized :
                    StoreCollected(t, m, h, d)
               \/ StoreAllocate(t) \/ StoreRefused(t) \/ StoreWriteHeader(t)
               \/ StoreWriteSome(t) \/ StoreWriteAll(t) \/ StoreFinish(t)
               \/ GetStep(t) \/ DeleteFree(t)
        PROVE  Reachable(k)'
    BY <1>0, <1>6, <2>2, OutsideIndex, Zenon
  <2> QED
    BY <1>7, <1>8, <1>9, <1>10, <1>11, <2>1, <2>2, ZenonT(30)
       DEF Next, EngineNext, StoreStep, DeleteStep

----------------------------------------------------------------------------
(***************************************************************************)
(* The bytes behind the index, with deletes as well.  Nothing writes to a  *)
(* block while an entry leads to it, so that the blocks under the index    *)
(* are a map that changes entry by entry.                                  *)
(***************************************************************************)
BytesOf(k) == IF map[k] = None THEN None ELSE mem[map[k].block].data

NoGets == [r \in {} |-> None]

Stored == INSTANCE Cache
  WITH Payloads <- Data, Readers <- {},
       content <- [k \in Keys |-> BytesOf(k)],
       answer <- NoGets

(* What is stored is a map that only a completed store, an eviction, a
   replacement or a delete changes, one key at a time: no write of a block
   header or of its data by another store shows under a key. *)
IndexIsMap == Stored!CacheSpec

Bytes == [k \in Keys |-> BytesOf(k)]

(* The block of an entry is not written. *)
LEMMA EntryNotWritten ==
  ASSUME IInv, [Next]_vars, NEW k \in Indexed
  PROVE  mem'[map[k].block] = mem[map[k].block]
<1>1. map[k] \in Location /\ map[k].block \in Blocks
  <2>1. map[k] \in Location
    BY Zenon DEF IInv, VariablesOK, Indexed
  <2>2. QED
    BY <2>1, Zenon DEF Location
<1>2. CASE UNCHANGED mem
  BY <1>2, Zenon
<1>3. ASSUME NEW t \in Tasks, Labels(t) \/ Fills(t)
      PROVE  mem'[map[k].block] = mem[map[k].block]
  <2>1. pc[t] \in Holding
    BY <1>3, Zenon DEF Labels, Fills, Holding
  <2>2. \A c \in Blocks \ {call[t].entry.block} : mem'[c] = mem[c]
    BY <1>3, Zenon DEF Labels, Fills
  <2>3. map[k].block # call[t].entry.block
    BY <2>1, Zenon DEF IInv, Ownership
  <2>4. QED
    BY <1>1, <2>2, <2>3, Zenon
<1>4. \/ UNCHANGED mem
      \/ \E t \in Tasks : Labels(t) \/ Fills(t)
  BY StepShapes, ZenonT(30) DEF IInv, Nothing, Outside, Inside, Reads, Opens, Allocates,
    Drops, Puts, Takes, Frees, memory
<1>5. QED
  BY <1>2, <1>3, <1>4, Zenon

(* A key that keeps its entry keeps its bytes. *)
LEMMA BytesKept ==
  ASSUME IInv, [Next]_vars, NEW k \in Keys, map'[k] = map[k]
  PROVE  BytesOf(k)' = BytesOf(k)
<1>1. k \in Indexed => mem'[map[k].block] = mem[map[k].block]
  BY EntryNotWritten, Zenon
<1>2. QED
  BY <1>1, Zenon DEF BytesOf, Indexed

(* Every step of the agent is a step of Cache without readers. *)
LEMMA StoredStep ==
  ASSUME IInv, [Next]_vars
  PROVE  [Stored!CacheNext]_<<Bytes, NoGets>>
<1> USE DEF Stored!Put, Stored!Vanish
<1>0. NoGets' = NoGets
  BY Zenon DEF NoGets
<1>1. CASE map' = map
  <2>1. Bytes' = Bytes
    BY <1>1, BytesKept, Zenon DEF Bytes
  <2>2. QED
    BY <1>0, <2>1, Zenon
<1>2. ASSUME NEW v \in Keys, map' = [map EXCEPT ![v] = None]
      PROVE  Stored!Vanish(v)
  <2>1. \A l \in Keys : map'[l] = IF l = v THEN None ELSE map[l]
    BY <1>2, Zenon DEF IInv, VariablesOK
  <2>2. BytesOf(v)' = None /\ \A l \in Keys \ {v} : BytesOf(l)' = BytesOf(l)
    BY <2>1, BytesKept, Zenon DEF BytesOf
  <2>3. Bytes' = [Bytes EXCEPT ![v] = None]
    BY <2>2, Zenon DEF Bytes
  <2>4. QED
    BY <1>0, <2>3, Zenon DEF Bytes
<1>3. ASSUME NEW t \in Tasks, Puts(t)
      PROVE  \E k \in Keys, d \in Data : Stored!Put(k, d)
  <2> DEFINE e == call[t].entry
             d == mem[e.block].data
  <2>0. PICK k \in Keys : k = call[t].key
    BY <1>3, Zenon DEF Puts, IInv, LocalsOK
  <2>1. pc[t] \in Inserting /\ pc[t] \in Holding
    BY <1>3, Zenon DEF Puts, Holding, Inserting
  <2>2. \A l \in Keys : map'[l] = IF l = k THEN e ELSE map[l]
    BY <1>3, <2>0, Zenon DEF Puts, IInv, VariablesOK
  <2>3. e # None /\ mem' = mem
    BY <1>3, <2>1, EntryType, AgentAssumption, ZenonT(30) DEF Puts, memory, IInv
  <2>4. Intact(e, k)
    BY <2>0, <2>1, Zenon DEF IInv, GenerationsUnique
  <2>5. d \in Data
    <3>1. written \in Seq([key : Keys, data : Data])
      BY Zenon DEF IInv, VariablesOK
    <3>2. written[e.gen] \in [key : Keys, data : Data]
      BY <2>4, <3>1, ElementOfSeq, LenProperties, Zenon DEF Intact
    <3>3. QED
      BY <2>4, <3>2, Zenon DEF Intact
  <2>6. BytesOf(k)' = d
    BY <2>2, <2>3, Zenon DEF BytesOf
  <2>7. \A l \in Keys \ {k} : BytesOf(l)' = BytesOf(l)
    BY <2>2, BytesKept, Zenon
  <2> HIDE DEF d
  <2>8. Bytes' = [Bytes EXCEPT ![k] = d]
    BY <2>6, <2>7, Zenon DEF Bytes
  <2>9. QED
    BY <1>0, <2>5, <2>8, Zenon DEF Bytes
<1>4. \/ map' = map
      \/ \E v \in Keys : map' = [map EXCEPT ![v] = None]
      \/ \E t \in Tasks : Puts(t)
  BY StepShapes, ZenonT(30) DEF IInv, Nothing, Outside, Inside, Reads, Opens, Allocates,
    Labels, Fills, Drops, Takes, Frees, Indexed
<1>5. QED
  <2> HIDE DEF Stored!Put, Stored!Vanish
  <2> QED BY <1>1, <1>2, <1>3, <1>4, Zenon DEF Stored!CacheNext

(* An agent starts with nothing stored. *)
LEMMA StoredInit == Init => Stored!CacheInit
<1> SUFFICES ASSUME Init PROVE Stored!CacheInit
  BY Zenon
<1>1. \A k \in Keys : BytesOf(k) = None
  BY Zenon DEF Init, IndexInit, BytesOf
<1>2. QED
  BY <1>1, Zenon DEF Stored!CacheInit, NoGets

----------------------------------------------------------------------------
(***************************************************************************)
(* Clients that do not delete, continued. eviction.rs:3 says that "When the *)
(* block store is full, the least recently used entries are evicted to     *)
(* make room"; for such clients that never happens, because store takes a  *)
(* block from the pool before insert counts the entries. The theorem shows *)
(* how far this goes: no interleaving of stores makes the index evict,     *)
(* although DashMap::len counts the shards one at a time while other       *)
(* stores insert.                                                          *)
(*                                                                         *)
(* A task that counts holds a block that no entry uses, so there are fewer *)
(* entries than blocks; and as entries only appear, the sum that it has at *)
(* shard s is at most the number of entries that are now below s.          *)
(***************************************************************************)
Below(s) == {k \in Indexed : ShardOf[k] < s}

Evicting == {"evict", "drop"}

NoEviction == (\A t \in Tasks : pc[t] \notin Evicting) /\ evictions = 0

CountInv ==
  /\ NoEviction
  /\ \A t \in Tasks : call[t].evicted = 0
  /\ \A t \in Tasks : pc[t] = "len" => call[t].count <= Cardinality(Below(call[t].shard))

(* A step of task t that neither counts nor begins to. *)
Passes(t) ==
  /\ Rest(t)
  /\ pc'[t] \notin {"len"} \cup Evicting
  /\ call'[t].evicted \in {0, call[t].evicted}
  /\ evictions' \in {evictions, evictions + call[t].evicted}
  /\ \A k \in Indexed : map'[k] # None

Counts(t) ==
  /\ InsertCheck(t) \/ CountShard(t)
  /\ Rest(t)
  /\ map' = map /\ evictions' = evictions

(* Without deletes, and with nobody at an eviction, no other steps exist. *)
LEMMA CountingShapes ==
  ASSUME VariablesOK, LocalsOK, \A t \in Tasks : pc[t] \notin Evicting,
         [EngineNext]_vars
  PROVE  \/ UNCHANGED <<map, pc, call, evictions>>
         \/ \E t \in Tasks : Counts(t) \/ Passes(t)
<1> USE DEF Goto, Set, SetBuf, At, agentVars, allocatorVars, monitorVars,
            telemetry, Rest, VariablesOK
<1>0. ASSUME NEW k \in Indexed, map' = map
      PROVE  map'[k] # None
  BY <1>0, Zenon DEF Indexed
<1>1. CASE \/ \E m \in Models, h \in Hashes : Lookup(m, h)
           \/ MonitorSample \/ MonitorUpdate \/ UNCHANGED vars
  BY <1>1, Zenon DEF Lookup, LookupHit, MonitorSample, MonitorUpdate, vars
<1>2. ASSUME NEW t \in Tasks,
             \/ StoreBegin(t) \/ StoreAbort(t) \/ StoreRefused(t)
             \/ GetDropped(t) \/ GetDataLoss(t) \/ GetReply(t)
      PROVE  Passes(t)
  <2>1. CASE StoreBegin(t)
    BY <1>0, <2>1, Zenon DEF Passes, Evicting, StoreBegin
  <2>2. CASE ~StoreBegin(t)
    <3>1. Finish(t) /\ map' = map /\ evictions' = evictions
      BY <1>2, <2>2, Zenon DEF StoreAbort, StoreRefused, GetDropped, GetDataLoss, GetReply
    <3>2. QED
      BY <1>0, <3>1, Zenon DEF Passes, Evicting, Finish, NoCall
  <2>3. QED
    BY <2>1, <2>2, Zenon
<1>3. ASSUME NEW t \in Tasks, StoreFinish(t)
      PROVE  Passes(t)
  BY <1>0, <1>3, Zenon DEF Passes, Evicting, StoreFinish, Finish, NoCall
<1>4. ASSUME NEW t \in Tasks, NEW m \in Models, NEW h \in Hashes,
             NEW d \in Data \cup Oversized, StoreCollected(t, m, h, d)
      PROVE  Passes(t)
  BY <1>0, <1>4, Zenon DEF Passes, Evicting, StoreCollected, NoCall
<1>5. ASSUME NEW t \in Tasks, NEW m \in Models, NEW h \in Hashes, GetFound(t, m, h)
      PROVE  Passes(t)
  BY <1>0, <1>5, Zenon DEF Passes, Evicting, GetFound, LookupHit, NoCall
<1>6. ASSUME NEW t \in Tasks, StoreAllocate(t) \/ StoreWriteHeader(t)
      PROVE  Passes(t)
  <2>1. call'[t].evicted = call[t].evicted
    <3>1. \A e : [call[t] EXCEPT !.entry = e].evicted = call[t].evicted
      BY Zenon DEF Calls
    <3>2. CASE StoreAllocate(t)
      <4>1. \E e : call' = [call EXCEPT ![t] = [call[t] EXCEPT !.entry = e]]
        BY <3>2, Zenon DEF StoreAllocate
      <4>2. \E e : call'[t] = [call[t] EXCEPT !.entry = e]
        BY <4>1, Zenon
      <4>3. QED
        BY <3>1, <4>2, ZenonT(30)
    <3>3. CASE StoreWriteHeader(t)
      BY <3>3, Zenon DEF StoreWriteHeader, Calls
    <3>4. QED
      BY <1>6, <3>2, <3>3, ZenonT(30)
  <2>2. QED
    BY <1>0, <1>6, <2>1, ZenonT(40) DEF Passes, Evicting, StoreAllocate, StoreWriteHeader
<1>7. ASSUME NEW t \in Tasks,
             \/ StoreWriteSome(t) \/ StoreWriteAll(t)
             \/ GetReadHeader(t) \/ GetVerified(t) \/ GetCopy(t)
      PROVE  Passes(t)
  BY <1>0, <1>7, ZenonT(40) DEF Passes, Evicting, StoreWriteSome, StoreWriteAll,
    GetReadHeader, GetVerified, GetCopy
<1>8. ASSUME NEW t \in Tasks, StoreInsert(t)
      PROVE  Counts(t) \/ Passes(t)
  <2>1. UNCHANGED <<allocatorVars, agentVars>> /\ InsertStep(t)
    BY <1>8, Zenon DEF StoreInsert
  <2>2. CASE InsertCheck(t) \/ CountShard(t)
    <3>1. map' = map
      BY <2>2, Zenon DEF InsertCheck, CountShard
    <3>2. \A u \in Tasks \ {t} : pc'[u] = pc[u] /\ call'[u] = call[u]
      BY <2>2, ZenonT(40) DEF InsertCheck, CountShard
    <3>3. QED
      BY <2>1, <2>2, <3>1, <3>2, Zenon DEF Counts
  <2>3. CASE EvictVictim(t) \/ EvictNothing(t) \/ DropVictim(t)
    BY <2>3, Zenon DEF EvictVictim, EvictNothing, DropVictim, Evicting
  <2>4. CASE Put(t)
    <3>1. call[t].entry # None
      BY <2>4, AgentAssumption, Zenon DEF Put, LocalsOK, Holding, Inserting
    <3>2. map' = [map EXCEPT ![call[t].key] = call[t].entry]
      BY <2>4, Zenon DEF Put
    <3>3. \A k \in Indexed : map'[k] # None
      BY <3>1, <3>2, Zenon DEF Indexed
    <3>4. QED
      BY <2>1, <2>4, <3>3, Zenon DEF Put, Passes, Evicting
  <2>5. CASE InsertTouch(t)
    BY <1>0, <2>1, <2>5, ZenonT(30) DEF InsertTouch, Passes, Evicting
  <2>6. QED
    BY <2>1, <2>2, <2>3, <2>4, <2>5, ZenonT(30) DEF InsertStep
<1>9. QED
  BY <1>1, <1>2, <1>3, <1>4, <1>5, <1>6, <1>7, <1>8, ZenonT(60)
    DEF EngineNext, GetStep, StoreStep

(* Every entry has a block of its own. *)
LEMMA OwnBlocks ==
  ASSUME VariablesOK, Ownership
  PROVE  /\ [k \in Indexed |-> map[k].block] \in [Indexed -> Blocks]
         /\ IsInjective([k \in Indexed |-> map[k].block])
<1>1. \A k \in Indexed : map[k].block \in Blocks
  <2>1. \A k \in Indexed : map[k] \in Location
    BY Zenon DEF VariablesOK, Indexed
  <2>2. QED
    BY <2>1, Zenon DEF Location
<1>2. \A k, l \in Indexed : map[k].block = map[l].block => k = l
  BY Zenon DEF Ownership
<1>3. QED
  BY <1>1, <1>2, Zenon DEF IsInjective

(* There are at most as many entries as blocks. *)
LEMMA WithinCapacity ==
  ASSUME Counting, IInv
  PROVE  Cardinality(Indexed) <= TotalBlocks
<1> DEFINE f == [k \in Indexed |-> map[k].block]
<1>1. f \in [Indexed -> Blocks] /\ IsInjective(f)
  BY OwnBlocks, Zenon DEF IInv
<1>2. Indexed \in SUBSET Keys
  BY Zenon DEF Indexed
<1> HIDE DEF f
<1>3. QED
  BY <1>1, <1>2, Zenon DEF Counting

(* While a store has a block that is not yet indexed, there are fewer entries
   than blocks: different entries have different blocks. *)
LEMMA RoomLeft ==
  ASSUME Counting, VariablesOK, LocalsOK, Ownership, NEW t \in Tasks, pc[t] \in Holding
  PROVE  Cardinality(Indexed) < TotalBlocks
<1> DEFINE b == call[t].entry.block
           f == [k \in Indexed |-> map[k].block]
<1>1. b \in Blocks
  BY EntryType, Zenon
<1>2. f \in [Indexed -> Blocks] /\ IsInjective(f)
  BY OwnBlocks, Zenon
<1>3. \A k \in Indexed : f[k] # b
  BY Zenon DEF Ownership
<1>4. Indexed \in SUBSET Keys
  BY Zenon DEF Indexed
<1> HIDE DEF b, f
<1>5. QED
  BY <1>1, <1>2, <1>3, <1>4, Zenon DEF Counting

(* One more shard counted. *)
LEMMA OneMoreShard ==
  ASSUME Counting, NEW s \in 1..NumShards
  PROVE  Cardinality(Below(s)) + ShardLen(s) = Cardinality(Below(s + 1))
<1> DEFINE A == Below(s)
           B == {k \in Indexed : ShardOf[k] = s}
<1>1. \A k \in Indexed : ShardOf[k] \in Nat
  BY AgentAssumption DEF Indexed
<1>2. NumShards \in Nat /\ s \in Nat
  BY AgentAssumption, SMT
<1>3. Below(s + 1) = A \cup B
  BY <1>1, <1>2, SMT DEF Below
<1>4. A \cap B = {}
  BY <1>1, <1>2, SMT DEF Below
<1>5. A \in SUBSET Keys /\ B \in SUBSET Keys
  BY Zenon DEF Below, Indexed
<1> HIDE DEF A, B
<1>6. Cardinality(A \cup B) = Cardinality(A) + Cardinality(B)
  BY <1>4, <1>5, Zenon DEF Counting
<1>7. QED
  BY <1>3, <1>6, Zenon DEF A, B, ShardLen

(* Nothing is below the first shard, and everything below the one after the
   last. *)
LEMMA AllShards ==
  ASSUME Counting
  PROVE  Cardinality(Below(1)) = 0 /\ Below(NumShards + 1) = Indexed
<1>1. \A k \in Indexed : ShardOf[k] \in 1..NumShards
  BY AgentAssumption, Zenon DEF Indexed
<1>2. Below(1) = {}
  BY <1>1, AgentAssumption, SMT DEF Below
<1>3. Below(NumShards + 1) = Indexed
  BY <1>1, AgentAssumption, SMT DEF Below
<1>4. QED
  BY <1>2, <1>3, Zenon DEF Counting

(* Entries that appear meanwhile only make the count too small. *)
LEMMA BelowGrows ==
  ASSUME Counting, \A k \in Indexed : map'[k] # None, NEW s
  PROVE  Cardinality(Below(s)) <= Cardinality({k \in Indexed' : ShardOf[k] < s})
<1> DEFINE R == Below(s)
           S == {k \in Indexed' : ShardOf[k] < s}
<1>1. S \in SUBSET Keys /\ R \in SUBSET S
  BY Zenon DEF Below, Indexed
<1> HIDE DEF R, S
<1>2. Cardinality(R) <= Cardinality(S)
  BY <1>1, Zenon DEF Counting
<1>3. QED
  BY <1>2, Zenon DEF R, S

(* The task that counts: its sum is at most the number of entries below the
   shard that comes next, and after the last shard it is below the capacity. *)
LEMMA CountStep ==
  ASSUME Counting, IInv, CountInv, NEW t \in Tasks, Counts(t)
  PROVE  /\ pc'[t] \notin Evicting
         /\ call'[t].evicted = call[t].evicted
         /\ pc'[t] = "len" => call'[t].count <= Cardinality(Below(call'[t].shard))
<1> DEFINE c == call[t]
<1>0. /\ pc \in [Tasks -> AgentPc] /\ call \in [Tasks -> Calls] /\ c \in Calls
      /\ NumShards \in Nat
  BY AgentAssumption, Zenon DEF IInv, VariablesOK
<1>1. CASE InsertCheck(t)
  <2>1. CASE map[c.key] = None
    <3>1. call'[t] = [c EXCEPT !.shard = 1, !.count = 0] /\ pc'[t] = "len"
      BY <1>0, <1>1, <2>1, Zenon DEF InsertCheck, Set, Goto
    <3>2. call'[t].shard = 1 /\ call'[t].count = 0 /\ call'[t].evicted = c.evicted
      BY <1>0, <3>1, Zenon DEF Calls
    <3>3. QED
      BY <3>1, <3>2, AllShards, SMT DEF Evicting
  <2>2. CASE map[c.key] # None
    BY <1>0, <1>1, <2>2, Zenon DEF InsertCheck, Goto, Evicting
  <2>3. QED
    BY <2>1, <2>2, Zenon
<1>2. CASE CountShard(t)
  <2> DEFINE counted == c.count + ShardLen(c.shard)
  <2>1. pc[t] = "len" /\ c.shard \in 1..NumShards /\ c.count \in Nat
    BY <1>0, <1>2, Zenon DEF CountShard, At, IInv, LocalsOK, Calls
  <2>2. counted <= Cardinality(Below(c.shard + 1)) /\ counted \in Nat
    <3>1. c.count <= Cardinality(Below(c.shard))
      BY <2>1, Zenon DEF CountInv
    <3>2. Cardinality(Below(c.shard)) + ShardLen(c.shard) = Cardinality(Below(c.shard + 1))
      BY <2>1, OneMoreShard, Zenon
    <3>3. ShardLen(c.shard) \in Nat
      BY ShardLenType, Zenon
    <3>4. Cardinality(Below(c.shard)) \in Nat
      <4>1. Below(c.shard) \in SUBSET Keys
        BY Zenon DEF Below, Indexed
      <4>2. QED
        BY <4>1, Zenon DEF Counting
    <3>5. QED
      BY <2>1, <3>1, <3>2, <3>3, <3>4, SMTT(30)
  <2>3. CASE c.shard < NumShards
    <3>1. call'[t] = [c EXCEPT !.shard = c.shard + 1, !.count = counted] /\ pc' = pc
      BY <1>0, <1>2, <2>3, Zenon DEF CountShard, Set
    <3>2. /\ call'[t].shard = c.shard + 1 /\ call'[t].count = counted
          /\ call'[t].evicted = c.evicted
      BY <1>0, <3>1, Zenon DEF Calls
    <3>3. QED
      BY <2>1, <2>2, <3>1, <3>2, Zenon DEF Evicting
  <2>4. CASE ~(c.shard < NumShards)
    <3>1. c.shard = NumShards
      BY <1>0, <2>1, <2>4, SMT
    <3>2. Cardinality(Indexed) < TotalBlocks /\ counted <= Cardinality(Indexed)
      BY <2>1, <2>2, <3>1, RoomLeft, AllShards, ZenonT(30) DEF IInv, Holding, Inserting
    <3>3. Cardinality(Indexed) \in Nat
      <4>1. Indexed \in SUBSET Keys
        BY Zenon DEF Indexed
      <4>2. QED
        BY <4>1, Zenon DEF Counting
    <3>4. ~(counted >= TotalBlocks)
      BY <2>2, <3>2, <3>3, AllocatorAssumption, SMT
    <3>5. call'[t] = [c EXCEPT !.shard = 0, !.count = 0] /\ pc'[t] = "put"
      BY <1>0, <1>2, <2>4, <3>4, Zenon DEF CountShard, Set, Goto
    <3>6. call'[t].evicted = c.evicted
      BY <1>0, <3>5, Zenon DEF Calls
    <3>7. QED
      BY <3>5, <3>6, Zenon DEF Evicting
  <2>5. QED
    BY <2>3, <2>4, Zenon
<1>3. QED
  BY <1>1, <1>2, Zenon DEF Counts

(* Every step keeps CountInv. *)
LEMMA CountKept ==
  ASSUME Counting, IInv, CountInv, [EngineNext]_vars
  PROVE  CountInv'
<1> USE DEF NoEviction
<1>1. CASE UNCHANGED <<map, pc, call, evictions>>
  BY <1>1, Zenon DEF CountInv, Below, Indexed
<1>2. ASSUME NEW t \in Tasks, NEW u \in Tasks \ {t}, Rest(t),
             \A k \in Indexed : map'[k] # None
      PROVE  /\ pc'[u] \notin Evicting /\ call'[u].evicted = 0
             /\ pc'[u] = "len" =>
                  call'[u].count <= Cardinality({k \in Indexed' : ShardOf[k] < call'[u].shard})
  <2>1. pc'[u] = pc[u] /\ call'[u] = call[u]
    BY <1>2, Zenon DEF Rest
  <2>2. pc[u] \notin Evicting /\ call[u].evicted = 0
    BY Zenon DEF CountInv, Evicting
  <2> DEFINE s == call[u].shard
             n == Cardinality(Below(s))
             m == Cardinality({k \in Indexed' : ShardOf[k] < s})
  <2>3. n <= m
    BY <1>2, BelowGrows, Zenon
  <2>4. n \in Nat /\ m \in Nat
    <3>1. Below(s) \in SUBSET Keys /\ {k \in Indexed' : ShardOf[k] < s} \in SUBSET Keys
      BY Zenon DEF Below, Indexed
    <3>2. QED
      BY <3>1, Zenon DEF Counting
  <2>5. call[u].count \in Nat
    BY Zenon DEF IInv, VariablesOK, Calls
  <2>6. pc[u] = "len" => call[u].count <= n
    BY Zenon DEF CountInv
  <2> HIDE DEF n, m
  <2>7. pc[u] = "len" => call[u].count <= m
    BY <2>3, <2>4, <2>5, <2>6, SMT
  <2>8. QED
    BY <2>1, <2>2, <2>7, Zenon DEF m
<1>3. ASSUME NEW t \in Tasks, Counts(t)
      PROVE  CountInv'
  <2>1. Rest(t) /\ map' = map /\ evictions' = evictions /\ Indexed' = Indexed
    BY <1>3, Zenon DEF Counts, Indexed
  <2>2. \A k \in Indexed : map'[k] # None
    BY <2>1, Zenon DEF Indexed
  <2>3. /\ pc'[t] \notin Evicting /\ call'[t].evicted = 0
        /\ pc'[t] = "len" =>
             call'[t].count <= Cardinality({k \in Indexed' : ShardOf[k] < call'[t].shard})
    BY <1>3, <2>1, CountStep, Zenon DEF CountInv, Below
  <2>4. QED
    BY <1>2, <2>1, <2>2, <2>3, Zenon DEF CountInv, Below, Evicting
<1>4. ASSUME NEW t \in Tasks, Passes(t)
      PROVE  CountInv'
  <2>1. call[t].evicted = 0 /\ evictions = 0
    BY Zenon DEF CountInv
  <2>2. evictions' = 0
    BY <1>4, <2>1, SMT DEF Passes
  <2>3. call'[t].evicted = 0 /\ pc'[t] \notin Evicting /\ pc'[t] # "len"
    BY <1>4, <2>1, Zenon DEF Passes
  <2>4. Rest(t) /\ \A k \in Indexed : map'[k] # None
    BY <1>4, Zenon DEF Passes
  <2>5. QED
    BY <1>2, <2>2, <2>3, <2>4, ZenonT(30) DEF CountInv, Below, Evicting
<1>5. QED
  BY <1>1, <1>3, <1>4, CountingShapes, Zenon DEF IInv, CountInv, Evicting

----------------------------------------------------------------------------
(* Finite sets *)

INSTANCE FiniteSetTheorems

(* The sizes that the lemmas speak of. *)
LEMMA CountingHolds == Counting
<1>1. \A S \in SUBSET Keys : IsFiniteSet(S) /\ Cardinality(S) \in Nat
  BY AgentAssumption, FS_Subset, FS_CardinalityType, ZenonT(30)
<1>2. \A S \in SUBSET Keys : \A R \in SUBSET S : Cardinality(R) <= Cardinality(S)
  BY <1>1, FS_Subset, Zenon
<1>3. Cardinality({}) = 0
  BY FS_EmptySet, Zenon
<1>4. ASSUME NEW R \in SUBSET Keys, NEW S \in SUBSET Keys, R \cap S = {}
      PROVE  Cardinality(R \cup S) = Cardinality(R) + Cardinality(S)
  <2>1. Cardinality(R \cup S) = Cardinality(R) + Cardinality(S) - Cardinality({})
    BY <1>1, <1>4, FS_Union, ZenonT(30)
  <2>2. Cardinality(R) \in Nat /\ Cardinality(S) \in Nat
    BY <1>1, Zenon
  <2>3. QED
    BY <1>3, <2>1, <2>2, SMTT(30)
<1>5. IsFiniteSet(Blocks) /\ Cardinality(Blocks) = TotalBlocks
  BY AllocatorAssumption, FS_Interval, SMTT(30) DEF Blocks
<1>6. ASSUME NEW s \in Seq(Blocks), IsInjective(s)
      PROVE  Len(s) <= TotalBlocks
  <2>1. Len(s) \in Nat /\ s \in [1..Len(s) -> Blocks]
    BY LenProperties, ZenonT(30)
  <2>2. s \in Injection(1..Len(s), Blocks)
    BY <1>6, <2>1, ZenonT(30) DEF Injection
  <2>3. Cardinality(1..Len(s)) = Len(s)
    BY <2>1, FS_Interval, SMTT(30)
  <2>4. Cardinality(1..Len(s)) <= Cardinality(Blocks)
    BY <1>5, <2>2, FS_Injection, ZenonT(30)
  <2>5. QED
    BY <1>5, <2>3, <2>4, ZenonT(30)
<1>7. ASSUME NEW S \in SUBSET Keys, NEW f \in [S -> Blocks], IsInjective(f)
      PROVE  /\ Cardinality(S) <= TotalBlocks
             /\ \A b \in Blocks : (\A k \in S : f[k] # b) => Cardinality(S) < TotalBlocks
  <2>1. f \in Injection(S, Blocks)
    BY <1>7, ZenonT(30) DEF Injection
  <2>2. Cardinality(S) <= TotalBlocks
    BY <1>5, <2>1, FS_Injection, ZenonT(30)
  <2>3. ASSUME NEW b \in Blocks, \A k \in S : f[k] # b
        PROVE  Cardinality(S) < TotalBlocks
    <3>1. f \in Injection(S, Blocks \ {b})
      BY <1>7, <2>3, ZenonT(30) DEF Injection
    <3>2. IsFiniteSet(Blocks \ {b}) /\ Cardinality(Blocks \ {b}) = TotalBlocks - 1
      BY <1>5, FS_RemoveElement, ZenonT(30)
    <3>3. Cardinality(S) <= Cardinality(Blocks \ {b})
      BY <3>1, <3>2, FS_Injection, ZenonT(30)
    <3>4. QED
      BY <1>1, <3>2, <3>3, AllocatorAssumption, SMTT(30)
  <2>4. QED
    BY <2>2, <2>3, ZenonT(30)
<1>8. QED
  BY <1>1, <1>2, <1>3, <1>4, <1>6, <1>7, ZenonT(30) DEF Counting

----------------------------------------------------------------------------
(* The theorems *)

(* The inductive invariant holds in every reachable state. *)
THEOREM Invariance == Spec => []IInv
<1>1. IInv /\ [Next]_vars => IInv'
  BY CountingHolds, InvStep, ZenonT(30)
<1>2. QED
  BY InitInv, <1>1, PTL DEF Spec

(* Every variable of a cache agent keeps its type; in particular the number of
   used blocks that the monitor reads never leaves 0..TotalBlocks. *)
THEOREM TypeCorrect == Spec => []TypeOK
  BY Invariance, PTL DEF IInv, TypeOK

(* Handlers never free a block twice and never share one: MemoryPool needs no
   double-free check for the calls that grpc.rs makes. *)
THEOREM BlocksHaveOneOwner == Spec => []Ownership
  BY Invariance, PTL DEF IInv

(* Whatever the interleaving of stores, evictions and deletes, an entry of the
   index leads to a complete block written for its key. *)
THEOREM IndexIsSound == Spec => []IndexedBlocksIntact
  BY Invariance, PTL DEF IInv

(* The generation in the block header tells every stale read of a get. *)
THEOREM StaleReadsDetectable == Spec => []GenerationDetectsStaleReads
  BY Invariance, PTL DEF IInv

(* A generation names one write of one block: concurrent stores never share
   one, and the header that a store or a get relies on is not another's. *)
THEOREM GenerationsTell == Spec => []GenerationsUnique
  BY Invariance, PTL DEF IInv

(* Deletes included, the bytes behind the index are a map that changes one key
   at a time: a key has the whole payload of the last store that completed for
   it until it is replaced, evicted or deleted, and allocate, the writes of
   BlockHeader and data, and deallocate of other requests never show in it. *)
THEOREM AgentIndexIsMap == Spec => IndexIsMap
<1>1. IInv /\ [Next]_vars => [Stored!CacheNext]_(Stored!cacheVars)
  BY StoredStep, Zenon DEF Stored!cacheVars, Bytes
<1>2. QED
  BY <1>1, StoredInit, Invariance, PTL DEF Spec, IndexIsMap, Stored!CacheSpec

(* BlockIndex holds at most as many entries as there are blocks, which is its
   capacity in the agent, for any number of stores that count and insert at
   the same time: inside the agent the overshoot of insert cannot happen. *)
THEOREM AgentIndexBounded == Spec => [](Cardinality(Indexed) <= TotalBlocks)
<1>1. IInv => Cardinality(Indexed) <= TotalBlocks
  BY CountingHolds, WithinCapacity, ZenonT(30)
<1>2. QED
  BY <1>1, Invariance, PTL

(* No handler forgets a block, on success or on error: only the eviction or
   the replacement of an index entry loses the block of that entry. *)
THEOREM BlocksLostWithEntriesOnly == Spec => LostWithEntriesOnly
<1>1. IInv /\ [Next]_vars =>
        [\A b \in Blocks :
           /\ Accounted(b)' => Accounted(b)
           /\ Accounted(b) /\ ~Accounted(b)' =>
                \E k \in Indexed, t \in Tasks :
                  /\ map[k].block = b
                  /\ \/ At(t, "drop") /\ call[t].victim = k
                     \/ At(t, "put") /\ call[t].key = k
                  /\ pc'[t] # pc[t]]_vars
  BY LossStep, Zenon DEF Loss, LostWith
<1>2. QED
  BY Invariance, <1>1, PTL DEF Spec, LostWithEntriesOnly

(* Only a delete that lost its key to a new store leaves an entry that the
   eviction loop cannot reach, for any number of tasks, keys and blocks. *)
THEOREM OnlyRemoveOrphans == Spec => OrphanedByRemoveOnly
<1>1. IInv /\ [Next]_vars =>
        [\A k \in Keys : Reachable(k) /\ ~Reachable(k)' =>
           \E t \in Tasks :
             At(t, "unlink") /\ call[t].key = k /\ pc'[t] # pc[t]]_indexVars
  BY ReachStep, ZenonT(30)
<1> QED
  BY Invariance, <1>1, PTL DEF Spec, OrphanedByRemoveOnly

(* The invariant of an agent whose clients do not delete. *)
THEOREM EngineInvariance == EngineSpec => []EngineInv
<1>1. Init => EngineInv
  <2> SUFFICES ASSUME Init PROVE EngineInv
    BY Zenon
  <2>1. \A t \in Tasks : pc[t] = "idle"
    BY Zenon DEF Init, IndexInit
  <2>2. QED
    BY <2>1, InitInv, ZenonT(30) DEF EngineInv, SafeRead, Reading
<1>2. EngineInv /\ [EngineNext]_vars => EngineInv'
  <2> SUFFICES ASSUME EngineInv, [EngineNext]_vars PROVE EngineInv'
    BY Zenon
  <2>1. IInv /\ [Next]_vars
    BY Zenon DEF EngineInv, Next
  <2>2. IInv'
    BY <2>1, CountingHolds, InvStep, ZenonT(30)
  <2>3. QED
    BY <2>2, NobodyDeletes, SafeStep, ZenonT(30) DEF EngineInv
<1>3. QED
  BY <1>1, <1>2, PTL DEF EngineSpec

(* Without deletes no get ends with DATA_LOSS. *)
THEOREM GetsAlwaysVerify == EngineSpec => []GetsVerify
<1>1. EngineInv => GetsVerify
  <2> SUFFICES ASSUME EngineInv, NEW t \in Tasks, pc[t] = "verify"
               PROVE  Verifies(t)
    BY Zenon DEF GetsVerify, At
  <2>1. pc[t] \in Reading /\ SafeRead(t)
    BY Zenon DEF Reading, EngineInv
  <2>2. /\ buf[t] = written[call[t].entry.gen].data
        /\ mem[call[t].entry.block].data = written[call[t].entry.gen].data
        /\ written[call[t].entry.gen].data \in Data
    BY <2>1, SafeReadIntact, ZenonT(30) DEF SafeRead, Intact
  <2>3. QED
    BY <2>2, AllocatorAssumption, ZenonT(30) DEF Verifies
<1>2. QED
  BY EngineInvariance, <1>1, PTL

(* As long as nobody deletes, a get returns a payload that was stored for the
   key it asked for; with deletes it may return that of another key. *)
THEOREM EngineGetsOwnKey == EngineSpec => []GetReturnsOwnKey
<1>1. EngineInv => GetReturnsOwnKey
  BY OwnKey, ZenonT(30)
<1>2. QED
  BY <1>1, EngineInvariance, PTL

(* For clients that do not delete an agent keeps the promise of Cache: a get
   answers with the payload that its key had when it was looked up, whatever
   is stored, replaced or evicted before the answer is complete. *)
THEOREM AgentImplementsCache == EngineSpec => ImplementsCache
<1>1. Init => Promise!CacheInit
  <2> SUFFICES ASSUME Init PROVE Promise!CacheInit
    BY Zenon
  <2>1. (\A k \in Keys : map[k] = None) /\ \A t \in Tasks : pc[t] = "idle"
    BY Zenon DEF Init, IndexInit
  <2>2. \A k \in Keys : ContentOf(k) = None
    BY <2>1, ZenonT(30) DEF ContentOf
  <2>3. \A t \in Tasks : AnswerOf(t) = None
    BY <2>1, ZenonT(30) DEF AnswerOf, At, Reading
  <2>4. QED
    BY <2>2, <2>3, ZenonT(30) DEF Promise!CacheInit
<1>2. EngineInv /\ EngineInv' /\ [EngineNext]_vars => [Promise!CacheNext]_(Promise!cacheVars)
  BY CacheStep, ZenonT(30) DEF Promise!cacheVars, Contents, Answers
<1>3. QED
  BY <1>1, <1>2, EngineInvariance, PTL DEF EngineSpec, ImplementsCache, Promise!CacheSpec

(* For clients that do not delete, the eviction loop of BlockIndex::insert is
   never entered, however many stores count and insert at the same time: the
   sum of DashMap::len may miss entries but never reaches the capacity.  A full
   store refuses new blocks and keeps the old ones. *)
THEOREM EngineNeverEvicts == EngineSpec => []NoEviction
<1>1. Init => CountInv
  <2> SUFFICES ASSUME Init PROVE CountInv
    BY Zenon
  <2>1. \A t \in Tasks : pc[t] = "idle" /\ call[t] = NoCall
    BY ZenonT(30) DEF Init, IndexInit
  <2>2. \A t \in Tasks : call[t].evicted = 0
    BY <2>1, SMTT(30) DEF NoCall
  <2>3. evictions = 0
    BY Zenon DEF Init
  <2>4. QED
    BY <2>1, <2>2, <2>3, ZenonT(30) DEF CountInv, NoEviction, Evicting
<1>2. EngineInv /\ CountInv /\ [EngineNext]_vars => CountInv'
  BY CountingHolds, CountKept, ZenonT(30) DEF EngineInv
<1>3. CountInv => NoEviction
  BY Zenon DEF CountInv
<1>4. QED
  BY <1>1, <1>2, <1>3, EngineInvariance, PTL DEF EngineSpec
=============================================================================
