--------------------------- MODULE VllmConnector ----------------------------
(***************************************************************************)
(* The vLLM connector over the cache that an agent promises (module Cache).*)
(*                                                                         *)
(* The scheduler half asks which blocks of a prompt are cached, records    *)
(* what is to be loaded and packs the loads and saves of a step into its   *)
(* metadata. The worker half runs the forward pass of a step, layer by     *)
(* layer, with loads and stores in flight on an event loop. vLLM decides   *)
(* when it calls, which requests a step schedules and which are finished.  *)
(***************************************************************************)
EXTENDS Cache, Naturals, Sequences, FiniteSets, FiniteSetsExt

CONSTANTS Requests,
          Prompt,       \* request -> its prompt_token_ids
          BlockSize,
          ModelId,      \* model_id of this connector
          Layers,       \* number of layers of the model
          MaxSteps,     \* bound on the forward passes
          Foreign       \* any payload another program stored

ASSUME VllmAssumption ==
  /\ BlockSize \in Nat \ {0}
  /\ Layers \in Nat \ {0}
  /\ MaxSteps \in Nat
  /\ \A r \in Requests : Prompt[r] \in Seq(Range(Prompt[r]))

VARIABLES phase,         \* where the scheduler is with each request
          computed,      \* num_computed_tokens of its lookup
          found,         \* what batch_lookup has answered so far
          tasks,         \* hashes in request._cmx_load_tasks; {} without it
          metas,         \* what build_connector_meta returned, step by step
          worker,        \* next call of the worker
          layer,         \* the layer it is at
          current_meta,  \* step whose metadata _current_meta is; 0 for None
          pending_loads, \* keys of _pending_loads
          pending_saves, \* futures in _pending_saves
          stores         \* Store calls that may still take effect

schedulerVars == <<phase, computed, found, tasks>>
workerVars == <<worker, layer, current_meta, pending_loads, pending_saves>>
vllmVars == <<schedulerVars, metas, workerVars, stores, cacheVars>>

-----------------------------------------------------------------------------
(* SHA-256 of each block's own tokens, the last block possibly partial.    *)
(* Equal blocks have equal hashes; different ones are taken to differ.     *)
hash_token_ids(s, size) ==
  [i \in 1..((Len(s) + size - 1) \div size) |->
     SubSeq(s, (i - 1) * size + 1, Min({i * size, Len(s)}))]

(* token_ids[:n] and token_ids[n:] *)
UpTo(s, n) == SubSeq(s, 1, Min({n, Len(s)}))
From(s, n) == SubSeq(s, n + 1, Len(s))

Key(h) == <<ModelId, h>>

(* The hashes get_num_new_matched_tokens asks for. *)
Asked(r) == hash_token_ids(From(Prompt[r], computed[r]), BlockSize)

(* Mutant: every hit counts. *)
MatchedAnywhere(hits) ==
  BlockSize * Cardinality({i \in 1..Len(hits) : hits[i]})

(* Contiguous hits from the start, in tokens; a partial block counts full. *)
Matched(hits) ==
  BlockSize * Cardinality({i \in 1..Len(hits) : \A j \in 1..i : hits[j]})

(* Hashes of the prompts, and of what is left of them after whole blocks. *)
TokenHashes ==
  UNION {Range(hash_token_ids(From(Prompt[r], n), BlockSize)) :
           r \in Requests, n \in {0, BlockSize}}

ASSUME KeysAssumption == {Key(h) : h \in TokenHashes} \subseteq Keys

VllmInit ==
  /\ CacheInit
  /\ phase = [r \in Requests |-> "new"]
  /\ computed = [r \in Requests |-> 0]
  /\ found = [r \in Requests |-> <<>>]
  /\ tasks = [r \in Requests |-> {}]
  /\ metas = <<>>
  /\ worker = "idle"
  /\ layer = 1
  /\ current_meta = 0
  /\ pending_loads = {}
  /\ pending_saves = {}
  /\ stores = {}

-----------------------------------------------------------------------------
(* Scheduler. Its calls block, so one lookup runs at a time.               *)

SchedulerFree == \A r \in Requests : phase[r] # "lookup"

(* get_num_new_matched_tokens; vLLM has computed n tokens, whole blocks. *)
MatchBegin(r, n) ==
  /\ SchedulerFree
  /\ phase[r] = "new"
  /\ n \in {0, BlockSize}
  /\ computed' = [computed EXCEPT ![r] = n]
  /\ phase' = [phase EXCEPT ![r] =
                 IF From(Prompt[r], n) = <<>> THEN "matched" ELSE "lookup"]
  /\ UNCHANGED <<found, tasks, metas, workerVars, stores, cacheVars>>

(* The agent looks up one hash after the other. *)
MatchHash(r) ==
  /\ phase[r] = "lookup"
  /\ LET h == Asked(r)[Len(found[r]) + 1]
         hits == Append(found[r], content[Key(h)] # None)
     IN /\ found' = [found EXCEPT ![r] = hits]
        /\ phase' = [phase EXCEPT ![r] =
                       IF Len(hits) = Len(Asked(r)) THEN "matched" ELSE @]
  /\ UNCHANGED <<computed, tasks, metas, workerVars, stores, cacheVars>>

(* No answer within five seconds, or an error: the exception is not caught *)
(* and vLLM gives the request up.                                          *)
MatchFails(r) ==
  /\ phase[r] = "lookup"
  /\ phase' = [phase EXCEPT ![r] = "failed"]
  /\ UNCHANGED <<computed, found, tasks, metas, workerVars, stores, cacheVars>>

(* num_external_tokens is what the match returned. *)
update_state_after_alloc(r) ==
  /\ SchedulerFree
  /\ phase[r] = "matched"
  /\ tasks' = [tasks EXCEPT ![r] = @ \cup
       Range(hash_token_ids(UpTo(Prompt[r], Matched(found[r])), BlockSize))]
  /\ phase' = [phase EXCEPT ![r] = "running"]
  /\ UNCHANGED <<computed, found, metas, workerVars, stores, cacheVars>>

(* Mutant: the load tasks stay with the request. *)
build_connector_meta_keeps(S, F) ==
  /\ SchedulerFree
  /\ worker = "idle"
  /\ Len(metas) < MaxSteps
  /\ metas' = Append(metas,
       [loads |-> UNION {{r} \X tasks[r] : r \in S},
        saves |-> UNION {Range(hash_token_ids(Prompt[r], BlockSize)) : r \in F}])
  /\ phase' = [r \in Requests |-> CASE r \in S -> "ran"
                                    [] r \in F -> "finished"
                                    [] OTHER -> phase[r]]
  /\ worker' = "start"
  /\ UNCHANGED <<computed, found, tasks, layer, current_meta, pending_loads,
                 pending_saves, stores, cacheVars>>

(* A step that schedules the requests S, after those in F have finished. *)
build_connector_meta(S, F) ==
  /\ SchedulerFree
  /\ worker = "idle"
  /\ Len(metas) < MaxSteps
  /\ metas' = Append(metas,
       [loads |-> UNION {{r} \X tasks[r] : r \in S},
        saves |-> UNION {Range(hash_token_ids(Prompt[r], BlockSize)) : r \in F}])
  /\ tasks' = [r \in Requests |-> IF r \in S THEN {} ELSE tasks[r]]
  /\ phase' = [r \in Requests |-> CASE r \in S -> "ran"
                                    [] r \in F -> "finished"
                                    [] OTHER -> phase[r]]
  /\ worker' = "start"
  /\ UNCHANGED <<computed, found, layer, current_meta, pending_loads,
                 pending_saves, stores, cacheVars>>

SchedulerStep ==
  \/ \E r \in Requests :
       \/ \E n \in {0, BlockSize} : MatchBegin(r, n)
       \/ MatchHash(r)
       \/ MatchFails(r)
       \/ update_state_after_alloc(r)
  \/ \E S \in SUBSET {r \in Requests : phase[r] \in {"running", "ran"}} :
       \E F \in SUBSET {r \in Requests \ S : phase[r] = "ran"} :
         build_connector_meta(S, F)

-----------------------------------------------------------------------------
(* Worker. The bytes a load returns are not used, so of a load only its    *)
(* future counts. Every wait has a timeout and may end at any time.        *)

Meta == metas[Len(metas)]

start_load_kv ==
  /\ worker = "start"
  /\ worker' = "layer"
  /\ IF Meta.loads = {}
     THEN UNCHANGED <<current_meta, pending_loads>>
     ELSE /\ current_meta' = Len(metas)
          /\ pending_loads' = pending_loads \cup {l[2] : l \in Meta.loads}
  /\ UNCHANGED <<schedulerVars, metas, layer, pending_saves, stores, cacheVars>>

wait_for_layer_load ==
  /\ worker = "layer"
  /\ worker' = "save"
  /\ pending_loads' = {}
  /\ UNCHANGED <<schedulerVars, metas, layer, current_meta, pending_saves,
                 stores, cacheVars>>

NextLayer ==
  IF layer < Layers
  THEN layer' = layer + 1 /\ worker' = "layer"
  ELSE layer' = 1 /\ worker' = "wait"

(* Every layer is stored under the same hashes. The tensor that is stored  *)
(* is that of the running step, whichever step the metadata is of.         *)
save_kv_layer ==
  /\ worker = "save"
  /\ LET saves == IF current_meta = 0 THEN {} ELSE metas[current_meta].saves
         started == {[hash |-> h, step |-> Len(metas), layer |-> layer] :
                       h \in saves}
     IN /\ pending_saves' = pending_saves \cup started
        /\ stores' = stores \cup started
  /\ NextLayer
  /\ UNCHANGED <<schedulerVars, metas, current_meta, pending_loads, cacheVars>>

(* Mutant: the metadata outlives its step. *)
wait_for_save_keeps ==
  /\ worker = "wait"
  /\ worker' = "idle"
  /\ pending_saves' = {}
  /\ UNCHANGED <<schedulerVars, metas, layer, current_meta, pending_loads,
                 stores, cacheVars>>

(* Mutant: waits without a timeout. *)
wait_for_save_forever ==
  /\ worker = "wait"
  /\ pending_saves \cap stores = {}
  /\ worker' = "idle"
  /\ pending_saves' = {}
  /\ current_meta' = 0
  /\ UNCHANGED <<schedulerVars, metas, layer, pending_loads, stores, cacheVars>>

wait_for_save ==
  /\ worker = "wait"
  /\ worker' = "idle"
  /\ pending_saves' = {}
  /\ current_meta' = 0
  /\ UNCHANGED <<schedulerVars, metas, layer, pending_loads, stores, cacheVars>>

WorkerStep ==
  start_load_kv \/ wait_for_layer_load \/ save_kv_layer \/ wait_for_save

(* A Store call takes effect at the agent, perhaps after the client gave   *)
(* up, or is refused or lost.                                              *)
StoreEnds(s) ==
  /\ stores' = stores \ {s}
  /\ Put(Key(s.hash), s.step) \/ UNCHANGED cacheVars
  /\ UNCHANGED <<schedulerVars, metas, workerVars>>

(* Other programs store under the same model, and the agent evicts. *)
Others ==
  /\ \E h \in TokenHashes :
       \/ content[Key(h)] = None /\ Put(Key(h), Foreign)
       \/ Vanish(Key(h))
  /\ UNCHANGED <<schedulerVars, metas, workerVars, stores>>

VllmNext ==
  \/ SchedulerStep
  \/ WorkerStep
  \/ \E s \in stores : StoreEnds(s)
  \/ Others

(* vLLM calls the methods of a forward pass one after the other, and every *)
(* wait of the connector is bounded by a timeout. Nothing is assumed of    *)
(* the agent.                                                              *)
VllmSpec ==
  /\ VllmInit
  /\ [][VllmNext]_vllmVars
  /\ WF_vllmVars(WorkerStep)
  /\ \A r \in Requests : WF_vllmVars(MatchFails(r))

-----------------------------------------------------------------------------
(* A request of which vLLM had computed nothing loads only blocks that its *)
(* own lookup found: a block after the first miss is not loaded.           *)
LoadsWereFound ==
  \A r \in Requests, h \in TokenHashes :
    /\ computed[r] = 0
    /\ h \in tasks[r] \/ \E i \in 1..Len(metas) : <<r, h>> \in metas[i].loads
    => \E i \in 1..Len(found[r]) : found[r][i] /\ Asked(r)[i] = h

(* A load task reaches the workers in one step only, however often its     *)
(* request is scheduled.                                                   *)
LoadedOnce ==
  \A i, j \in 1..Len(metas) : i # j => metas[i].loads \cap metas[j].loads = {}

(* What the connector stores, or may still store late, was computed in a   *)
(* step whose own metadata asked for that hash; and that step had loads,   *)
(* because start_load_kv keeps the metadata of no other.                   *)
SavesBelongToTheirStep ==
  LET Ordered(h, s) == h \in metas[s].saves /\ metas[s].loads # {} IN
  /\ \A s \in stores : Ordered(s.hash, s.step)
  /\ \A h \in TokenHashes :
       content[Key(h)] \notin {None, Foreign} => Ordered(h, content[Key(h)])

(* Forward passes and lookups end, whatever the agent does: each future is *)
(* waited for with a timeout.                                              *)
CallsEnd ==
  /\ worker # "idle" ~> worker = "idle"
  /\ \A r \in Requests : phase[r] = "lookup" ~> phase[r] # "lookup"
=============================================================================
