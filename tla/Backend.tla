------------------------------ MODULE Backend -------------------------------
(***************************************************************************)
(* The storage backends for LMCache (put, contains, get) and for SGLang    *)
(* (set, exist, get), over the cache that an agent promises. Both have the *)
(* same body: they hash a string key and call the synchronous client. The  *)
(* client sends model_id with Store only; the agent takes a missing        *)
(* model_id as NoModel.                                                    *)
(***************************************************************************)
EXTENDS Cache

CONSTANTS Strings,      \* keys of the callers, each with a hash of its own
          Backends,
          ModelOf,      \* backend -> model_id of its constructor
          NoModel

ASSUME ModelAssumption ==
  /\ None \notin Backends
  /\ Backends \subseteq Readers
  /\ \A b \in Backends : ModelOf[b] # None
  /\ \A b \in Backends, s \in Strings : {<<NoModel, s>>, <<ModelOf[b], s>>} \subseteq Keys

VARIABLES asked,   \* backend -> the key its get has found, or None
          late,    \* <<b, s>> of stores that failed and may still take effect
          kept,    \* history: <<b, s>> put by b and not evicted since
          missed   \* history: <<b, s>> that b was last told is not there

backendVars == <<asked, late, kept, missed, cacheVars>>

(* Where Store puts a key, and where Lookup and Get look for it. *)
StoreKey(b, s) == <<ModelOf[b], s>>
LookupKey(s) == <<NoModel, s>>

BackendInit ==
  /\ CacheInit
  /\ asked = [b \in Backends |-> None]
  /\ late = {}
  /\ kept = {}
  /\ missed = {}

(* A backend makes one call at a time. A call that raises and leaves nothing *)
(* behind is not a step.                                                   *)
Ready(b) == asked[b] = None /\ answer[b] = None

put(b, s) ==
  /\ Ready(b)
  /\ Put(StoreKey(b, s), b)
  /\ kept' = kept \cup {<<b, s>>}
  /\ missed' = missed \ {<<b, s>>}
  /\ UNCHANGED <<asked, late>>

(* put raises: success = False becomes a RuntimeError, gRPC errors pass    *)
(* through. When the deadline cut the call off, the agent may still be at  *)
(* work on it.                                                             *)
PutFails(b, s) ==
  /\ Ready(b)
  /\ late' = late \cup {<<b, s>>}
  /\ UNCHANGED <<asked, kept, missed, cacheVars>>

LateStore(b, s) ==
  /\ <<b, s>> \in late
  /\ Put(StoreKey(b, s), b)
  /\ late' = late \ {<<b, s>>}
  /\ UNCHANGED <<asked, kept, missed>>

(* What Lookup may answer: a key the agent does not have may be one the    *)
(* remote index places at another agent.                                   *)
Answers(s) == {content[LookupKey(s)] # None, TRUE}

contains(b, s) ==
  /\ Ready(b)
  /\ \E found \in Answers(s) :
       missed' = IF found THEN missed \ {<<b, s>>} ELSE missed \cup {<<b, s>>}
  /\ UNCHANGED <<asked, late, kept, cacheVars>>

(* Mutant: the hit is taken for a miss. *)
GetLookupInverted(b, s) ==
  /\ Ready(b)
  /\ \E found \in Answers(s) :
       IF found THEN missed' = missed \cup {<<b, s>>} /\ UNCHANGED asked
                ELSE asked' = [asked EXCEPT ![b] = s] /\ UNCHANGED missed
  /\ UNCHANGED <<late, kept, cacheVars>>

(* The lookup of get: without a hit get returns None. *)
GetLookup(b, s) ==
  /\ Ready(b)
  /\ \E found \in Answers(s) :
       IF found THEN asked' = [asked EXCEPT ![b] = s] /\ UNCHANGED missed
                ELSE missed' = missed \cup {<<b, s>>} /\ UNCHANGED asked
  /\ UNCHANGED <<late, kept, cacheVars>>

GetStream(b) ==
  /\ asked[b] # None
  /\ Open(b, LookupKey(asked[b]))
  /\ asked' = [asked EXCEPT ![b] = None]
  /\ UNCHANGED <<late, kept, missed>>

(* NOT_FOUND, when the key is at another agent or was evicted since the    *)
(* lookup, and every other gRPC error: client.get catches none.            *)
GetRaises(b) ==
  /\ asked[b] # None
  /\ asked' = [asked EXCEPT ![b] = None]
  /\ UNCHANGED <<late, kept, missed, cacheVars>>

(* The stream ends, or breaks and get raises. *)
GetEnds(b) ==
  /\ answer[b] # None
  /\ Close(b)
  /\ UNCHANGED <<asked, late, kept, missed>>

(* Eviction by the agent. *)
Evict(k) ==
  /\ content[k] # None
  /\ Vanish(k)
  /\ kept' = {p \in kept : StoreKey(p[1], p[2]) # k}
  /\ UNCHANGED <<asked, late, missed>>

BackendNext ==
  \/ \E b \in Backends :
       \/ \E s \in Strings :
            \/ put(b, s) \/ PutFails(b, s) \/ LateStore(b, s)
            \/ contains(b, s) \/ GetLookup(b, s)
       \/ GetStream(b) \/ GetRaises(b) \/ GetEnds(b)
  \/ \E k \in Keys : Evict(k)

BackendSpec == BackendInit /\ [][BackendNext]_backendVars

-----------------------------------------------------------------------------
(* contains and get find what the backend itself has put, as long as it is *)
(* not evicted, whatever others put meanwhile. Only for backends without a *)
(* model_id: what the others put is stored under a key they never ask for. *)
PutsAreFound == \A p \in kept \cap missed : ModelOf[p[1]] # NoModel
=============================================================================
