------------------------------- MODULE Cache --------------------------------
(***************************************************************************)
(* What a cache agent promises to the engines that share it: a map from    *)
(* keys to payloads in which any key may be missing at any time, and a get *)
(* that answers with the payload its key had when the get was opened,      *)
(* whatever is stored or evicted before the answer is complete.            *)
(*                                                                         *)
(* CacheAgent implements it for clients that do not delete; the engine     *)
(* connectors are specified over it.                                       *)
(***************************************************************************)
CONSTANTS Keys, Payloads,
          Readers,   \* calls of get that can be open at once
          None

VARIABLES content,   \* key -> payload, or None
          answer     \* for each reader the payload its get returns, or None

cacheVars == <<content, answer>>

CacheInit ==
  /\ content = [k \in Keys |-> None]
  /\ answer = [r \in Readers |-> None]

(* A store takes effect; a payload under the key is replaced. *)
Put(k, d) ==
  /\ content' = [content EXCEPT ![k] = d]
  /\ UNCHANGED answer

(* Eviction; not announced to anybody. *)
Vanish(k) ==
  /\ content' = [content EXCEPT ![k] = None]
  /\ UNCHANGED answer

Open(r, k) ==
  /\ answer[r] = None
  /\ content[k] # None
  /\ answer' = [answer EXCEPT ![r] = content[k]]
  /\ UNCHANGED content

(* The answer is delivered, or the client went away. *)
Close(r) ==
  /\ answer' = [answer EXCEPT ![r] = None]
  /\ UNCHANGED content

CacheNext ==
  \/ \E k \in Keys : Vanish(k) \/ \E d \in Payloads : Put(k, d)
  \/ \E r \in Readers : Close(r) \/ \E k \in Keys : Open(r, k)

CacheSpec == CacheInit /\ [][CacheNext]_cacheVars
=============================================================================
