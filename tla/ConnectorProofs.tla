-------------------------- MODULE ConnectorProofs ---------------------------
(***************************************************************************)
(* Theorems about the connectors of the inference engines over the cache   *)
(* of an agent: the string-keyed backends (module Backend) and the vLLM    *)
(* connector (module VllmConnector).                                       *)
(***************************************************************************)
EXTENDS Backend, VllmConnector, FiniteSetTheorems, SequenceTheorems, TLAPS

----------------------------------------------------------------------------
(* Backends *)

(* What holds between the cache and the history of the backends: a key put *)
(* and not evicted is in the cache, and a backend without a model has not  *)
(* been told of a miss since its last put.                                 *)
BackendInv ==
  /\ content \in [Keys -> Backends \cup {None}]
  /\ late \subseteq Backends \X Strings
  /\ kept \subseteq Backends \X Strings
  /\ \A p \in kept : content[StoreKey(p[1], p[2])] # None
  /\ PutsAreFound

(* BackendInv is an invariant: no call of a backend, and no eviction,      *)
(* breaks it.                                                              *)
THEOREM BackendInvariant == BackendSpec => []BackendInv
<1>1. BackendInit => BackendInv
  BY ZenonT(30), ModelAssumption DEF BackendInit, CacheInit, BackendInv, PutsAreFound
<1>2. BackendInv /\ [BackendNext]_backendVars => BackendInv'
  <2> SUFFICES ASSUME BackendInv, [BackendNext]_backendVars
               PROVE  BackendInv'
    OBVIOUS
  <2> USE ModelAssumption
  <2>1. ASSUME NEW b \in Backends, NEW s \in Strings, Put(StoreKey(b, s), b)
        PROVE  /\ content' \in [Keys -> Backends \cup {None}]
               /\ content'[StoreKey(b, s)] # None
               /\ \A p \in kept : content'[StoreKey(p[1], p[2])] # None
    <3> DEFINE k == StoreKey(b, s)
    <3>1. k \in Keys
      BY Zenon DEF StoreKey
    <3>2. /\ content' \in [Keys -> Backends \cup {None}]
          /\ \A l \in Keys : content'[l] = IF l = k THEN b ELSE content[l]
      BY <2>1, <3>1 DEF BackendInv, Put
    <3>3. \A p \in kept : StoreKey(p[1], p[2]) \in Keys
      BY Zenon DEF BackendInv, StoreKey
    <3> QED
      BY <3>1, <3>2, <3>3, Zenon DEF BackendInv
  <2>2. ASSUME NEW b \in Backends, NEW s \in Strings, put(b, s)
        PROVE  BackendInv'
    <3>1. Put(StoreKey(b, s), b)
      BY <2>2, Zenon DEF put
    <3>2. \A p \in kept' : content'[StoreKey(p[1], p[2])] # None
      BY <2>1, <2>2, <3>1 DEF put
    <3>3. PutsAreFound'
      BY <2>2 DEF put, BackendInv, PutsAreFound
    <3> QED
      BY <2>1, <2>2, <3>1, <3>2, <3>3 DEF BackendInv, put
  <2>3. ASSUME NEW b \in Backends, NEW s \in Strings, LateStore(b, s)
        PROVE  BackendInv'
    BY <2>1, <2>3 DEF BackendInv, LateStore, PutsAreFound, StoreKey
  <2>4. ASSUME NEW b \in Backends, NEW s \in Strings,
               UNCHANGED <<late, kept, cacheVars>>,
               \/ missed' \subseteq missed
               \/ content[LookupKey(s)] = None /\ missed' = missed \cup {<<b, s>>}
        PROVE  BackendInv'
    BY <2>4 DEF BackendInv, cacheVars, LookupKey, StoreKey, PutsAreFound
  <2>5. ASSUME NEW b \in Backends, NEW s \in Strings, contains(b, s)
        PROVE  BackendInv'
    BY <2>4, <2>5, Zenon DEF contains, Answers
  <2>6. ASSUME NEW b \in Backends, NEW s \in Strings, GetLookup(b, s)
        PROVE  BackendInv'
    BY <2>4, <2>6, Zenon DEF GetLookup, Answers
  <2>7. ASSUME NEW b \in Backends, NEW s \in Strings, PutFails(b, s)
        PROVE  BackendInv'
    BY <2>7 DEF BackendInv, PutFails, cacheVars, StoreKey, PutsAreFound
  <2>8. ASSUME NEW b \in Backends, GetStream(b)
        PROVE  BackendInv'
    BY <2>8, Zenon DEF BackendInv, GetStream, Open, StoreKey, PutsAreFound
  <2>9. ASSUME NEW b \in Backends, GetRaises(b)
        PROVE  BackendInv'
    BY <2>9 DEF BackendInv, GetRaises, cacheVars, StoreKey, PutsAreFound
  <2>10. ASSUME NEW b \in Backends, GetEnds(b)
        PROVE  BackendInv'
    BY <2>10 DEF BackendInv, GetEnds, Close, StoreKey, PutsAreFound
  <2>11. ASSUME NEW k \in Keys, Evict(k)
        PROVE  BackendInv'
    BY <2>11 DEF BackendInv, Evict, Vanish, StoreKey, PutsAreFound
  <2>12. CASE UNCHANGED backendVars
    BY <2>12 DEF backendVars, cacheVars, BackendInv, StoreKey, PutsAreFound
  <2> QED
    BY Zenon, <2>2, <2>3, <2>5, <2>6, <2>7, <2>8, <2>9, <2>10, <2>11, <2>12
       DEF BackendNext
<1> QED
  BY <1>1, <1>2, PTL DEF BackendSpec

(* A backend without a model_id finds whatever it has put and what was not *)
(* evicted since, for any number of backends, models and strings.          *)
THEOREM PutsFound == BackendSpec => []PutsAreFound
<1>1. BackendInv => PutsAreFound
  BY DEF BackendInv
<1> QED
  BY <1>1, BackendInvariant, PTL

----------------------------------------------------------------------------
(* The vLLM connector *)

Hashes == UNION {Seq(Range(Prompt[r])) : r \in Requests}

Phases == {"new", "lookup", "failed", "matched", "running", "ran", "finished"}

(* The types of what the scheduler and the worker keep.                    *)
ConnectorTypes ==
  /\ DOMAIN content = Keys
  /\ phase \in [Requests -> Phases]
  /\ computed \in [Requests -> {0, BlockSize}]
  /\ found \in [Requests -> Seq(BOOLEAN)]
  /\ tasks \in [Requests -> SUBSET Hashes]
  /\ metas \in Seq([loads : SUBSET (Requests \X Hashes), saves : SUBSET Hashes])
  /\ current_meta \in Nat

(* The lookup of request r found hash h, or vLLM had computed a block.     *)
WasFound(r, h) ==
  computed[r] = 0 => \E i \in 1..Len(found[r]) : found[r][i] /\ Asked(r)[i] = h

(* A request has load tasks only between its allocation and the first step *)
(* that schedules it, steps have loads only of requests scheduled before,  *)
(* and every load was found.                                               *)
TasksInv ==
  /\ \A r \in Requests : tasks[r] # {} => phase[r] = "running"
  /\ \A r \in Requests : \A h \in tasks[r] : WasFound(r, h)
  /\ \A i \in 1..Len(metas) : \A l \in metas[i].loads :
       phase[l[1]] \in {"ran", "finished"} /\ WasFound(l[1], l[2])
  /\ LoadedOnce

AskedToSave(h, s) ==
  s \in 1..Len(metas) /\ h \in metas[s].saves /\ metas[s].loads # {}

(* The worker holds the metadata of the running step or none, and what it  *)
(* stores was asked for by the step that computed it.                      *)
MetaInv ==
  /\ worker # "idle" => metas # <<>>
  /\ worker \in {"idle", "start"} => current_meta = 0
  /\ current_meta # 0 => /\ current_meta = Len(metas)
                         /\ metas[current_meta].loads # {}
  /\ \A s \in stores : AskedToSave(s.hash, s.step)
  /\ \A h \in TokenHashes :
       content[Key(h)] \notin {None, Foreign} => AskedToSave(h, content[Key(h)])

VllmInv == ConnectorTypes /\ TasksInv /\ MetaInv

(* Min of two numbers, as hash_token_ids and token_ids[:n] take it.        *)
LEMMA MinOfTwo ==
  ASSUME NEW a \in Nat, NEW b \in Nat
  PROVE  Min({a, b}) = IF a <= b THEN a ELSE b
<1>1. \A x \in {a, b} : (\A y \in {a, b} : x <= y) <=> x = IF a <= b THEN a ELSE b
  OBVIOUS
<1> QED
  BY <1>1, Zenon DEF Min

(* A sequence of l tokens has an i-th block when more than i - 1 blocks do *)
(* not hold it: the rounding of hash_token_ids.                            *)
LEMMA BlockCount ==
  ASSUME NEW l \in Nat, NEW i \in Nat \ {0}
  PROVE  /\ (l + BlockSize - 1) \div BlockSize \in Nat
         /\ i <= (l + BlockSize - 1) \div BlockSize <=> (i - 1) * BlockSize < l
<1> DEFINE q == (l + BlockSize - 1) \div BlockSize
<1>0. BlockSize \in Nat \ {0} /\ l + BlockSize - 1 \in Nat
  BY VllmAssumption
<1>1. /\ q \in Nat
      /\ BlockSize * q <= l + BlockSize - 1
      /\ l + BlockSize - 1 < BlockSize * q + BlockSize
  BY <1>0, Z3
<1> HIDE DEF q
<1>2. ASSUME i <= q  PROVE (i - 1) * BlockSize < l
  BY <1>0, <1>1, <1>2, Z3
<1>3. ASSUME (i - 1) * BlockSize < l, i > q  PROVE FALSE
  <2>1. (i - 1) * BlockSize >= q * BlockSize
    BY <1>0, <1>1, <1>3, Z3
  <2> QED
    BY <1>0, <1>1, <1>3, <2>1, Z3
<1>4. i <= q <=> (i - 1) * BlockSize < l
  BY <1>0, <1>1, <1>2, <1>3, Z3
<1> QED
  BY <1>1, <1>4 DEF q

(* hash_token_ids gives one hash per block, each of the tokens of its own  *)
(* block.                                                                  *)
LEMMA HashesOfBlocks ==
  ASSUME NEW S, NEW s \in Seq(S)
  PROVE  /\ hash_token_ids(s, BlockSize) \in Seq(Seq(S))
         /\ \A i \in Nat \ {0} : i <= Len(hash_token_ids(s, BlockSize))
                                  <=> (i - 1) * BlockSize < Len(s)
         /\ \A i \in 1..Len(hash_token_ids(s, BlockSize)) :
              hash_token_ids(s, BlockSize)[i] =
                SubSeq(s, (i - 1) * BlockSize + 1, Min({i * BlockSize, Len(s)}))
<1> DEFINE q == (Len(s) + BlockSize - 1) \div BlockSize
           block(i) == SubSeq(s, (i - 1) * BlockSize + 1, Min({i * BlockSize, Len(s)}))
<1>1. q \in Nat /\ \A i \in Nat \ {0} : i <= q <=> (i - 1) * BlockSize < Len(s)
  BY BlockCount
<1>2. ASSUME NEW i \in 1..q  PROVE block(i) \in Seq(S)
  <2>1. /\ (i - 1) * BlockSize \in Nat
        /\ (i - 1) * BlockSize < Len(s)
        /\ i * BlockSize = (i - 1) * BlockSize + BlockSize
        /\ i * BlockSize \in Nat
    BY <1>1, VllmAssumption, Z3
  <2>2. /\ Min({i * BlockSize, Len(s)}) \in Nat
        /\ Min({i * BlockSize, Len(s)}) <= Len(s)
        /\ Min({i * BlockSize, Len(s)}) >= (i - 1) * BlockSize
    BY <2>1, MinOfTwo, VllmAssumption
  <2> DEFINE a == (i - 1) * BlockSize + 1
             b == Min({i * BlockSize, Len(s)})
  <2>3. a \in 1..Len(s) + 1 /\ b \in a - 1..Len(s)
    BY <2>1, <2>2
  <2> HIDE DEF a, b
  <2>4. SubSeq(s, a, b) \in Seq(S)
    BY <2>3, SubSeqProperties
  <2> QED
    BY <2>4, Zenon DEF a, b
<1>3. hash_token_ids(s, BlockSize) = [i \in 1..q |-> block(i)]
  BY DEF hash_token_ids
<1> HIDE DEF q, block
<1>4. [i \in 1..q |-> block(i)] \in Seq(Seq(S)) /\ Len([i \in 1..q |-> block(i)]) = q
  BY <1>1, <1>2
<1>5. hash_token_ids(s, BlockSize) \in Seq(Seq(S)) /\ Len(hash_token_ids(s, BlockSize)) = q
  BY <1>3, <1>4, Zenon
<1>6. \A i \in 1..q : hash_token_ids(s, BlockSize)[i] = block(i)
  BY <1>3
<1> QED
  BY <1>1, <1>5, <1>6, Zenon DEF block

(* The blocks of a prefix of n whole blocks, or of what there is of them,  *)
(* are the first blocks of the whole sequence.                             *)
LEMMA PrefixBlocks ==
  ASSUME NEW S, NEW s \in Seq(S), NEW n \in Nat,
         NEW i \in 1..Len(hash_token_ids(UpTo(s, BlockSize * n), BlockSize))
  PROVE  /\ i <= n
         /\ i <= Len(hash_token_ids(s, BlockSize))
         /\ hash_token_ids(UpTo(s, BlockSize * n), BlockSize)[i]
              = hash_token_ids(s, BlockSize)[i]
<1> DEFINE B == BlockSize
           m == Min({B * n, Len(s)})
           u == UpTo(s, B * n)
<1>1. B \in Nat \ {0} /\ B * n \in Nat
  BY VllmAssumption, Z3
<1>2. m \in Nat /\ m <= B * n /\ m <= Len(s) /\ m \in {B * n, Len(s)}
  BY <1>1, MinOfTwo
<1>3. u = SubSeq(s, 1, m)
  BY DEF UpTo
<1> HIDE DEF m, u
<1>4. u \in Seq(S) /\ Len(u) = m /\ \A j \in 1..m : u[j] = s[j]
  BY <1>2, <1>3, SubSeqProperties
<1>5. i \in Nat \ {0} /\ (i - 1) * B < m
  <2>1. i \in 1..Len(hash_token_ids(u, B))
    BY DEF u
  <2>2. Len(hash_token_ids(u, B)) \in Nat
    BY <1>4, HashesOfBlocks
  <2> QED
    BY <1>4, <2>1, <2>2, HashesOfBlocks
<1>6. i <= n
  <2>1. (i - 1) * B < B * n
    BY <1>1, <1>2, <1>5
  <2> QED
    BY <1>1, <1>5, <2>1, Z3
<1>7. i <= Len(hash_token_ids(s, B))
  <2>1. (i - 1) * B < Len(s)
    BY <1>1, <1>2, <1>5
  <2>2. i <= Len(hash_token_ids(s, B)) <=> (i - 1) * B < Len(s)
    BY <1>5, HashesOfBlocks
  <2> QED
    BY <2>1, <2>2
<1> DEFINE a == (i - 1) * B + 1
           e == Min({i * B, m})
           f == Min({i * B, Len(s)})
<1>8. a \in Nat /\ i * B \in Nat /\ i * B <= B * n
  BY <1>1, <1>5, <1>6, Z3
<1>9. e = f /\ e \in Nat /\ e <= m
  BY <1>2, <1>8, MinOfTwo
<1>10. hash_token_ids(u, B)[i] = SubSeq(u, a, e)
  <2>1. i \in 1..Len(hash_token_ids(u, B))
    BY DEF u
  <2> QED
    BY <1>4, <2>1, HashesOfBlocks, Zenon
<1>11. hash_token_ids(s, B)[i] = SubSeq(s, a, f)
  <2>1. Len(hash_token_ids(s, B)) \in Nat
    BY HashesOfBlocks
  <2>2. i \in 1..Len(hash_token_ids(s, B))
    BY <1>5, <1>7, <2>1
  <2> QED
    BY <2>2, HashesOfBlocks, Zenon
<1> HIDE DEF a, e, f
<1>12. a >= 1
  BY <1>1, <1>5, Z3 DEF a
<1>13. SubSeq(u, a, e) = SubSeq(s, a, f)
  <2>1. \A j \in a..e : u[j] = s[j] /\ s[j] \in S
    BY <1>2, <1>4, <1>8, <1>9, <1>12
  <2>2. /\ SubSeq(u, a, e) \in Seq(S) /\ SubSeq(s, a, e) \in Seq(S)
        /\ Len(SubSeq(u, a, e)) = IF a <= e THEN e - a + 1 ELSE 0
        /\ Len(SubSeq(s, a, e)) = IF a <= e THEN e - a + 1 ELSE 0
        /\ \A j \in 1..e - a + 1 : SubSeq(u, a, e)[j] = u[a + j - 1]
        /\ \A j \in 1..e - a + 1 : SubSeq(s, a, e)[j] = s[a + j - 1]
    BY <1>8, <1>9, <2>1, SubSeqProperties
  <2>3. \A j \in 1..Len(SubSeq(u, a, e)) : SubSeq(u, a, e)[j] = SubSeq(s, a, e)[j]
    BY <1>8, <1>9, <2>1, <2>2
  <2>4. SubSeq(u, a, e) = SubSeq(s, a, e)
    BY <2>2, <2>3, SeqEqual, Zenon
  <2> QED
    BY <1>9, <2>4
<1> QED
  BY <1>6, <1>7, <1>10, <1>11, <1>13, Zenon DEF u

(* The size of 1..n.                                                       *)
LEMMA IntervalSize ==
  ASSUME NEW n \in Nat
  PROVE  IsFiniteSet(1..n) /\ Cardinality(1..n) = n
<1>1. IsFiniteSet(1..n) /\ Cardinality(1..n) = IF 1 > n THEN 0 ELSE n - 1 + 1
  <2>1. 1 \in Int /\ n \in Int
    OBVIOUS
  <2> QED
    BY <2>1, FS_Interval, Zenon
<1> QED
  BY <1>1

(* What Matched counts is a prefix of hits, as a number of tokens.         *)
LEMMA MatchedIsPrefix ==
  ASSUME NEW hits \in Seq(BOOLEAN)
  PROVE  \E n \in Nat : /\ Matched(hits) = BlockSize * n
                        /\ n <= Len(hits)
                        /\ \A i \in 1..n : hits[i]
<1> DEFINE P == {i \in 1..Len(hits) : \A j \in 1..i : hits[j]}
           n == Cardinality(P)
<1>1. IsFiniteSet(1..Len(hits)) /\ Cardinality(1..Len(hits)) = Len(hits)
  BY IntervalSize
<1>2. n \in Nat /\ n <= Len(hits) /\ IsFiniteSet(P)
  BY <1>1, FS_Subset, FS_CardinalityType
<1>3. ASSUME NEW i \in 1..n, ~ hits[i]
      PROVE  FALSE
  <2>1. P \subseteq 1..i - 1
    BY <1>2, <1>3
  <2>2. IsFiniteSet(1..i - 1) /\ Cardinality(1..i - 1) = i - 1
    BY <1>2, IntervalSize
  <2>3. n <= i - 1
    BY <2>1, <2>2, FS_Subset
  <2> QED
    BY <1>2, <2>3
<1>4. Matched(hits) = BlockSize * n
  BY DEF Matched
<1> QED
  BY <1>2, <1>3, <1>4, Zenon

(* The hashes that update_state_after_alloc makes load tasks of were found *)
(* by the lookup of the request.                                           *)
LEMMA TasksWereFound ==
  ASSUME ConnectorTypes, NEW r \in Requests,
         NEW h \in Range(hash_token_ids(UpTo(Prompt[r], Matched(found[r])), BlockSize))
  PROVE  h \in Hashes /\ WasFound(r, h)
<1> DEFINE s == Prompt[r]
           S == Range(Prompt[r])
<1>1. s \in Seq(S) /\ found[r] \in Seq(BOOLEAN)
  BY VllmAssumption DEF ConnectorTypes
<1>2. PICK n \in Nat : /\ Matched(found[r]) = BlockSize * n
                      /\ n <= Len(found[r])
                      /\ \A i \in 1..n : found[r][i]
  BY <1>1, MatchedIsPrefix
<1> HIDE DEF s, S
<1> DEFINE u == UpTo(s, BlockSize * n)
<1>3. /\ hash_token_ids(s, BlockSize) \in Seq(Seq(S))
  BY <1>1, HashesOfBlocks
<1>4. hash_token_ids(u, BlockSize) \in Seq(Seq(S))
  <2>1. BlockSize * n \in Nat
    BY VllmAssumption, Z3
  <2> DEFINE m == Min({BlockSize * n, Len(s)})
  <2>2. m \in Nat /\ m <= Len(s)
    BY <1>1, <2>1, MinOfTwo
  <2> HIDE DEF m
  <2>3. u \in Seq(S)
    <3>1. m \in Int /\ 1 \in Int /\ \A j \in 1..m : s[j] \in S
      BY <1>1, <2>2
    <3>2. SubSeq(s, 1, m) \in Seq(S)
      BY <3>1, SubSeqProperties, Zenon
    <3> QED
      BY <3>2, Zenon DEF UpTo, m
  <2> QED
    BY <2>3, HashesOfBlocks
<1>5. PICK i \in 1..Len(hash_token_ids(u, BlockSize)) : h = hash_token_ids(u, BlockSize)[i]
  BY <1>2, <1>4 DEF Range, s
<1>6. /\ i <= n
      /\ i <= Len(hash_token_ids(s, BlockSize))
      /\ h = hash_token_ids(s, BlockSize)[i]
  BY <1>1, <1>5, PrefixBlocks, Zenon
<1>7. h \in Hashes
  <2>1. h \in Seq(S)
    BY <1>4, <1>5
  <2> QED
    BY <2>1 DEF Hashes, S
<1>8. ASSUME computed[r] = 0  PROVE Asked(r) = hash_token_ids(s, BlockSize)
  <2>1. SubSeq(s, 0 + 1, Len(s)) = s
    BY <1>1
  <2> QED
    BY <1>8, <2>1, Zenon DEF Asked, From, s
<1>9. i \in 1..Len(found[r]) /\ found[r][i]
  BY <1>1, <1>2, <1>4, <1>5, <1>6, SMTT(30)
<1> QED
  BY <1>6, <1>7, <1>8, <1>9 DEF WasFound

(* TasksInv depends on the scheduler, MetaInv on the worker, the stores    *)
(* and the cache, both on the metadata.                                    *)
LEMMA TasksUnchanged == TasksInv /\ UNCHANGED <<schedulerVars, metas>> => TasksInv'
BY DEF TasksInv, schedulerVars, WasFound, Asked, LoadedOnce

LEMMA MetaUnchanged ==
  MetaInv /\ UNCHANGED <<metas, workerVars, stores, cacheVars>> => MetaInv'
BY DEF MetaInv, workerVars, cacheVars, AskedToSave

(* The metadata of a step has loads of requests.                           *)
LEMMA MetaTypes ==
  ASSUME ConnectorTypes, NEW i \in 1..Len(metas)
  PROVE  metas[i].loads \subseteq Requests \X Hashes
<1> DEFINE T == [loads : SUBSET (Requests \X Hashes), saves : SUBSET Hashes]
<1>1. metas[i] \in T
  <2>1. metas \in Seq(T)
    BY DEF ConnectorTypes
  <2> HIDE DEF T
  <2> QED
    BY <2>1
<1> QED
  BY <1>1

(* A lookup changes what its request has found, and has computed, before   *)
(* the request has any load task.                                          *)
LEMMA LookupKeepsTasks ==
  ASSUME ConnectorTypes, ConnectorTypes', TasksInv, UNCHANGED <<tasks, metas>>,
         NEW r \in Requests, phase[r] \in {"new", "lookup"},
         \A q \in Requests \ {r} : /\ phase'[q] = phase[q]
                                   /\ computed'[q] = computed[q]
                                   /\ found'[q] = found[q]
  PROVE  TasksInv'
<1>1. tasks[r] = {}
  BY DEF TasksInv
<1>2. \A i \in 1..Len(metas) : \A l \in metas[i].loads : l[1] \in Requests \ {r}
  <2>1. \A i \in 1..Len(metas) : \A l \in metas[i].loads : l[1] \in Requests
    BY MetaTypes
  <2> QED
    BY <2>1 DEF TasksInv
<1>3. \A q \in Requests \ {r} : \A h : WasFound(q, h) => WasFound(q, h)'
  BY Zenon DEF WasFound, Asked
<1>4. \A q \in Requests : tasks'[q] # {} => phase'[q] = "running"
  BY <1>1 DEF TasksInv
<1>5. \A q \in Requests : \A h \in tasks'[q] : WasFound(q, h)'
  BY <1>1, <1>3 DEF TasksInv
<1>6. \A i \in 1..Len(metas') : \A l \in metas'[i].loads :
        phase'[l[1]] \in {"ran", "finished"} /\ WasFound(l[1], l[2])'
  BY <1>2, <1>3, ZenonT(30) DEF TasksInv
<1>7. LoadedOnce'
  BY DEF TasksInv, LoadedOnce
<1> QED
  BY <1>4, <1>5, <1>6, <1>7, Zenon DEF TasksInv

(* update_state_after_alloc gives a request load tasks that it has found.  *)
LEMMA AllocKeeps ==
  ASSUME ConnectorTypes, TasksInv, NEW r \in Requests, update_state_after_alloc(r)
  PROVE  ConnectorTypes' /\ TasksInv'
<1> DEFINE new == Range(hash_token_ids(UpTo(Prompt[r], Matched(found[r])), BlockSize))
<1>1. \A h \in new : h \in Hashes /\ WasFound(r, h)
  BY TasksWereFound
<1>2. /\ phase[r] = "matched"
      /\ tasks' = [tasks EXCEPT ![r] = tasks[r] \cup new]
      /\ phase' = [phase EXCEPT ![r] = "running"]
      /\ UNCHANGED <<computed, found, metas, current_meta, content>>
  BY DEF update_state_after_alloc, workerVars, cacheVars
<1> HIDE DEF new
<1>3. ConnectorTypes'
  BY <1>1, <1>2, Zenon DEF ConnectorTypes, Phases
<1>4. \A q, h : WasFound(q, h)' <=> WasFound(q, h)
  BY <1>2 DEF WasFound, Asked
<1>5. \A q \in Requests : tasks'[q] = IF q = r THEN tasks[q] \cup new ELSE tasks[q]
  BY <1>2, Zenon DEF ConnectorTypes
<1>6. \A q \in Requests : tasks'[q] # {} => phase'[q] = "running"
  BY <1>2, <1>5 DEF TasksInv, ConnectorTypes
<1>7. \A q \in Requests : \A h \in tasks'[q] : WasFound(q, h)'
  BY <1>1, <1>4, <1>5, Zenon DEF TasksInv
<1>8. \A i \in 1..Len(metas') : \A l \in metas'[i].loads :
        phase'[l[1]] \in {"ran", "finished"} /\ WasFound(l[1], l[2])'
  <2>1. \A i \in 1..Len(metas) : \A l \in metas[i].loads : l[1] \in Requests
    BY MetaTypes
  <2> QED
    BY <1>2, <1>4, <2>1 DEF TasksInv, ConnectorTypes
<1>9. LoadedOnce'
  BY <1>2 DEF TasksInv, LoadedOnce
<1> QED
  BY <1>3, <1>6, <1>7, <1>8, <1>9 DEF TasksInv

(* build_connector_meta moves the load tasks of what it schedules into the *)
(* metadata of the step.                                                   *)
LEMMA BuildKeeps ==
  ASSUME ConnectorTypes, TasksInv, MetaInv,
         NEW S \in SUBSET {r \in Requests : phase[r] \in {"running", "ran"}},
         NEW F \in SUBSET {r \in Requests \ S : phase[r] = "ran"},
         build_connector_meta(S, F)
  PROVE  ConnectorTypes' /\ TasksInv' /\ MetaInv'
<1> DEFINE loads == UNION {{r} \X tasks[r] : r \in S}
           saves == UNION {Range(hash_token_ids(Prompt[r], BlockSize)) : r \in F}
           meta == [loads |-> loads, saves |-> saves]
           n == Len(metas)
<1>1. /\ worker = "idle" /\ worker' = "start"
      /\ metas' = Append(metas, meta)
      /\ tasks' = [r \in Requests |-> IF r \in S THEN {} ELSE tasks[r]]
      /\ phase' = [r \in Requests |-> CASE r \in S -> "ran"
                                        [] r \in F -> "finished"
                                        [] OTHER -> phase[r]]
      /\ UNCHANGED <<computed, found, current_meta, stores, content>>
  BY DEF build_connector_meta, cacheVars
<1>2. loads \subseteq Requests \X Hashes
  BY DEF ConnectorTypes
<1>3. saves \subseteq Hashes
  <2>1. ASSUME NEW r \in Requests
        PROVE  Range(hash_token_ids(Prompt[r], BlockSize)) \subseteq Hashes
    <3>1. Prompt[r] \in Seq(Range(Prompt[r]))
      BY VllmAssumption
    <3>2. hash_token_ids(Prompt[r], BlockSize) \in Seq(Seq(Range(Prompt[r])))
      BY <3>1, HashesOfBlocks
    <3>3. Range(hash_token_ids(Prompt[r], BlockSize)) \subseteq Seq(Range(Prompt[r]))
      BY <3>2 DEF Range
    <3> QED
      BY <3>3 DEF Hashes
  <2> QED
    BY <2>1
<1>4. \A l \in loads : l[1] \in S /\ l[2] \in tasks[l[1]]
  OBVIOUS
<1> HIDE DEF loads, saves
<1>5. n \in Nat /\ metas \in Seq([loads : SUBSET (Requests \X Hashes), saves : SUBSET Hashes])
  BY DEF ConnectorTypes
<1>6. meta \in [loads : SUBSET (Requests \X Hashes), saves : SUBSET Hashes]
  BY <1>2, <1>3
<1>7. /\ Len(metas') = n + 1
      /\ metas'[n + 1].loads = loads
      /\ \A i \in 1..n : metas'[i] = metas[i]
  BY <1>1, <1>5, <1>6
<1>8. \A r \in Requests : phase'[r] \in Phases /\
        (phase[r] \in {"ran", "finished"} \/ r \in S => phase'[r] \in {"ran", "finished"})
  BY <1>1 DEF ConnectorTypes, Phases
<1>9. ConnectorTypes'
  <2>1. metas' \in Seq([loads : SUBSET (Requests \X Hashes), saves : SUBSET Hashes])
    BY <1>1, <1>5, <1>6
  <2>2. phase' \in [Requests -> Phases]
    BY <1>1, <1>8
  <2>3. tasks' \in [Requests -> SUBSET Hashes]
    BY <1>1 DEF ConnectorTypes
  <2> QED
    BY <1>1, <2>1, <2>2, <2>3 DEF ConnectorTypes
<1>10. \A q, h : WasFound(q, h)' <=> WasFound(q, h)
  BY <1>1 DEF WasFound, Asked
<1>11. TasksInv'
  <2>1. \A r \in Requests : tasks'[r] # {} => phase'[r] = "running"
    BY <1>1 DEF TasksInv
  <2>2. \A r \in Requests : \A h \in tasks'[r] : WasFound(r, h)'
    BY <1>1, <1>10 DEF TasksInv
  <2>3. \A i \in 1..n : \A l \in metas[i].loads : l[1] \in Requests
    BY MetaTypes
  <2>4. ASSUME NEW i \in 1..n + 1, NEW l \in metas'[i].loads
        PROVE  phase'[l[1]] \in {"ran", "finished"} /\ WasFound(l[1], l[2])'
    <3>1. CASE i = n + 1
      BY <1>4, <1>7, <1>8, <1>10, <2>4, <3>1, ZenonT(30) DEF TasksInv
    <3>2. CASE i \in 1..n
      BY <1>7, <1>8, <1>10, <2>3, <2>4, <3>2, Zenon DEF TasksInv
    <3> QED
      BY <1>5, <3>1, <3>2, SMTT(30)
  <2>5. \A i \in 1..n : loads \cap metas[i].loads = {}
    BY <1>4 DEF TasksInv
  <2>6. LoadedOnce'
    BY <1>5, <1>7, <2>5 DEF TasksInv, LoadedOnce
  <2> QED
    BY <1>7, <2>1, <2>2, <2>4, <2>6 DEF TasksInv
<1>12. MetaInv'
  <2>1. \A h, s : AskedToSave(h, s) => AskedToSave(h, s)'
    BY <1>5, <1>7 DEF AskedToSave
  <2>2. metas' # <<>>
    BY <1>5, <1>7
  <2> QED
    BY <1>1, <2>1, <2>2, Zenon DEF MetaInv
<1> QED
  BY <1>9, <1>11, <1>12

(* VllmInv is an invariant of the connector: whatever the scheduler, the   *)
(* worker, late stores and other programs do.                              *)
THEOREM VllmInvariant == VllmSpec => []VllmInv
<1>1. VllmInit => VllmInv
  <2> SUFFICES ASSUME VllmInit
               PROVE  VllmInv
    OBVIOUS
  <2>1. metas = <<>> /\ Len(metas) = 0
    BY DEF VllmInit
  <2>2. ConnectorTypes
    BY <2>1 DEF VllmInit, CacheInit, ConnectorTypes, Phases
  <2>3. TasksInv
    BY <2>1 DEF VllmInit, TasksInv, LoadedOnce
  <2>4. MetaInv
    <3>1. \A h \in TokenHashes : content[Key(h)] = None
      BY KeysAssumption DEF VllmInit, CacheInit
    <3> QED
      BY <2>1, <3>1 DEF VllmInit, MetaInv
  <2> QED
    BY <2>2, <2>3, <2>4 DEF VllmInv
<1>2. VllmInv /\ [VllmNext]_vllmVars => VllmInv'
  <2> SUFFICES ASSUME ConnectorTypes, TasksInv, MetaInv, [VllmNext]_vllmVars
               PROVE  ConnectorTypes' /\ TasksInv' /\ MetaInv'
    BY DEF VllmInv
  <2>1. ASSUME NEW r \in Requests, NEW n \in {0, BlockSize}, MatchBegin(r, n)
        PROVE  ConnectorTypes' /\ TasksInv' /\ MetaInv'
    <3>1. ConnectorTypes'
      BY <2>1, Zenon DEF MatchBegin, ConnectorTypes, Phases, workerVars, cacheVars
    <3>2. TasksInv'
      BY <2>1, <3>1, LookupKeepsTasks DEF MatchBegin, ConnectorTypes
    <3> QED
      BY <2>1, <3>1, <3>2, MetaUnchanged DEF MatchBegin
  <2>2. ASSUME NEW r \in Requests, MatchHash(r)
        PROVE  ConnectorTypes' /\ TasksInv' /\ MetaInv'
    <3>1. ConnectorTypes'
      BY <2>2, SMTT(30) DEF MatchHash, ConnectorTypes, Phases, workerVars, cacheVars
    <3>2. TasksInv'
      BY <2>2, <3>1, LookupKeepsTasks DEF MatchHash, ConnectorTypes
    <3> QED
      BY <2>2, <3>1, <3>2, MetaUnchanged DEF MatchHash
  <2>3. ASSUME NEW r \in Requests, MatchFails(r)
        PROVE  ConnectorTypes' /\ TasksInv' /\ MetaInv'
    <3>1. ConnectorTypes'
      BY <2>3, SMTT(30) DEF MatchFails, ConnectorTypes, Phases, workerVars, cacheVars
    <3>2. TasksInv'
      BY <2>3, <3>1, LookupKeepsTasks, SMTT(30) DEF MatchFails, ConnectorTypes
    <3> QED
      BY <2>3, <3>1, <3>2, MetaUnchanged DEF MatchFails
  <2>4. ASSUME NEW r \in Requests, update_state_after_alloc(r)
        PROVE  ConnectorTypes' /\ TasksInv' /\ MetaInv'
    BY <2>4, AllocKeeps, MetaUnchanged, ZenonT(30) DEF update_state_after_alloc
  <2>5. ASSUME NEW S \in SUBSET {r \in Requests : phase[r] \in {"running", "ran"}},
               NEW F \in SUBSET {r \in Requests \ S : phase[r] = "ran"},
               build_connector_meta(S, F)
        PROVE  ConnectorTypes' /\ TasksInv' /\ MetaInv'
    BY <2>5, BuildKeeps
  <2>6. CASE start_load_kv
    <3>1. Len(metas) \in Nat /\ (metas # <<>> => Len(metas) # 0)
      BY DEF ConnectorTypes
    <3>2. ConnectorTypes'
      BY <2>6, <3>1 DEF start_load_kv, ConnectorTypes, schedulerVars, cacheVars
    <3>3. MetaInv'
      BY <2>6, <3>1 DEF start_load_kv, MetaInv, Meta, AskedToSave, cacheVars
    <3> QED
      BY <2>6, <3>2, <3>3, TasksUnchanged DEF start_load_kv
  <2>7. CASE wait_for_layer_load
    <3>1. ConnectorTypes'
      BY <2>7, SMTT(30) DEF wait_for_layer_load, ConnectorTypes, schedulerVars, cacheVars
    <3>2. MetaInv'
      BY <2>7 DEF wait_for_layer_load, MetaInv, AskedToSave, cacheVars
    <3> QED
      BY <2>7, <3>1, <3>2, TasksUnchanged DEF wait_for_layer_load
  <2>8. CASE save_kv_layer
    <3>1. ConnectorTypes'
      BY <2>8, SMTT(30) DEF save_kv_layer, ConnectorTypes, schedulerVars, cacheVars
    <3>2. worker = "save" /\ worker' \in {"layer", "wait"}
      BY <2>8 DEF save_kv_layer, NextLayer
    <3> DEFINE saves == IF current_meta = 0 THEN {} ELSE metas[current_meta].saves
    <3>3. stores' = stores \cup {[hash |-> h, step |-> Len(metas), layer |-> layer] :
                                   h \in saves}
      BY <2>8 DEF save_kv_layer
    <3>4. \A h \in saves : AskedToSave(h, Len(metas))
      BY <3>2 DEF MetaInv, AskedToSave, ConnectorTypes
    <3> HIDE DEF saves
    <3>5. \A s \in stores' : AskedToSave(s.hash, s.step)
      BY <3>3, <3>4 DEF MetaInv
    <3>6. \A h, s : AskedToSave(h, s)' <=> AskedToSave(h, s)
      BY <2>8, Zenon DEF save_kv_layer, AskedToSave
    <3>7. MetaInv'
      BY <2>8, <3>2, <3>5, <3>6 DEF save_kv_layer, MetaInv, cacheVars
    <3> QED
      BY <2>8, <3>1, <3>7, TasksUnchanged, Zenon DEF save_kv_layer
  <2>9. CASE wait_for_save
    <3>1. ConnectorTypes'
      BY <2>9, Zenon DEF wait_for_save, ConnectorTypes, schedulerVars, cacheVars
    <3>2. MetaInv'
      BY <2>9 DEF wait_for_save, MetaInv, AskedToSave, cacheVars
    <3> QED
      BY <2>9, <3>1, <3>2, TasksUnchanged DEF wait_for_save
  <2>10. ASSUME NEW s \in stores, StoreEnds(s)
         PROVE  ConnectorTypes' /\ TasksInv' /\ MetaInv'
    <3>1. UNCHANGED <<schedulerVars, metas, workerVars>> /\ stores' = stores \ {s}
      BY <2>10 DEF StoreEnds
    <3>2. \/ content' = [content EXCEPT ![Key(s.hash)] = s.step]
          \/ content' = content
      BY <2>10 DEF StoreEnds, Put, cacheVars
    <3>3. ConnectorTypes'
      BY <3>1, <3>2, SMTT(30) DEF ConnectorTypes, schedulerVars, workerVars
    <3>4. \A h \in TokenHashes : \/ content'[Key(h)] = content[Key(h)]
                                 \/ h = s.hash /\ content'[Key(h)] = s.step
      BY <3>2, KeysAssumption, Zenon DEF ConnectorTypes, Key
    <3>5. \A h, e : AskedToSave(h, e)' <=> AskedToSave(h, e)
      BY <3>1, Zenon DEF AskedToSave
    <3>6. MetaInv'
      BY <3>1, <3>4, <3>5 DEF MetaInv, workerVars
    <3> QED
      BY <3>1, <3>3, <3>6, TasksUnchanged
  <2>11. CASE Others
    <3>1. UNCHANGED <<schedulerVars, metas, workerVars, stores>>
      BY <2>11 DEF Others
    <3>2. PICK g \in TokenHashes : \/ content' = [content EXCEPT ![Key(g)] = Foreign]
                                  \/ content' = [content EXCEPT ![Key(g)] = None]
      BY <2>11 DEF Others, Put, Vanish
    <3>3. ConnectorTypes'
      BY <3>1, <3>2, Zenon DEF ConnectorTypes, schedulerVars, workerVars
    <3>4. \A h \in TokenHashes : content'[Key(h)] \in {None, Foreign, content[Key(h)]}
      BY <3>2, KeysAssumption DEF ConnectorTypes
    <3>5. \A h, e : AskedToSave(h, e)' <=> AskedToSave(h, e)
      BY <3>1, Zenon DEF AskedToSave
    <3>6. MetaInv'
      BY <3>1, <3>4, <3>5 DEF MetaInv, workerVars
    <3> QED
      BY <3>1, <3>3, <3>6, TasksUnchanged
  <2>12. CASE UNCHANGED vllmVars
    <3>1. ConnectorTypes'
      BY <2>12, Zenon DEF vllmVars, ConnectorTypes, schedulerVars, workerVars, cacheVars
    <3> QED
      BY <2>12, <3>1, TasksUnchanged, MetaUnchanged, SMTT(30) DEF vllmVars
  <2> QED
    BY ZenonT(30), <2>1, <2>2, <2>3, <2>4, <2>5, <2>6, <2>7, <2>8, <2>9, <2>10, <2>11, <2>12
       DEF VllmNext, SchedulerStep, WorkerStep
<1> QED
  BY <1>1, <1>2, PTL DEF VllmSpec

(* A request of which nothing was computed loads only what its own lookup  *)
(* found, for any prompts, block size and number of steps.                 *)
THEOREM OnlyFoundIsLoaded == VllmSpec => []LoadsWereFound
<1>1. VllmInv => LoadsWereFound
  BY DEF VllmInv, TasksInv, WasFound, LoadsWereFound
<1> QED
  BY <1>1, VllmInvariant, PTL

(* No load task is handed to the workers in two steps.                     *)
THEOREM NothingLoadedTwice == VllmSpec => []LoadedOnce
<1>1. VllmInv => LoadedOnce
  BY Zenon DEF VllmInv, TasksInv
<1> QED
  BY <1>1, VllmInvariant, PTL

(* What the connector stores was asked for by the step that computed it,   *)
(* and that step had loads.                                                *)
THEOREM SavesAreOrdered == VllmSpec => []SavesBelongToTheirStep
<1>1. VllmInv => SavesBelongToTheirStep
  BY DEF VllmInv, MetaInv, AskedToSave, SavesBelongToTheirStep
<1> QED
  BY <1>1, VllmInvariant, PTL
=============================================================================
