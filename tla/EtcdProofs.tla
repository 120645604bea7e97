----------------------------- MODULE EtcdProofs -----------------------------
(***************************************************************************)
(* Lemmas for MetadataProofs: the inductive invariant of Metadata, and     *)
(* that its steps keep the types, the leases of the processes and the keys *)
(* that etcd holds; what the responses of a watch come to as they are sent *)
(* and applied.                                                            *)
(***************************************************************************)
EXTENDS Metadata, Integers, TLAPS

----------------------------------------------------------------------------
(* Sequences *)

(* Sequence t has the elements of s at the positions in keep, each once.   *)
Selects(t, s, keep) ==
  \E f \in [DOMAIN t -> keep] :
    /\ \A j \in DOMAIN t : t[j] = s[f[j]]
    /\ \A i, j \in DOMAIN t : f[i] = f[j] => i = j
    /\ \A i \in keep : \E j \in DOMAIN t : f[j] = i

(* That is what retain leaves of the entries under a hash.  RetainKeeps    *)
(* below proves it from the theory of finite sets; the lemmas before it    *)
(* take it as a hypothesis, and need none of that theory.                  *)
RetainSelects ==
  \A s \in Seq(Locations) : \A keep \in SUBSET DOMAIN s :
    /\ Retain(s, keep) \in Seq(Locations)
    /\ keep = {} => Retain(s, keep) = << >>
    /\ Selects(Retain(s, keep), s, keep)

(* Taking the first element of a sequence, and adding a last one.          *)
LEMMA TailOf ==
  ASSUME NEW S, NEW s \in Seq(S), s # << >>
  PROVE  /\ Len(s) \in Nat \ {0} /\ DOMAIN s = 1..Len(s)
         /\ Head(s) = s[1] /\ s[1] \in S
         /\ Tail(s) \in Seq(S) /\ DOMAIN Tail(s) = 1..Len(s) - 1
         /\ \A i \in 1..Len(s) - 1 : Tail(s)[i] = s[i + 1]
OBVIOUS

LEMMA AppendOf ==
  ASSUME NEW S, NEW s \in Seq(S), NEW e \in S
  PROVE  /\ Len(s) \in Nat /\ DOMAIN s = 1..Len(s)
         /\ Append(s, e) \in Seq(S) /\ Len(Append(s, e)) = Len(s) + 1
         /\ DOMAIN Append(s, e) = 1..Len(s) + 1
         /\ \A i \in 1..Len(s) : Append(s, e)[i] = s[i]
         /\ Append(s, e)[Len(s) + 1] = e
OBVIOUS

----------------------------------------------------------------------------
(* The inductive invariant *)

(* Process i is the one that was started last on node n.                   *)
Latest(n, i) ==
  /\ i \in DOMAIN boots /\ boots[i] = n
  /\ \A j \in DOMAIN boots : boots[j] = n => j <= i

(* What main has of its lease: an id when it was granted one.              *)
ProcessesOK ==
  /\ \A n \in Nodes :
       /\ pc[n] = "down" => tasks[n] = {} /\ lease_id[n] = None
       /\ pc[n] # "down" =>
            /\ Latest(n, Process(n))
            /\ lease_id[n] = None => leases[Process(n)] = "none"
            /\ lease_id[n] # None =>
                 lease_id[n] = Process(n) /\ leases[lease_id[n]] # "none"
       /\ generation[n] <= stores + 1
  /\ \A l \in Leases : l > Len(boots) => leases[l] = "none"

(* A registration is under the live lease of a process of the node.        *)
NodeKeysOK ==
  \A m \in Nodes : node_keys[m] # None =>
    /\ node_keys[m] \in DOMAIN boots
    /\ boots[node_keys[m]] = m
    /\ leases[node_keys[m]] = "live"

(* A publication is under the live lease of its process, or its process    *)
(* has no lease.                                                           *)
BlockKeysOK ==
  \A h \in Hashes : block_keys[h] # None =>
    LET p == block_keys[h].info.process IN
    /\ p \in DOMAIN boots /\ boots[p] = block_keys[h].info.node
    /\ \/ block_keys[h].lease = p /\ leases[p] = "live"
       \/ block_keys[h].lease = None /\ leases[p] = "none"

(* A node watch says that a node left when it left.                        *)
DeletesOf(n) ==
  node_stream[n] # None =>
    \A i \in DOMAIN node_stream[n] : node_stream[n][i].type # "put" =>
      \E l \in DOMAIN boots : boots[l] = node_stream[n][i].node /\ leases[l] = "left"

DeletesOK == \A n \in Nodes : DeletesOf(n)

(* An index names a node at most once under a hash.                        *)
OnePerNode(s) == \A i, j \in DOMAIN s : s[i].node = s[j].node => i = j

RemoteOf(n) == \A h \in Hashes : OnePerNode(remote[n][h])

RemoteOK == \A n \in Nodes : RemoteOf(n)

(* Before its watches are open an agent knows nobody else.                 *)
StartOf(n) ==
  pc[n] \in {"down", "watch_blocks", "watch_nodes"} =>
    node_stream[n] = None /\ ring[n] \subseteq {n} /\ remote[n] = RemoteEmpty

StartOK == \A n \in Nodes : StartOf(n)

(* Watch s, applied to the end, leaves no m in the nodes R.                *)
Leaves(s, m, R) ==
  \/ /\ m \notin R
     /\ \A i \in DOMAIN s : s[i].node = m => s[i].type # "put"
  \/ \E i \in DOMAIN s :
       /\ s[i].node = m /\ s[i].type # "put"
       /\ \A j \in DOMAIN s : j > i /\ s[j].node = m => s[j].type # "put"

RingOf(n) ==
  \A m \in Nodes : node_stream[n] # None /\ m # n /\ node_keys[m] = None =>
    Leaves(node_stream[n], m, ring[n])

RingFollows == \A n \in Nodes : RingOf(n)

(* Response e is about hash h, and says what etcd holds for it.            *)
About(e, h) == IF e.type = "put" THEN e.hash = h ELSE h \in e.hashes

Tells(e, k) == IF k = None THEN e.type # "put" ELSE e.type = "put" /\ e.info = k.info

(* Among the processes b no other than that of location x ran on its node. *)
NeverRestarted(x, b) == \A i \in DOMAIN b : b[i] = x.node => i = x.process

(* The last response about h tells what etcd holds; without a response the *)
(* index has it already, or nothing that matters.                          *)
Follows(s, h, k, known, b) ==
  \/ \E i \in DOMAIN s :
       /\ About(s[i], h) /\ Tells(s[i], k)
       /\ \A j \in DOMAIN s : j > i => ~ About(s[j], h)
  \/ /\ \A i \in DOMAIN s : ~ About(s[i], h)
     /\ k = None => known = << >>
     /\ k # None /\ NeverRestarted(k.info, b) =>
          known = << >> \/ \E i \in DOMAIN known : known[i] = k.info

BlocksOf(n) ==
  \A h \in Hashes : block_stream[n] # None =>
    Follows(block_stream[n], h, block_keys[h], remote[n][h], boots)

BlocksFollow == \A n \in Nodes : BlocksOf(n)

MetaInv ==
  /\ VariablesOK /\ ProcessesOK /\ NodeKeysOK /\ BlockKeysOK /\ DeletesOK
  /\ RemoteOK /\ StartOK /\ RingFollows /\ BlocksFollow

----------------------------------------------------------------------------
(* Types *)

(* The process of a node is the one that was started last.                 *)
ProcessIsLatest == \A n \in Nodes : \A i \in Leases : Latest(n, i) => Process(n) = i

LEMMA TheProcess == VariablesOK => ProcessIsLatest
<1> SUFFICES ASSUME VariablesOK, NEW n \in Nodes, NEW i \in Leases, Latest(n, i)
             PROVE  Process(n) = i
  BY DEF ProcessIsLatest
<1>1. Latest(n, Process(n))
  BY Zenon DEF Latest, Process
<1>2. DOMAIN boots \subseteq Nat
  BY DEF VariablesOK
<1> QED
  BY <1>1, <1>2 DEF Latest

(* The watches that a response goes to stay well typed.                    *)
LEMMA NotifyType ==
  ASSUME NEW S, NEW st \in [Nodes -> Seq(S) \cup {None}], NEW e \in S
  PROVE  Notify(st, e) \in [Nodes -> Seq(S) \cup {None}]
<1>1. \A n \in Nodes : st[n] # None => Append(st[n], e) \in Seq(S)
  OBVIOUS
<1> QED
  BY <1>1, Zenon DEF Notify

(* Process numbers are leases.                                             *)
LEMMA NextLease ==
  ASSUME VariablesOK, Len(boots) + 1 <= MaxBoots
  PROVE  Len(boots) + 1 \in Leases /\ Len(boots) \in Nat
BY MetadataAssumption DEF VariablesOK, Leases

(* The end of a lease keeps the types of what etcd holds.                  *)
EtcdOK ==
  /\ leases \in [Leases -> {"none", "live", "over", "left"}]
  /\ node_keys \in [Nodes -> Leases \cup {None}]
  /\ block_keys \in [Hashes -> [info : Locations, lease : Leases \cup {None}] \cup {None}]
  /\ node_stream \in [Nodes -> Seq(NodeResponses) \cup {None}]
  /\ block_stream \in [Nodes -> Seq(BlockResponses) \cup {None}]

LEMMA EndLeaseType ==
  ASSUME EtcdOK, NEW l \in Leases, EndLease(l)
  PROVE  EtcdOK'
<1>1. leases' \in [Leases -> {"none", "live", "over", "left"}]
  BY DEF EtcdOK, EndLease
<1>2. node_keys' \in [Nodes -> Leases \cup {None}]
  BY DEF EtcdOK, EndLease
<1>3. block_keys' \in [Hashes -> [info : Locations, lease : Leases \cup {None}] \cup {None}]
  BY Zenon DEF EtcdOK, EndLease
<1>4. node_stream' \in [Nodes -> Seq(NodeResponses) \cup {None}]
  <2>1. CASE NodesOf(l) = {}
    BY <2>1 DEF EtcdOK, EndLease
  <2>2. CASE NodesOf(l) # {}
    <3> DEFINE e == [type |-> "delete", node |-> CHOOSE n \in NodesOf(l) : TRUE]
    <3>1. (CHOOSE n \in NodesOf(l) : TRUE) \in Nodes
      BY <2>2, Zenon DEF NodesOf
    <3>2. e \in NodeResponses
      BY <3>1, Zenon DEF NodeResponses
    <3>3. node_stream' = Notify(node_stream, e)
      BY <2>2 DEF EndLease
    <3> QED
      BY <3>2, <3>3, NotifyType, Zenon DEF EtcdOK
  <2> QED
    BY <2>1, <2>2
<1>5. block_stream' \in [Nodes -> Seq(BlockResponses) \cup {None}]
  <2>1. CASE HashesOf(l) = {}
    BY <2>1 DEF EtcdOK, EndLease
  <2>2. CASE HashesOf(l) # {}
    <3> DEFINE e == [type |-> "delete", hashes |-> HashesOf(l)]
    <3>1. HashesOf(l) \in SUBSET Hashes
      BY Zenon DEF HashesOf
    <3>2. e \in BlockResponses
      BY <3>1, Zenon DEF BlockResponses
    <3>3. block_stream' = Notify(block_stream, e)
      BY <2>2 DEF EndLease
    <3> QED
      BY <3>2, <3>3, NotifyType, Zenon DEF EtcdOK
  <2> QED
    BY <2>1, <2>2
<1> QED
  BY <1>1, <1>2, <1>3, <1>4, <1>5 DEF EtcdOK

(* What publish_block announces is a location.                             *)
LEMMA PublishedLocation ==
  ASSUME VariablesOK, ProcessesOK, NEW n \in Nodes, NEW q \in tasks[n]
  PROVE  /\ Location(n, q.gen) \in Locations /\ q.hash \in Hashes
         /\ Location(n, q.gen).node = n /\ Location(n, q.gen).process = Process(n)
         /\ pc[n] # "down" /\ Latest(n, Process(n)) /\ Process(n) \in Leases
<1>1. q \in [hash : Hashes, gen : 1..MaxStores]
  BY DEF VariablesOK
<1>2. pc[n] # "down" /\ Latest(n, Process(n))
  BY DEF ProcessesOK
<1>3. Process(n) \in Leases
  BY <1>2, MetadataAssumption DEF Latest, VariablesOK, Leases
<1> QED
  BY <1>1, <1>2, <1>3 DEF Location, Locations

(* insert and remove of the remote index.                                  *)
LEMMA InsertType ==
  ASSUME NEW r \in [Hashes -> Seq(Locations)], NEW h \in Hashes, NEW x \in Locations,
         OnePerNode(r[h])
  PROVE  /\ RemoteInsert(r, h, x) \in [Hashes -> Seq(Locations)]
         /\ \A g \in Hashes \ {h} : RemoteInsert(r, h, x)[g] = r[g]
         /\ OnePerNode(RemoteInsert(r, h, x)[h])
         /\ \E i \in DOMAIN RemoteInsert(r, h, x)[h] : RemoteInsert(r, h, x)[h][i] = x
<1> DEFINE s == r[h]
           same == OfNode(r, h, x.node)
           least == CHOOSE i \in same : \A j \in same : i <= j
<1>0. s \in Seq(Locations) /\ Len(s) \in Nat /\ DOMAIN s = 1..Len(s)
  OBVIOUS
<1>1. CASE same # {}
  <2>1. PICK i \in DOMAIN s : s[i].node = x.node
    BY <1>1 DEF OfNode
  <2>2. same = {i}
    BY <2>1, Zenon DEF OfNode, OnePerNode
  <2>3. i <= i
    BY <1>0
  <2>4. least = i
    BY <2>2, <2>3, Zenon
  <2> HIDE DEF least
  <2>5. RemoteInsert(r, h, x) = [r EXCEPT ![h] = [s EXCEPT ![i] = x]]
    BY <1>1, <2>4, Zenon DEF RemoteInsert, least
  <2> DEFINE t == [s EXCEPT ![i] = x]
  <2>6. t \in Seq(Locations) /\ DOMAIN t = DOMAIN s /\ t[i] = x
        /\ \A j \in DOMAIN s \ {i} : t[j] = s[j]
    BY <1>0, <2>1
  <2>7. OnePerNode(t)
    <3>1. \A j \in DOMAIN s : t[j].node = s[j].node
      BY <2>1, <2>6
    <3> HIDE DEF t
    <3> QED
      BY <2>6, <3>1 DEF OnePerNode
  <2> HIDE DEF t, s
  <2>8. /\ RemoteInsert(r, h, x) \in [Hashes -> Seq(Locations)]
        /\ RemoteInsert(r, h, x)[h] = t
        /\ \A g \in Hashes \ {h} : RemoteInsert(r, h, x)[g] = r[g]
    BY <2>5, <2>6 DEF t
  <2> QED
    BY <2>1, <2>6, <2>7, <2>8, Zenon
<1>2. CASE same = {}
  <2> DEFINE t == Append(s, x)
  <2>1. RemoteInsert(r, h, x) = [r EXCEPT ![h] = t]
    BY <1>2 DEF RemoteInsert
  <2>2. \A i \in DOMAIN s : s[i].node # x.node
    BY <1>2, Zenon DEF OfNode
  <2>3. /\ t \in Seq(Locations) /\ DOMAIN t = 1..Len(s) + 1 /\ t[Len(s) + 1] = x
        /\ \A i \in 1..Len(s) : t[i] = s[i]
    BY <1>0, AppendOf
  <2> HIDE DEF t
  <2>4. OnePerNode(t)
    <3>1. \A i \in DOMAIN t : i = Len(s) + 1 \/ i \in 1..Len(s)
      BY <1>0, <2>3
    <3>2. Len(s) + 1 \notin 1..Len(s)
      BY <1>0
    <3> HIDE DEF s
    <3> QED
      BY <1>0, <2>2, <2>3, <3>1, <3>2, Zenon DEF OnePerNode, s
  <2>5. Len(s) + 1 \in DOMAIN t
    BY <1>0, <2>3
  <2> HIDE DEF s
  <2>6. /\ RemoteInsert(r, h, x) \in [Hashes -> Seq(Locations)]
        /\ RemoteInsert(r, h, x)[h] = t
        /\ \A g \in Hashes \ {h} : RemoteInsert(r, h, x)[g] = r[g]
    BY <2>1, <2>3
  <2> QED
    BY <2>3, <2>4, <2>5, <2>6, Zenon
<1> QED
  BY <1>1, <1>2

(* Without node m the entries s become t.                                  *)
Forgets(s, t, m) ==
  /\ s = << >> => t = << >>
  /\ \A i \in DOMAIN s : s[i].node # m => \E j \in DOMAIN t : t[j] = s[i]

(* remove_node and remove of the remote index.                             *)
LEMMA RemoveNodeKeeps ==
  ASSUME RetainSelects,
         NEW r \in [Hashes -> Seq(Locations)], NEW m, NEW h \in Hashes, OnePerNode(r[h])
  PROVE  /\ RemoteRemoveNode(r, m)[h] \in Seq(Locations)
         /\ OnePerNode(RemoteRemoveNode(r, m)[h])
         /\ Forgets(r[h], RemoteRemoveNode(r, m)[h], m)
<1> DEFINE s == r[h]
           keep == DOMAIN s \ OfNode(r, h, m)
           t == Retain(s, keep)
<1>1. s \in Seq(Locations) /\ keep \in SUBSET DOMAIN s /\ RemoteRemoveNode(r, m)[h] = t
  BY DEF RemoteRemoveNode
<1>2. s = << >> => keep = {}
  OBVIOUS
<1>3. \A i \in DOMAIN s : s[i].node # m => i \in keep
  BY DEF OfNode
<1>4. OnePerNode(s)
  OBVIOUS
<1> HIDE DEF s, keep
<1>5. /\ t \in Seq(Locations)
      /\ keep = {} => t = << >>
      /\ Selects(t, s, keep)
  BY <1>1, Zenon DEF RetainSelects
<1> HIDE DEF t
<1>6. PICK f \in [DOMAIN t -> keep] :
        /\ \A j \in DOMAIN t : t[j] = s[f[j]]
        /\ \A i, j \in DOMAIN t : f[i] = f[j] => i = j
        /\ \A i \in keep : \E j \in DOMAIN t : f[j] = i
  BY <1>5, Zenon DEF Selects
<1>7. OnePerNode(t)
  BY <1>1, <1>4, <1>6 DEF OnePerNode
<1>8. \A i \in DOMAIN s : s[i].node # m => \E j \in DOMAIN t : t[j] = s[i]
  BY <1>3, <1>6
<1>9. Forgets(s, t, m)
  BY <1>2, <1>5, <1>8, Zenon DEF Forgets
<1> QED
  BY <1>1, <1>5, <1>7, <1>9 DEF s

LEMMA RemoveNodeType ==
  ASSUME RetainSelects,
         NEW r \in [Hashes -> Seq(Locations)], NEW m, \A h \in Hashes : OnePerNode(r[h])
  PROVE  /\ RemoteRemoveNode(r, m) \in [Hashes -> Seq(Locations)]
         /\ \A h \in Hashes : OnePerNode(RemoteRemoveNode(r, m)[h])
<1>1. \A h \in Hashes : RemoteRemoveNode(r, m)[h] \in Seq(Locations)
                        /\ OnePerNode(RemoteRemoveNode(r, m)[h])
  BY RemoveNodeKeeps, Zenon
<1>2. RemoteRemoveNode(r, m) = [h \in Hashes |-> RemoteRemoveNode(r, m)[h]]
  BY DEF RemoteRemoveNode
<1> QED
  BY <1>1, <1>2, Zenon

(* Applying a response of the block watch.                                 *)
LEMMA AppliedType ==
  ASSUME NEW r \in [Hashes -> Seq(Locations)], NEW e \in BlockResponses,
         \A h \in Hashes : OnePerNode(r[h])
  PROVE  /\ Applied(r, e) \in [Hashes -> Seq(Locations)]
         /\ \A h \in Hashes :
              /\ OnePerNode(Applied(r, e)[h])
              /\ ~ About(e, h) => Applied(r, e)[h] = r[h]
              /\ About(e, h) /\ e.type # "put" => Applied(r, e)[h] = << >>
              /\ About(e, h) /\ e.type = "put" =>
                   \E i \in DOMAIN Applied(r, e)[h] : Applied(r, e)[h][i] = e.info
<1>1. CASE e.type = "put"
  <2>1. e.hash \in Hashes /\ e.info \in Locations /\ OnePerNode(r[e.hash])
    BY <1>1 DEF BlockResponses
  <2>2. Applied(r, e) = RemoteInsert(r, e.hash, e.info)
    BY <1>1 DEF Applied
  <2>3. \A h \in Hashes : About(e, h) <=> h = e.hash
    BY <1>1 DEF About
  <2> DEFINE a == RemoteInsert(r, e.hash, e.info)
  <2>4. /\ a \in [Hashes -> Seq(Locations)]
        /\ \A g \in Hashes \ {e.hash} : a[g] = r[g]
        /\ OnePerNode(a[e.hash])
        /\ \E i \in DOMAIN a[e.hash] : a[e.hash][i] = e.info
    BY <2>1, InsertType
  <2> HIDE DEF a
  <2>5. Applied(r, e) = a
    BY <2>2 DEF a
  <2>6. ASSUME NEW h \in Hashes
        PROVE  /\ OnePerNode(a[h])
               /\ ~ About(e, h) => a[h] = r[h]
               /\ About(e, h) => \E i \in DOMAIN a[h] : a[h][i] = e.info
    <3>1. CASE h = e.hash
      BY <2>3, <2>4, <3>1, Zenon
    <3>2. CASE h # e.hash
      <4>1. a[h] = r[h]
        BY <2>4, <3>2
      <4> QED
        BY <2>3, <3>2, <4>1, Zenon
    <3> QED
      BY <3>1, <3>2
  <2> QED
    BY <1>1, <2>4, <2>5, <2>6, Zenon
<1>2. CASE e.type # "put"
  <2>1. Applied(r, e) = RemoteRemove(r, e.hashes)
    BY <1>2 DEF Applied
  <2>2. \A h \in Hashes : RemoteRemove(r, e.hashes)[h] = IF h \in e.hashes THEN << >> ELSE r[h]
    BY DEF RemoteRemove
  <2>3. << >> \in Seq(Locations) /\ OnePerNode(<< >>)
    BY DEF OnePerNode
  <2>4. RemoteRemove(r, e.hashes) \in [Hashes -> Seq(Locations)]
    BY <2>3 DEF RemoteRemove
  <2> QED
    BY <1>2, <2>1, <2>2, <2>3, <2>4 DEF About
<1> QED
  BY <1>1, <1>2

(* Every step keeps the types.                                             *)
AgentsOK ==
  /\ boots \in Seq(Nodes) /\ Len(boots) <= MaxBoots
  /\ pc \in [Nodes -> {"down", "watch_blocks", "watch_nodes", "up", "leaving"}]
  /\ lease_id \in [Nodes -> Leases \cup {None}]
  /\ keeper \in [Nodes -> BOOLEAN]
  /\ stores \in 0..MaxStores
  /\ generation \in [Nodes -> 1..MaxStores + 1]
  /\ tasks \in [Nodes -> SUBSET [hash : Hashes, gen : 1..MaxStores]]

WatchersOK ==
  /\ remote \in [Nodes -> [Hashes -> Seq(Locations)]]
  /\ ring \in [Nodes -> SUBSET Nodes]

LEMMA TypeParts == VariablesOK <=> EtcdOK /\ AgentsOK /\ WatchersOK
BY Zenon DEF VariablesOK, EtcdOK, AgentsOK, WatchersOK

LEMMA EtcdKept == EtcdOK /\ UNCHANGED etcdVars => EtcdOK'
BY Zenon DEF EtcdOK, etcdVars

LEMMA TypeStep ==
  ASSUME RetainSelects, MetaInv, [Next]_vars
  PROVE  EtcdOK' /\ AgentsOK' /\ WatchersOK'
<1>0. EtcdOK /\ AgentsOK /\ WatchersOK /\ VariablesOK /\ ProcessesOK
  BY TypeParts, Zenon DEF MetaInv
<1>1. ASSUME NEW n \in Nodes, Boot(n)  PROVE EtcdOK' /\ AgentsOK' /\ WatchersOK'
  <2> DEFINE i == Len(boots) + 1
  <2>1. i \in Leases /\ Len(boots) \in Nat
    BY <1>0, <1>1, NextLease DEF Boot
  <2>2. boots' = Append(boots, n) /\ Len(boots) + 1 <= MaxBoots
    BY <1>1 DEF Boot
  <2>3. boots' \in Seq(Nodes) /\ Len(boots') <= MaxBoots
    BY <1>0, <2>1, <2>2, AppendOf DEF AgentsOK
  <2>4. pc' \in [Nodes -> {"down", "watch_blocks", "watch_nodes", "up", "leaving"}]
    BY <1>0, <1>1 DEF Boot, Goto, AgentsOK
  <2> HIDE DEF i
  <2>5. EtcdOK' /\ lease_id' \in [Nodes -> Leases \cup {None}] /\ keeper' \in [Nodes -> BOOLEAN]
    <3>1. CASE UNCHANGED <<etcdVars, lease_id, keeper>>
      BY <1>0, <3>1, EtcdKept, Zenon DEF AgentsOK
    <3>2. CASE LeaseGrant(i) /\ lease_id' = [lease_id EXCEPT ![n] = i] /\ UNCHANGED keeper
      BY <1>0, <2>1, <3>2, Zenon DEF LeaseGrant, EtcdOK, AgentsOK
    <3>3. CASE register_node(n, i) /\ start_keepalive(n)
      <4>1. [type |-> "put", node |-> n] \in NodeResponses
        BY DEF NodeResponses
      <4>2. node_stream' \in [Nodes -> Seq(NodeResponses) \cup {None}]
        BY <1>0, <3>3, <4>1, NotifyType, Zenon DEF register_node, GrantAndPutNode, EtcdOK
      <4>3. leases' \in [Leases -> {"none", "live", "over", "left"}]
        BY <1>0, <3>3, Zenon DEF register_node, GrantAndPutNode, EtcdOK
      <4>4. node_keys' \in [Nodes -> Leases \cup {None}]
        BY <1>0, <2>1, <3>3, Zenon DEF register_node, GrantAndPutNode, EtcdOK
      <4>5. UNCHANGED <<block_keys, block_stream>>
        BY <3>3 DEF register_node, GrantAndPutNode
      <4>6. lease_id' \in [Nodes -> Leases \cup {None}] /\ keeper' \in [Nodes -> BOOLEAN]
        BY <1>0, <2>1, <3>3, Zenon DEF register_node, start_keepalive, AgentsOK
      <4> QED
        BY <1>0, <4>2, <4>3, <4>4, <4>5, <4>6, Zenon DEF EtcdOK
    <3> QED
      BY <1>1, <3>1, <3>2, <3>3, Zenon DEF Boot, RegisterFails, i
  <2>6. UNCHANGED <<stores, generation, tasks, remote, ring>>
    BY <1>1 DEF Boot, watcherVars
  <2> QED
    BY <1>0, <2>3, <2>4, <2>5, <2>6, Zenon DEF AgentsOK, WatchersOK
<1>2. ASSUME NEW n \in Nodes, WatchBlockKeys(n) \/ WatchNodeKeys(n) \/ WatchFails(n)
      PROVE  EtcdOK' /\ AgentsOK' /\ WatchersOK'
  <2>1. AgentsOK'
    BY <1>0, <1>2, Zenon DEF WatchBlockKeys, WatchNodeKeys, WatchFails, Goto, AgentsOK, historyVars
  <2>2. /\ UNCHANGED <<leases, node_keys, block_keys, remote>>
        /\ \/ block_stream' = [block_stream EXCEPT ![n] = << >>]
           \/ block_stream' = [block_stream EXCEPT ![n] = None]
           \/ UNCHANGED block_stream
        /\ node_stream' = [node_stream EXCEPT ![n] = << >>] \/ UNCHANGED node_stream
        /\ ring' = [ring EXCEPT ![n] = {n}] \/ UNCHANGED ring
    BY <1>2, Zenon DEF WatchBlockKeys, WatchNodeKeys, WatchFails, watcherVars
  <2>3. << >> \in Seq(NodeResponses) /\ << >> \in Seq(BlockResponses)
    OBVIOUS
  <2>4. EtcdOK'
    BY <1>0, <2>2, <2>3, Zenon DEF EtcdOK
  <2>5. WatchersOK'
    <3>1. {n} \in SUBSET Nodes
      OBVIOUS
    <3> QED
      BY <1>0, <2>2, <3>1, Zenon DEF WatchersOK
  <2> QED
    BY <2>1, <2>4, <2>5
<1>3. ASSUME NEW n \in Nodes, NEW h \in Hashes, Store(n, h)
      PROVE  EtcdOK' /\ AgentsOK' /\ WatchersOK'
  <2>1. stores < MaxStores /\ generation[n] <= stores + 1 /\ MaxStores \in Nat
    BY <1>0, <1>3, MetadataAssumption DEF Store, ProcessesOK
  <2>2. generation[n] \in 1..MaxStores /\ generation[n] + 1 \in 1..MaxStores + 1
        /\ stores + 1 \in 0..MaxStores
    BY <1>0, <2>1 DEF AgentsOK
  <2>3. [hash |-> h, gen |-> generation[n]] \in [hash : Hashes, gen : 1..MaxStores]
    BY <2>2, Zenon
  <2>4. tasks[n] \cup {[hash |-> h, gen |-> generation[n]]}
          \in SUBSET [hash : Hashes, gen : 1..MaxStores]
    BY <1>0, <2>3, Zenon DEF AgentsOK
  <2>5. tasks' \in [Nodes -> SUBSET [hash : Hashes, gen : 1..MaxStores]]
    BY <1>0, <1>3, <2>4, Zenon DEF Store, AgentsOK
  <2>6. generation' \in [Nodes -> 1..MaxStores + 1] /\ stores' \in 0..MaxStores
    BY <1>0, <1>3, <2>2, Zenon DEF Store, AgentsOK
  <2>7. UNCHANGED <<etcdVars, boots, pc, lease_id, keeper, remote, ring>>
    BY <1>3, Zenon DEF Store, watcherVars
  <2> QED
    BY <1>0, <2>5, <2>6, <2>7, EtcdKept, Zenon DEF AgentsOK, WatchersOK
<1>4. ASSUME NEW n \in Nodes, NEW q \in tasks[n], Ends(n, q)  PROVE AgentsOK' /\ WatchersOK'
  BY <1>0, <1>4 DEF Ends, AgentsOK, WatchersOK, historyVars, watcherVars
<1>5. ASSUME NEW n \in Nodes, NEW q \in tasks[n], Publish(n, q) \/ PublishFails(n, q)
      PROVE  EtcdOK' /\ AgentsOK' /\ WatchersOK'
  <2>1. CASE PublishFails(n, q)
    BY <1>0, <1>4, <2>1, EtcdKept, Zenon DEF PublishFails
  <2>2. CASE Publish(n, q)
    <3> DEFINE x == Location(n, q.gen)
               e == [type |-> "put", hash |-> q.hash, info |-> x]
               k == [info |-> x, lease |-> lease_id[n]]
    <3>1. x \in Locations /\ q.hash \in Hashes
      BY <1>0, PublishedLocation, Zenon
    <3>2. /\ block_keys' = [block_keys EXCEPT ![q.hash] = k]
          /\ block_stream' = Notify(block_stream, e)
          /\ UNCHANGED <<leases, node_keys, node_stream>>
      BY <2>2, Zenon DEF Publish, PutBlock
    <3> HIDE DEF x
    <3>3. e \in BlockResponses
      BY <3>1, Zenon DEF BlockResponses
    <3>4. k \in [info : Locations, lease : Leases \cup {None}]
      BY <1>0, <3>1, Zenon DEF AgentsOK
    <3> HIDE DEF e, k
    <3>5. block_stream' \in [Nodes -> Seq(BlockResponses) \cup {None}]
      BY <1>0, <3>2, <3>3, NotifyType, Zenon DEF EtcdOK
    <3>6. EtcdOK'
      BY <1>0, <3>2, <3>4, <3>5, Zenon DEF EtcdOK
    <3> QED
      BY <1>4, <2>2, <3>6, Zenon DEF Publish
  <2> QED
    BY <1>5, <2>1, <2>2
<1>6. ASSUME NEW n \in Nodes, KeepaliveStops(n)  PROVE EtcdOK' /\ AgentsOK' /\ WatchersOK'
  BY <1>0, <1>6, EtcdKept, Zenon DEF KeepaliveStops, AgentsOK, WatchersOK, historyVars, watcherVars
<1>7. ASSUME NEW n \in Nodes, Shutdown(n)  PROVE EtcdOK' /\ AgentsOK' /\ WatchersOK'
  <2>1. AgentsOK' /\ WatchersOK'
    BY <1>0, <1>7, Zenon DEF Shutdown, Goto, AgentsOK, WatchersOK, historyVars, watcherVars
  <2>2. CASE lease_id[n] # None /\ EndLease(lease_id[n])
    <3>1. lease_id[n] \in Leases
      BY <1>0, <2>2, Zenon DEF AgentsOK
    <3> QED
      BY <1>0, <2>1, <2>2, <3>1, EndLeaseType, Zenon
  <2>3. CASE UNCHANGED etcdVars
    BY <1>0, <2>1, <2>3, EtcdKept, Zenon
  <2> QED
    BY <1>7, <2>2, <2>3, Zenon DEF Shutdown
<1>8. ASSUME NEW n \in Nodes, Crash(n)  PROVE EtcdOK' /\ AgentsOK' /\ WatchersOK'
  <2>1. 1 \in 1..MaxStores + 1
    BY MetadataAssumption
  <2>2. AgentsOK'
    BY <1>0, <1>8, <2>1, Zenon DEF Crash, AgentsOK, historyVars
  <2>3. EtcdOK'
    BY <1>0, <1>8, Zenon DEF Crash, EtcdOK
  <2>4. RemoteEmpty \in [Hashes -> Seq(Locations)]
    BY DEF RemoteEmpty
  <2>5. WatchersOK'
    BY <1>0, <1>8, <2>4, Zenon DEF Crash, WatchersOK
  <2> QED
    BY <2>2, <2>3, <2>5
<1>9. ASSUME NEW n \in Nodes, watch_blocks(n) \/ watch_nodes(n) \/ WatchEnds(n)  PROVE AgentsOK'
  <2>1. UNCHANGED <<historyVars, processVars>>
    BY <1>9, Zenon DEF watch_blocks, watch_nodes, NodeJoined, NodeLeft, NodeUnringed,
      NodeResponse, WatchEnds
  <2> QED
    BY <1>0, <2>1, Zenon DEF AgentsOK, historyVars, processVars
<1>10. ASSUME NEW n \in Nodes, watch_blocks(n)  PROVE EtcdOK' /\ WatchersOK'
  <2>1. /\ block_stream[n] \in Seq(BlockResponses) /\ block_stream[n] # << >>
        /\ remote' = [remote EXCEPT ![n] = Applied(remote[n], Head(block_stream[n]))]
        /\ block_stream' = [block_stream EXCEPT ![n] = Tail(block_stream[n])]
        /\ UNCHANGED <<leases, node_keys, block_keys, node_stream, ring>>
    BY <1>0, <1>10, Zenon DEF watch_blocks, Watching, EtcdOK
  <2>2. Head(block_stream[n]) \in BlockResponses /\ Tail(block_stream[n]) \in Seq(BlockResponses)
    BY <2>1, TailOf
  <2>3. remote[n] \in [Hashes -> Seq(Locations)] /\ \A h \in Hashes : OnePerNode(remote[n][h])
    BY <1>0, Zenon DEF WatchersOK, MetaInv, RemoteOK, RemoteOf
  <2>4. Applied(remote[n], Head(block_stream[n])) \in [Hashes -> Seq(Locations)]
    BY <2>2, <2>3, AppliedType, Zenon
  <2> QED
    BY <1>0, <2>1, <2>2, <2>4, Zenon DEF EtcdOK, WatchersOK
<1>11. ASSUME NEW n \in Nodes, watch_nodes(n)  PROVE EtcdOK' /\ WatchersOK'
  <2> DEFINE s == node_stream[n]
  <2>1. /\ s \in Seq(NodeResponses) /\ s # << >>
        /\ UNCHANGED <<leases, node_keys, block_keys, block_stream>>
    BY <1>0, <1>11, Zenon DEF watch_nodes, NodeJoined, NodeLeft, NodeUnringed, NodeResponse,
      Watching, EtcdOK
  <2>2. /\ Head(s) \in NodeResponses /\ Tail(s) \in Seq(NodeResponses)
        /\ Head(s) = s[1] /\ 1 \in DOMAIN s
    BY <2>1, TailOf
  <2>3. CASE NodeJoined(n) \/ NodeUnringed(n)
    <3>1. /\ node_stream' = [node_stream EXCEPT ![n] = Tail(s)]
          /\ UNCHANGED remote
          /\ \/ ring' = [ring EXCEPT ![n] = ring[n] \cup {Head(s).node}]
             \/ ring' = [ring EXCEPT ![n] = ring[n] \ {Head(s).node}]
      BY <2>3, Zenon DEF NodeJoined, NodeUnringed
    <3>2. Head(s).node \in Nodes
      BY <2>2 DEF NodeResponses
    <3>3. EtcdOK'
      BY <1>0, <2>1, <2>2, <3>1, Zenon DEF EtcdOK
    <3>4. WatchersOK'
      <4>1. ring[n] \cup {Head(s).node} \in SUBSET Nodes /\ ring[n] \ {Head(s).node} \in SUBSET Nodes
        BY <1>0, <3>2, Zenon DEF WatchersOK
      <4> QED
        BY <1>0, <3>1, <4>1, Zenon DEF WatchersOK
    <3> QED
      BY <3>3, <3>4
  <2>4. CASE NodeLeft(n)
    <3>1. /\ node_stream' = [node_stream EXCEPT ![n] = [s EXCEPT ![1] = [s[1] EXCEPT !.type = "unring"]]]
          /\ UNCHANGED ring
          /\ remote' = [remote EXCEPT ![n] = RemoteRemoveNode(remote[n], Head(s).node)]
      BY <2>4, Zenon DEF NodeLeft
    <3>2. [s[1] EXCEPT !.type = "unring"] \in NodeResponses
      BY <2>2, Zenon DEF NodeResponses
    <3>3. [s EXCEPT ![1] = [s[1] EXCEPT !.type = "unring"]] \in Seq(NodeResponses)
      BY <2>1, <2>2, <3>2
    <3>4. remote[n] \in [Hashes -> Seq(Locations)] /\ \A h \in Hashes : OnePerNode(remote[n][h])
      BY <1>0, Zenon DEF WatchersOK, MetaInv, RemoteOK, RemoteOf
    <3>5. RemoteRemoveNode(remote[n], Head(s).node) \in [Hashes -> Seq(Locations)]
      BY <3>4, RemoveNodeType, Zenon
    <3> QED
      BY <1>0, <2>1, <3>1, <3>3, <3>5, Zenon DEF EtcdOK, WatchersOK
  <2> QED
    BY <1>11, <2>3, <2>4 DEF watch_nodes
<1>12. ASSUME NEW n \in Nodes, WatchEnds(n)  PROVE EtcdOK' /\ WatchersOK'
  BY <1>0, <1>12, Zenon DEF WatchEnds, EtcdOK, WatchersOK, watcherVars
<1>13. ASSUME NEW l \in Leases, Expire(l)  PROVE EtcdOK' /\ AgentsOK' /\ WatchersOK'
  <2>1. UNCHANGED <<historyVars, processVars, watcherVars>> /\ EndLease(l)
    BY <1>13 DEF Expire
  <2> QED
    BY <1>0, <2>1, EndLeaseType, Zenon
       DEF AgentsOK, WatchersOK, historyVars, processVars, watcherVars
<1>14. CASE UNCHANGED vars
  <2>1. UNCHANGED <<etcdVars, historyVars, processVars, watcherVars>>
    BY <1>14 DEF vars
  <2> QED
    BY <1>0, <2>1, EtcdKept, Zenon DEF AgentsOK, WatchersOK, historyVars, processVars, watcherVars
<1> QED
  BY <1>1, <1>2, <1>3, <1>5, <1>6, <1>7, <1>8, <1>9, <1>10, <1>11, <1>12, <1>13, <1>14, Zenon
    DEF Next

----------------------------------------------------------------------------
(* Processes and their leases *)

(* What main does up to the watches.                                       *)
Boots(n, i) ==
  /\ i = Len(boots) + 1 /\ i \in Leases /\ Len(boots) \in Nat
  /\ boots' = Append(boots, n) /\ DOMAIN boots = 1..Len(boots)
  /\ Len(boots') = i /\ DOMAIN boots' = 1..i
  /\ boots'[i] = n /\ \A j \in 1..Len(boots) : boots'[j] = boots[j]
  /\ pc[n] = "down" /\ pc' = [pc EXCEPT ![n] = "watch_blocks"]
  /\ UNCHANGED <<block_keys, block_stream, stores, generation, tasks, remote, ring>>
  /\ \/ UNCHANGED <<leases, node_keys, node_stream, lease_id>>
     \/ /\ leases' = [leases EXCEPT ![i] = "live"]
        /\ lease_id' = [lease_id EXCEPT ![n] = i]
        /\ \/ UNCHANGED <<node_keys, node_stream>>
           \/ /\ node_keys' = [node_keys EXCEPT ![n] = i]
              /\ node_stream' = Notify(node_stream, [type |-> "put", node |-> n])

LEMMA BootShape ==
  ASSUME VariablesOK, NEW n \in Nodes, Boot(n)
  PROVE  Boots(n, Len(boots) + 1)
<1> DEFINE i == Len(boots) + 1
<1>1. i \in Leases /\ Len(boots) \in Nat
  BY NextLease DEF Boot
<1>2. /\ boots' = Append(boots, n) /\ pc[n] = "down" /\ pc' = [pc EXCEPT ![n] = "watch_blocks"]
      /\ UNCHANGED <<stores, generation, tasks, remote, ring>>
      /\ RegisterFails(n, i) \/ (register_node(n, i) /\ start_keepalive(n))
  BY Zenon DEF Boot, Goto, watcherVars
<1>3. boots \in Seq(Nodes)
  BY DEF VariablesOK
<1>4. /\ DOMAIN boots = 1..Len(boots) /\ Len(boots') = i /\ DOMAIN boots' = 1..i
      /\ boots'[i] = n /\ \A j \in 1..Len(boots) : boots'[j] = boots[j]
  BY <1>2, <1>3, AppendOf
<1> HIDE DEF i
<1>5. /\ UNCHANGED <<block_keys, block_stream>>
      /\ \/ UNCHANGED <<leases, node_keys, node_stream, lease_id>>
         \/ /\ leases' = [leases EXCEPT ![i] = "live"]
            /\ lease_id' = [lease_id EXCEPT ![n] = i]
            /\ \/ UNCHANGED <<node_keys, node_stream>>
               \/ /\ node_keys' = [node_keys EXCEPT ![n] = i]
                  /\ node_stream' = Notify(node_stream, [type |-> "put", node |-> n])
  BY <1>2, Zenon DEF RegisterFails, register_node, LeaseGrant, GrantAndPutNode, etcdVars
<1> QED
  BY <1>1, <1>2, <1>4, <1>5, Zenon DEF Boots, i

(* The end of lease l.                                                     *)
Ended(l) ==
  /\ leases[l] = "live" /\ leases'[l] \in {"over", "left"}
  /\ \A k \in Leases \ {l} : leases'[k] = leases[k]

LEMMA EndShape ==
  ASSUME EtcdOK, NEW l \in Leases, EndLease(l)
  PROVE  Ended(l) /\ (NodesOf(l) # {} => leases'[l] = "left")
BY DEF EtcdOK, EndLease, Ended

(* A step other than a start of main keeps the order of processes.         *)
LEMMA SameProcesses ==
  ASSUME UNCHANGED boots, NEW n
  PROVE  Process(n)' = Process(n) /\ \A i : Latest(n, i)' <=> Latest(n, i)
BY Zenon DEF Process, Latest

LEMMA ProcessesKept ==
  ASSUME VariablesOK, ProcessesOK, UNCHANGED boots,
         \A l \in Leases : leases[l] = "none" <=> leases'[l] = "none",
         \A m \in Nodes :
           /\ pc'[m] = "down" => tasks'[m] = {} /\ lease_id'[m] = None
           /\ pc'[m] # "down" => pc[m] # "down" /\ lease_id'[m] = lease_id[m]
           /\ generation'[m] <= stores' + 1
  PROVE  ProcessesOK'
<1>1. \A l \in Leases : l > Len(boots') => leases'[l] = "none"
  BY DEF ProcessesOK
<1>2. ASSUME NEW m \in Nodes, pc'[m] # "down"
      PROVE  /\ Latest(m, Process(m))'
             /\ lease_id'[m] = None => leases'[Process(m)'] = "none"
             /\ lease_id'[m] # None => lease_id'[m] = Process(m)' /\ leases'[lease_id'[m]] # "none"
  <2>1. /\ Latest(m, Process(m))
        /\ lease_id[m] = None => leases[Process(m)] = "none"
        /\ lease_id[m] # None => lease_id[m] = Process(m) /\ leases[lease_id[m]] # "none"
    BY <1>2 DEF ProcessesOK
  <2>2. Process(m) \in Leases
    BY <2>1, MetadataAssumption DEF Latest, VariablesOK, Leases
  <2>3. Process(m)' = Process(m) /\ Latest(m, Process(m))'
    BY <2>1, SameProcesses
  <2> QED
    BY <1>2, <2>1, <2>2, <2>3
<1> QED
  BY <1>1, <1>2 DEF ProcessesOK

LEMMA ProcessesBoot ==
  ASSUME VariablesOK, VariablesOK', ProcessesOK, NEW n \in Nodes, NEW i, Boots(n, i)
  PROVE  ProcessesOK'
<1>0. ProcessIsLatest'
  BY TheProcess, PTL
<1> USE DEF Boots
<1>1. Latest(n, i)'
  BY DEF Latest
<1>2. Process(n)' = i
  BY <1>0, <1>1, ZenonT(30) DEF ProcessIsLatest
<1>3. \A l \in Leases : l > Len(boots') => leases'[l] = "none"
  BY DEF ProcessesOK, VariablesOK, Leases
<1>4. lease_id[n] = None /\ leases[i] = "none"
  BY DEF ProcessesOK, Leases
<1>5. /\ lease_id'[n] = None => leases'[i] = "none"
      /\ lease_id'[n] # None => lease_id'[n] = i /\ leases'[i] # "none"
  BY <1>4, MetadataAssumption DEF VariablesOK
<1>6. ASSUME NEW m \in Nodes, m # n
      PROVE  /\ pc'[m] = "down" => tasks'[m] = {} /\ lease_id'[m] = None
             /\ pc'[m] # "down" =>
                  /\ Latest(m, Process(m))'
                  /\ lease_id'[m] = None => leases'[Process(m)'] = "none"
                  /\ lease_id'[m] # None =>
                       lease_id'[m] = Process(m)' /\ leases'[lease_id'[m]] # "none"
             /\ generation'[m] <= stores' + 1
  <2>1. pc'[m] = pc[m] /\ lease_id'[m] = lease_id[m] /\ tasks'[m] = tasks[m]
    BY <1>6 DEF VariablesOK
  <2>2. /\ pc[m] = "down" => tasks[m] = {} /\ lease_id[m] = None
        /\ generation'[m] <= stores' + 1
    BY DEF ProcessesOK
  <2>3. ASSUME pc[m] # "down"
        PROVE  /\ Latest(m, Process(m))'
               /\ lease_id'[m] = None => leases'[Process(m)'] = "none"
               /\ lease_id'[m] # None =>
                    lease_id'[m] = Process(m)' /\ leases'[lease_id'[m]] # "none"
    <3> DEFINE q == Process(m)
    <3>1. /\ Latest(m, q)
          /\ lease_id[m] = None => leases[q] = "none"
          /\ lease_id[m] # None => lease_id[m] = q /\ leases[lease_id[m]] # "none"
      BY <2>3 DEF ProcessesOK
    <3> HIDE DEF q
    <3>2. q \in 1..Len(boots) /\ q # i /\ q \in Leases
      BY <3>1, MetadataAssumption DEF Latest, Leases
    <3>3. \A j \in 1..i : boots'[j] = m => j \in 1..Len(boots) /\ boots[j] = m
      BY <1>6
    <3>4. /\ q \in DOMAIN boots' /\ boots'[q] = m
          /\ \A j \in DOMAIN boots' : boots'[j] = m => j <= q
      BY <3>1, <3>2, <3>3 DEF Latest
    <3>5. Process(m)' = q
      <4>1. \A k \in Leases : (Latest(m, k))' => Process(m)' = k
        BY <1>0, Zenon DEF ProcessIsLatest
      <4> QED
        BY <3>2, <3>4, <4>1, Zenon DEF Latest
    <3>6. Latest(m, Process(m))'
      BY <3>4, <3>5, Zenon DEF Latest
    <3>7. leases'[q] = leases[q]
      BY <3>2 DEF VariablesOK
    <3> QED
      BY <2>1, <3>1, <3>5, <3>6, <3>7
  <2> QED
    BY <2>1, <2>2, <2>3, ZenonT(30)
<1>7. /\ pc'[n] # "down" /\ generation'[n] <= stores' + 1
      /\ Latest(n, Process(n))'
      /\ lease_id'[n] = None => leases'[Process(n)'] = "none"
      /\ lease_id'[n] # None => lease_id'[n] = Process(n)' /\ leases'[lease_id'[n]] # "none"
  <2>1. pc'[n] # "down" /\ generation'[n] <= stores' + 1
    BY DEF VariablesOK, ProcessesOK
  <2>2. Latest(n, Process(n))'
    BY <1>1, <1>2, Zenon DEF Latest
  <2> QED
    BY <1>2, <1>5, <2>1, <2>2, Zenon
<1> QED
  BY <1>3, <1>6, <1>7, Zenon DEF ProcessesOK

LEMMA ProcessesStep ==
  ASSUME MetaInv, VariablesOK', [Next]_vars
  PROVE  ProcessesOK'
<1>0. /\ VariablesOK /\ ProcessesOK /\ EtcdOK
      /\ DOMAIN pc = Nodes /\ DOMAIN tasks = Nodes /\ DOMAIN lease_id = Nodes
      /\ DOMAIN generation = Nodes /\ \A m \in Nodes : generation[m] \in Nat
      /\ stores \in Nat
  BY TypeParts DEF MetaInv, VariablesOK
<1>1. \A m \in Nodes :
        /\ pc[m] = "down" => tasks[m] = {} /\ lease_id[m] = None
        /\ generation[m] <= stores + 1
  BY <1>0 DEF ProcessesOK
<1>2. ASSUME NEW n \in Nodes, Boot(n)  PROVE ProcessesOK'
  BY <1>0, <1>2, BootShape, ProcessesBoot
<1>3. ASSUME NEW n \in Nodes, WatchBlockKeys(n) \/ WatchNodeKeys(n) \/ WatchFails(n)
      PROVE  ProcessesOK'
  <2>1. /\ UNCHANGED <<boots, leases, tasks, lease_id, generation, stores>>
        /\ \A m \in Nodes : pc'[m] = "down" <=> pc[m] = "down"
    BY <1>0, <1>3 DEF WatchBlockKeys, WatchNodeKeys, WatchFails, Goto, historyVars
  <2> QED
    BY <1>0, <1>1, <2>1, ProcessesKept, Zenon
<1>4. ASSUME NEW n \in Nodes, NEW h \in Hashes, Store(n, h)  PROVE ProcessesOK'
  <2>1. UNCHANGED <<boots, pc, leases, lease_id>> /\ pc[n] # "down"
    BY <1>4, Zenon DEF Store, etcdVars, Serving
  <2>2. \A m \in Nodes : m # n => tasks'[m] = tasks[m]
    BY <1>0, <1>4 DEF Store
  <2>3. \A m \in Nodes : generation'[m] <= stores' + 1
    <3>1. stores' = stores + 1 /\ generation' = [generation EXCEPT ![n] = generation[n] + 1]
      BY <1>4, Zenon DEF Store
    <3> QED
      BY <1>0, <1>1, <3>1
  <2> QED
    BY <1>0, <1>1, <2>1, <2>2, <2>3, ProcessesKept, Zenon
<1>5. ASSUME NEW n \in Nodes, NEW q \in tasks[n], Publish(n, q) \/ PublishFails(n, q)
      PROVE  ProcessesOK'
  <2>1. UNCHANGED <<boots, pc, leases, lease_id, generation, stores>> /\ Ends(n, q)
    BY <1>5, Zenon DEF Publish, PublishFails, Ends, PutBlock, etcdVars, historyVars
  <2>2. \A m \in Nodes : tasks'[m] \subseteq tasks[m]
    BY <1>0, <2>1 DEF Ends
  <2>3. \A m \in Nodes : tasks[m] = {} => tasks'[m] = {}
    BY <2>2
  <2> QED
    BY <1>0, <1>1, <2>1, <2>3, ProcessesKept, Zenon
<1>6. ASSUME NEW l \in Leases, EndLease(l), UNCHANGED <<boots, tasks, lease_id, generation, stores>>,
             \A m \in Nodes : pc'[m] = "down" <=> pc[m] = "down"
      PROVE  ProcessesOK'
  <2>1. \A k \in Leases : leases[k] = "none" <=> leases'[k] = "none"
    BY <1>0, <1>6, EndShape DEF Ended
  <2> QED
    BY <1>0, <1>1, <1>6, <2>1, ProcessesKept, Zenon
<1>7. ASSUME UNCHANGED <<boots, leases, tasks, lease_id, generation, stores>>,
             \A m \in Nodes : pc'[m] = "down" <=> pc[m] = "down"
      PROVE  ProcessesOK'
  BY <1>0, <1>1, <1>7, ProcessesKept, Zenon
<1>8. ASSUME NEW n \in Nodes, KeepaliveStops(n) \/ watch_blocks(n) \/ watch_nodes(n) \/ WatchEnds(n)
      PROVE  ProcessesOK'
  <2>1. UNCHANGED <<boots, leases, tasks, lease_id, generation, stores, pc>>
    BY <1>8, Zenon DEF KeepaliveStops, watch_blocks, watch_nodes, NodeJoined, NodeLeft,
      NodeUnringed, NodeResponse, WatchEnds, historyVars, processVars, etcdVars
  <2> QED
    BY <1>7, <2>1, Zenon
<1>9. ASSUME NEW n \in Nodes, Shutdown(n)  PROVE ProcessesOK'
  <2>1. /\ UNCHANGED <<boots, tasks, lease_id, generation, stores>>
        /\ \A m \in Nodes : pc'[m] = "down" <=> pc[m] = "down"
    BY <1>0, <1>9 DEF Shutdown, Goto, historyVars
  <2>2. CASE lease_id[n] # None /\ EndLease(lease_id[n])
    <3>1. lease_id[n] \in Leases
      BY <1>0, <2>2 DEF VariablesOK
    <3> QED
      BY <1>6, <2>1, <2>2, <3>1, Zenon
  <2>3. CASE UNCHANGED etcdVars
    BY <1>7, <2>1, <2>3, Zenon DEF etcdVars
  <2> QED
    BY <1>9, <2>2, <2>3, Zenon DEF Shutdown
<1>10. ASSUME NEW n \in Nodes, Crash(n)  PROVE ProcessesOK'
  <2>1. UNCHANGED <<boots, leases, stores>>
    BY <1>10, Zenon DEF Crash, historyVars
  <2>2. /\ pc'[n] = "down" /\ tasks'[n] = {} /\ lease_id'[n] = None /\ generation'[n] = 1
        /\ \A m \in Nodes \ {n} : /\ pc'[m] = pc[m] /\ tasks'[m] = tasks[m]
                                  /\ lease_id'[m] = lease_id[m] /\ generation'[m] = generation[m]
    BY <1>0, <1>10, Zenon DEF Crash
  <2>3. generation'[n] <= stores' + 1
    BY <1>0, <2>1, <2>2
  <2>4. \A m \in Nodes : /\ pc'[m] = "down" => tasks'[m] = {} /\ lease_id'[m] = None
                         /\ pc'[m] # "down" => pc[m] # "down" /\ lease_id'[m] = lease_id[m]
                         /\ generation'[m] <= stores' + 1
    BY <1>1, <2>1, <2>2, <2>3
  <2> QED
    BY <1>0, <2>1, <2>4, ProcessesKept, Zenon
<1>11. ASSUME NEW l \in Leases, Expire(l)  PROVE ProcessesOK'
  <2>1. UNCHANGED <<boots, tasks, lease_id, generation, stores, pc>> /\ EndLease(l)
    BY <1>11, Zenon DEF Expire, historyVars, processVars
  <2> QED
    BY <1>6, <2>1, Zenon
<1>12. CASE UNCHANGED vars
  <2>1. UNCHANGED <<boots, leases, tasks, lease_id, generation, stores, pc>>
    BY <1>12 DEF vars, etcdVars, historyVars, processVars
  <2> QED
    BY <1>7, <2>1, Zenon
<1> QED
  BY <1>2, <1>3, <1>4, <1>5, <1>8, <1>9, <1>10, <1>11, <1>12, Zenon DEF Next

----------------------------------------------------------------------------
(* What etcd holds *)

(* A response goes to the open watches, as the last one.                   *)
LEMMA Notified ==
  ASSUME NEW S, NEW st \in [Nodes -> Seq(S) \cup {None}], NEW e, NEW n \in Nodes,
         Notify(st, e)[n] # None
  PROVE  st[n] # None /\ st[n] \in Seq(S) /\ Notify(st, e)[n] = Append(st[n], e)
BY DEF Notify

(* A start of main.                                                        *)
LEMMA KeysBoot ==
  ASSUME MetaInv, NEW n \in Nodes, NEW i, Boots(n, i)
  PROVE  NodeKeysOK' /\ BlockKeysOK' /\ DeletesOK'
<1>0. EtcdOK /\ NodeKeysOK /\ BlockKeysOK /\ DeletesOK
  BY TypeParts, Zenon DEF MetaInv
<1>1. \A l \in DOMAIN boots : l \in DOMAIN boots' /\ boots'[l] = boots[l] /\ leases'[l] = leases[l]
  <2>1. \A l \in 1..Len(boots) : l \in 1..i /\ l # i /\ l \in Leases
    BY MetadataAssumption DEF Boots, Leases
  <2> QED
    BY <1>0, <2>1, Zenon DEF Boots, EtcdOK
<1>2. NodeKeysOK'
  <2> SUFFICES ASSUME NEW m \in Nodes, node_keys'[m] # None
               PROVE  /\ node_keys'[m] \in DOMAIN boots' /\ boots'[node_keys'[m]] = m
                      /\ leases'[node_keys'[m]] = "live"
    BY DEF NodeKeysOK
  <2>1. CASE node_keys'[m] = node_keys[m]
    BY <1>0, <1>1, <2>1 DEF NodeKeysOK
  <2>2. CASE node_keys'[m] # node_keys[m]
    <3>1. m = n /\ node_keys'[m] = i /\ leases'[i] = "live"
      BY <1>0, <2>2 DEF Boots, EtcdOK
    <3>2. i \in DOMAIN boots' /\ boots'[i] = n
      BY DEF Boots
    <3> QED
      BY <3>1, <3>2
  <2> QED
    BY <2>1, <2>2
<1>3. BlockKeysOK'
  BY <1>0, <1>1, ZenonT(30) DEF BlockKeysOK, Boots
<1>4. DeletesOK'
  <2> SUFFICES ASSUME NEW m \in Nodes, node_stream'[m] # None,
                      NEW j \in DOMAIN node_stream'[m], node_stream'[m][j].type # "put"
               PROVE  \E l \in DOMAIN boots' : boots'[l] = node_stream'[m][j].node /\ leases'[l] = "left"
    BY DEF DeletesOK, DeletesOf
  <2>1. CASE node_stream'[m] = node_stream[m]
    <3>1. PICK l \in DOMAIN boots : boots[l] = node_stream'[m][j].node /\ leases[l] = "left"
      BY <1>0, <2>1 DEF DeletesOK, DeletesOf
    <3> QED
      BY <1>1, <3>1
  <2>2. CASE node_stream'[m] # node_stream[m]
    <3> DEFINE e == [type |-> "put", node |-> n]
    <3>1. node_stream' = Notify(node_stream, e)
      BY <2>2, Zenon DEF Boots
    <3>2. /\ node_stream[m] # None /\ node_stream[m] \in Seq(NodeResponses)
          /\ node_stream'[m] = Append(node_stream[m], e)
      <4>1. Notify(node_stream, e)[m] # None
        BY <3>1
      <4>2. node_stream \in [Nodes -> Seq(NodeResponses) \cup {None}]
        BY <1>0, Zenon DEF EtcdOK
      <4> HIDE DEF e
      <4>3. /\ node_stream[m] # None /\ node_stream[m] \in Seq(NodeResponses)
            /\ Notify(node_stream, e)[m] = Append(node_stream[m], e)
        BY <4>1, <4>2, Notified
      <4> QED
        BY <3>1, <4>3
    <3>3. e \in NodeResponses /\ e.type = "put"
      BY DEF NodeResponses
    <3> HIDE DEF e
    <3>4. j \in DOMAIN node_stream[m] /\ node_stream'[m][j] = node_stream[m][j]
      BY <3>2, <3>3, AppendOf
    <3>5. PICK l \in DOMAIN boots : boots[l] = node_stream'[m][j].node /\ leases[l] = "left"
      BY <1>0, <3>2, <3>4 DEF DeletesOK, DeletesOf
    <3> QED
      BY <1>1, <3>5
  <2> QED
    BY <2>1, <2>2
<1> QED
  BY <1>2, <1>3, <1>4

(* The end of a lease takes its keys with it.                              *)
LEMMA KeysEnd ==
  ASSUME MetaInv, NEW l \in Leases, EndLease(l), UNCHANGED boots
  PROVE  NodeKeysOK' /\ BlockKeysOK' /\ DeletesOK'
<1>0. EtcdOK /\ NodeKeysOK /\ BlockKeysOK /\ DeletesOK /\ boots \in Seq(Nodes) /\ Len(boots) <= MaxBoots
  BY TypeParts, Zenon DEF MetaInv, AgentsOK
<1>1. Ended(l) /\ (NodesOf(l) # {} => leases'[l] = "left")
  BY <1>0, EndShape
<1>2. DOMAIN boots \subseteq Leases
  BY <1>0, MetadataAssumption DEF Leases
<1>3. NodeKeysOK'
  <2> SUFFICES ASSUME NEW m \in Nodes, node_keys'[m] # None
               PROVE  /\ node_keys'[m] \in DOMAIN boots /\ boots[node_keys'[m]] = m
                      /\ leases'[node_keys'[m]] = "live"
    BY Zenon DEF NodeKeysOK
  <2>1. node_keys'[m] = node_keys[m] /\ node_keys[m] # l
    BY DEF EndLease, NodesOf
  <2>2. /\ node_keys[m] \in DOMAIN boots /\ boots[node_keys[m]] = m
        /\ leases[node_keys[m]] = "live"
    BY <1>0, <2>1 DEF NodeKeysOK
  <2> QED
    BY <1>1, <1>2, <2>1, <2>2 DEF Ended
<1>4. BlockKeysOK'
  <2> SUFFICES ASSUME NEW h \in Hashes, block_keys'[h] # None
               PROVE  LET p == block_keys'[h].info.process IN
                      /\ p \in DOMAIN boots /\ boots[p] = block_keys'[h].info.node
                      /\ \/ block_keys'[h].lease = p /\ leases'[p] = "live"
                         \/ block_keys'[h].lease = None /\ leases'[p] = "none"
    BY DEF BlockKeysOK
  <2> DEFINE p == block_keys[h].info.process
  <2>1. block_keys'[h] = block_keys[h] /\ block_keys[h].lease # l
    BY DEF EndLease, HashesOf
  <2>2. /\ p \in DOMAIN boots /\ boots[p] = block_keys[h].info.node
        /\ \/ block_keys[h].lease = p /\ leases[p] = "live"
           \/ block_keys[h].lease = None /\ leases[p] = "none"
    BY <1>0, <2>1, ZenonT(30) DEF BlockKeysOK
  <2>3. p # l
    BY <1>1, <2>1, <2>2 DEF Ended
  <2>4. leases'[p] = leases[p]
    BY <1>1, <1>2, <2>2, <2>3 DEF Ended
  <2> QED
    BY <2>1, <2>2, <2>4
<1>5. DeletesOK'
  <2> SUFFICES ASSUME NEW m \in Nodes, node_stream'[m] # None,
                      NEW j \in DOMAIN node_stream'[m], node_stream'[m][j].type # "put"
               PROVE  \E k \in DOMAIN boots : boots[k] = node_stream'[m][j].node /\ leases'[k] = "left"
    BY DEF DeletesOK, DeletesOf
  <2>1. ASSUME node_stream[m] # None, NEW i \in DOMAIN node_stream[m], node_stream[m][i].type # "put"
        PROVE  \E k \in DOMAIN boots : boots[k] = node_stream[m][i].node /\ leases'[k] = "left"
    <3>1. PICK k \in DOMAIN boots : boots[k] = node_stream[m][i].node /\ leases[k] = "left"
      BY <1>0, <2>1 DEF DeletesOK, DeletesOf
    <3> QED
      BY <1>1, <1>2, <3>1 DEF Ended
  <2>2. CASE NodesOf(l) = {}
    <3>1. node_stream' = node_stream
      BY <2>2 DEF EndLease
    <3> QED
      BY <2>1, <3>1, Zenon
  <2>3. CASE NodesOf(l) # {}
    <3> DEFINE m0 == CHOOSE n \in NodesOf(l) : TRUE
               e == [type |-> "delete", node |-> m0]
    <3>1. m0 \in Nodes /\ node_keys[m0] = l
      BY <2>3, Zenon DEF NodesOf
    <3>2. l \in DOMAIN boots /\ boots[l] = m0 /\ leases'[l] = "left"
      <4>1. node_keys[m0] # None
        BY <3>1, MetadataAssumption, ZenonT(30)
      <4> HIDE DEF m0
      <4> QED
        BY <1>0, <1>1, <2>3, <3>1, <4>1 DEF NodeKeysOK
    <3>3. node_stream' = Notify(node_stream, e)
      BY <2>3 DEF EndLease
    <3>4. e \in NodeResponses /\ e.node = m0
      BY <3>1, Zenon DEF NodeResponses
    <3> HIDE DEF m0, e
    <3>5. /\ node_stream[m] # None /\ node_stream[m] \in Seq(NodeResponses)
          /\ node_stream'[m] = Append(node_stream[m], e)
      <4>1. Notify(node_stream, e)[m] # None
        BY <3>3
      <4>2. node_stream \in [Nodes -> Seq(NodeResponses) \cup {None}]
        BY <1>0 DEF EtcdOK
      <4>3. /\ node_stream[m] # None /\ node_stream[m] \in Seq(NodeResponses)
            /\ Notify(node_stream, e)[m] = Append(node_stream[m], e)
        BY <4>1, <4>2, Notified
      <4> QED
        BY <3>3, <4>3
    <3>6. \/ j \in DOMAIN node_stream[m] /\ node_stream'[m][j] = node_stream[m][j]
          \/ node_stream'[m][j] = e
      BY <3>4, <3>5, AppendOf
    <3>7. CASE node_stream'[m][j] = e
      BY <3>2, <3>4, <3>7
    <3>8. CASE j \in DOMAIN node_stream[m] /\ node_stream'[m][j] = node_stream[m][j]
      BY <2>1, <3>5, <3>8
    <3> QED
      BY <3>6, <3>7, <3>8
  <2> QED
    BY <2>2, <2>3
<1> QED
  BY <1>3, <1>4, <1>5

(* publish_block puts under the lease of its process, or under none when   *)
(* the process was granted none.                                           *)
LEMMA KeysPublish ==
  ASSUME MetaInv, NEW n \in Nodes, NEW q \in tasks[n], Publish(n, q)
  PROVE  NodeKeysOK' /\ BlockKeysOK' /\ DeletesOK'
<1>0. EtcdOK /\ ProcessesOK /\ NodeKeysOK /\ BlockKeysOK /\ DeletesOK
  BY TypeParts, Zenon DEF MetaInv
<1>1. /\ UNCHANGED <<boots, leases, node_keys, node_stream>> /\ Accepts(lease_id[n])
      /\ block_keys' = [block_keys EXCEPT ![q.hash] =
                          [info |-> Location(n, q.gen), lease |-> lease_id[n]]]
  BY Zenon DEF Publish, Ends, PutBlock, historyVars
<1>2. /\ q.hash \in Hashes
      /\ Location(n, q.gen).node = n /\ Location(n, q.gen).process = Process(n)
      /\ pc[n] # "down" /\ Latest(n, Process(n))
  BY PublishedLocation DEF MetaInv
<1>3. NodeKeysOK' /\ DeletesOK'
  <2>1. NodeKeysOK'
    BY <1>0, <1>1, ZenonT(30) DEF NodeKeysOK
  <2>2. ASSUME NEW m \in Nodes  PROVE DeletesOf(m)'
    BY <1>0, <1>1, ZenonT(30) DEF DeletesOK, DeletesOf
  <2> QED
    BY <2>1, <2>2, Zenon DEF DeletesOK
<1>4. BlockKeysOK'
  <2> SUFFICES ASSUME NEW h \in Hashes, block_keys'[h] # None
               PROVE  LET p == block_keys'[h].info.process IN
                      /\ p \in DOMAIN boots /\ boots[p] = block_keys'[h].info.node
                      /\ \/ block_keys'[h].lease = p /\ leases[p] = "live"
                         \/ block_keys'[h].lease = None /\ leases[p] = "none"
    BY <1>1, Zenon DEF BlockKeysOK
  <2>1. CASE h = q.hash
    <3> DEFINE x == Location(n, q.gen)
    <3>1. block_keys'[h] = [info |-> x, lease |-> lease_id[n]]
      BY <1>0, <1>1, <2>1, Zenon DEF EtcdOK
    <3>2. /\ lease_id[n] = None => leases[Process(n)] = "none"
          /\ lease_id[n] # None => lease_id[n] = Process(n)
      BY <1>0, <1>2 DEF ProcessesOK
    <3>3. lease_id[n] # None => leases[lease_id[n]] = "live"
      BY <1>1 DEF Accepts
    <3>4. Process(n) \in DOMAIN boots /\ boots[Process(n)] = n
      BY <1>2 DEF Latest
    <3>5. x.node = n /\ x.process = Process(n)
      BY <1>2, Zenon
    <3> HIDE DEF x
    <3> QED
      BY <3>1, <3>2, <3>3, <3>4, <3>5
  <2>2. CASE h # q.hash
    <3>1. block_keys'[h] = block_keys[h]
      BY <1>0, <1>1, <2>2, Zenon DEF EtcdOK
    <3> QED
      BY <1>0, <3>1 DEF BlockKeysOK
  <2> QED
    BY <2>1, <2>2
<1> QED
  BY <1>3, <1>4

----------------------------------------------------------------------------
(* What a watch leaves *)

(* A further response of the node watch.                                   *)
LEMMA LeavesAppend ==
  ASSUME NEW s \in Seq(NodeResponses), NEW e \in NodeResponses, NEW m, NEW R,
         \/ e.node # m /\ Leaves(s, m, R)
         \/ e.node = m /\ e.type # "put"
  PROVE  Leaves(Append(s, e), m, R)
<1> DEFINE t == Append(s, e)
<1>1. /\ Len(s) \in Nat /\ DOMAIN s = 1..Len(s) /\ DOMAIN t = 1..Len(s) + 1
      /\ \A i \in 1..Len(s) : t[i] = s[i]
      /\ t[Len(s) + 1] = e
  BY AppendOf
<1> HIDE DEF t
<1>2. CASE e.node = m /\ e.type # "put"
  <2>1. Len(s) + 1 \in DOMAIN t /\ \A j \in DOMAIN t : ~ (j > Len(s) + 1)
    BY <1>1
  <2> QED
    BY <1>1, <1>2, <2>1, Zenon DEF Leaves, t
<1>3. CASE e.node # m /\ Leaves(s, m, R)
  <2>1. \A j \in DOMAIN t : t[j].node = m => j \in DOMAIN s /\ t[j] = s[j]
    BY <1>1, <1>3
  <2>2. \A j \in DOMAIN s : j \in DOMAIN t /\ t[j] = s[j]
    BY <1>1
  <2>3. Leaves(t, m, R)
    BY <1>3, <2>1, <2>2, ZenonT(30) DEF Leaves
  <2> QED
    BY <2>3 DEF t
<1> QED
  BY <1>2, <1>3

(* The first response is applied: m joins only by a put, and a delete of m *)
(* takes it out.                                                           *)
LEMMA LeavesTail ==
  ASSUME NEW s \in Seq(NodeResponses), s # << >>, NEW m, NEW R, NEW Q,
         Leaves(s, m, R),
         m \in Q => m \in R \/ (s[1].node = m /\ s[1].type = "put"),
         s[1].node = m /\ s[1].type # "put" => m \notin Q
  PROVE  Leaves(Tail(s), m, Q)
<1> DEFINE t == Tail(s)
<1>1. /\ Len(s) \in Nat \ {0} /\ DOMAIN s = 1..Len(s) /\ DOMAIN t = 1..Len(s) - 1
      /\ \A i \in 1..Len(s) - 1 : t[i] = s[i + 1]
  BY TailOf
<1> HIDE DEF t
<1>2. 1 \in DOMAIN s /\ \A i \in DOMAIN t : i + 1 \in DOMAIN s /\ t[i] = s[i + 1] /\ i + 1 > 1
  BY <1>1
<1>3. CASE m \notin R /\ \A i \in DOMAIN s : s[i].node = m => s[i].type # "put"
  <2>1. m \notin Q
    BY <1>2, <1>3
  <2>2. \A i \in DOMAIN t : t[i].node = m => t[i].type # "put"
    BY <1>2, <1>3
  <2> QED
    BY <2>1, <2>2 DEF Leaves, t
<1>4. ASSUME NEW i \in DOMAIN s, s[i].node = m /\ s[i].type # "put",
             \A j \in DOMAIN s : j > i /\ s[j].node = m => s[j].type # "put"
      PROVE  Leaves(t, m, Q)
  <2>1. CASE i = 1
    <3>1. m \notin Q
      BY <1>4, <2>1
    <3>2. \A j \in DOMAIN t : t[j].node = m => t[j].type # "put"
      BY <1>2, <1>4, <2>1
    <3> QED
      BY <3>1, <3>2, Zenon DEF Leaves
  <2>2. CASE i # 1
    <3>1. i - 1 \in DOMAIN t /\ t[i - 1] = s[i]
      BY <1>1, <2>2
    <3>2. \A j \in DOMAIN t : j > i - 1 => j + 1 > i
      BY <1>1
    <3>3. \A j \in DOMAIN t : j > i - 1 /\ t[j].node = m => t[j].type # "put"
      BY <1>2, <1>4, <3>2
    <3>4. t[i - 1].node = m /\ t[i - 1].type # "put"
      BY <1>4, <3>1
    <3> QED
      BY <3>1, <3>3, <3>4, Zenon DEF Leaves
  <2> QED
    BY <2>1, <2>2
<1> QED
  BY <1>3, <1>4 DEF Leaves, t

(* The first response waits for the lock of the ring.                      *)
LEMMA LeavesWaiting ==
  ASSUME NEW s, NEW t, NEW m, NEW R, Leaves(s, m, R), DOMAIN t = DOMAIN s,
         \A i \in DOMAIN s : t[i].node = s[i].node /\ (t[i].type = "put" <=> s[i].type = "put")
  PROVE  Leaves(t, m, R)
BY DEF Leaves

(* A further response of the block watch.                                  *)
LEMMA FollowsAppend ==
  ASSUME NEW s \in Seq(BlockResponses), NEW e \in BlockResponses,
         NEW h, NEW k, NEW known, NEW b,
         \/ ~ About(e, h) /\ Follows(s, h, k, known, b)
         \/ About(e, h) /\ Tells(e, k)
  PROVE  Follows(Append(s, e), h, k, known, b)
<1> DEFINE t == Append(s, e)
<1>1. /\ Len(s) \in Nat /\ DOMAIN s = 1..Len(s) /\ DOMAIN t = 1..Len(s) + 1
      /\ \A i \in 1..Len(s) : t[i] = s[i]
      /\ t[Len(s) + 1] = e
  BY AppendOf
<1> HIDE DEF t
<1>2. CASE About(e, h) /\ Tells(e, k)
  <2>1. Len(s) + 1 \in DOMAIN t /\ \A j \in DOMAIN t : ~ (j > Len(s) + 1)
    BY <1>1
  <2> QED
    BY <1>1, <1>2, <2>1, Zenon DEF Follows, t
<1>3. CASE ~ About(e, h) /\ Follows(s, h, k, known, b)
  <2>1. \A j \in DOMAIN t : (j \in DOMAIN s /\ t[j] = s[j]) \/ t[j] = e
    BY <1>1
  <2>2. \A j \in DOMAIN s : j \in DOMAIN t /\ t[j] = s[j]
    BY <1>1
  <2>3. \A j \in DOMAIN t : About(t[j], h) => j \in DOMAIN s /\ t[j] = s[j]
    BY <1>3, <2>1, Zenon
  <2>4. CASE \A i \in DOMAIN s : ~ About(s[i], h)
    <3>1. \A i \in DOMAIN t : ~ About(t[i], h)
      BY <2>3, <2>4, Zenon
    <3> QED
      BY <1>3, <2>4, <3>1, Zenon DEF Follows, t
  <2>5. ASSUME NEW i \in DOMAIN s, About(s[i], h) /\ Tells(s[i], k),
               \A j \in DOMAIN s : j > i => ~ About(s[j], h)
        PROVE  Follows(t, h, k, known, b)
    <3>1. i \in DOMAIN t /\ About(t[i], h) /\ Tells(t[i], k)
      BY <2>2, <2>5, Zenon
    <3>2. \A j \in DOMAIN t : j > i => ~ About(t[j], h)
      BY <2>3, <2>5, Zenon
    <3> QED
      BY <3>1, <3>2, Zenon DEF Follows
  <2> QED
    BY <1>3, <2>4, <2>5, Zenon DEF Follows, t
<1> QED
  BY <1>2, <1>3

(* The first response is applied to the index.                             *)
LEMMA FollowsTail ==
  ASSUME NEW s \in Seq(BlockResponses), s # << >>, NEW h, NEW k, NEW known, NEW now, NEW b,
         Follows(s, h, k, known, b),
         ~ About(s[1], h) => now = known,
         About(s[1], h) /\ s[1].type # "put" => now = << >>,
         About(s[1], h) /\ s[1].type = "put" => \E i \in DOMAIN now : now[i] = s[1].info
  PROVE  Follows(Tail(s), h, k, now, b)
<1> DEFINE t == Tail(s)
<1>1. /\ Len(s) \in Nat \ {0} /\ DOMAIN s = 1..Len(s) /\ DOMAIN t = 1..Len(s) - 1
      /\ \A i \in 1..Len(s) - 1 : t[i] = s[i + 1]
  BY TailOf
<1> HIDE DEF t
<1>2. 1 \in DOMAIN s /\ \A i \in DOMAIN t : i + 1 \in DOMAIN s /\ t[i] = s[i + 1] /\ i + 1 > 1
  BY <1>1
<1>3. CASE \A i \in DOMAIN s : ~ About(s[i], h)
  <2>1. now = known
    BY <1>2, <1>3, Zenon
  <2>2. \A i \in DOMAIN t : ~ About(t[i], h)
    BY <1>2, <1>3, ZenonT(30)
  <2> QED
    BY <1>3, <2>1, <2>2, Zenon DEF Follows, t
<1>4. ASSUME NEW i \in DOMAIN s, About(s[i], h) /\ Tells(s[i], k),
             \A j \in DOMAIN s : j > i => ~ About(s[j], h)
      PROVE  Follows(t, h, k, now, b)
  <2>1. CASE i = 1
    <3>1. \A j \in DOMAIN t : ~ About(t[j], h)
      BY <1>2, <1>4, <2>1, Zenon
    <3>2. k = None => now = << >>
      BY <1>4, <2>1 DEF Tells
    <3>3. k # None => \E j \in DOMAIN now : now[j] = k.info
      BY <1>4, <2>1 DEF Tells
    <3> QED
      BY <3>1, <3>2, <3>3, Zenon DEF Follows
  <2>2. CASE i # 1
    <3>1. i - 1 \in DOMAIN t /\ t[i - 1] = s[i]
      BY <1>1, <2>2
    <3>2. \A j \in DOMAIN t : j > i - 1 => j + 1 > i
      BY <1>1
    <3>3. \A j \in DOMAIN t : j > i - 1 => ~ About(t[j], h)
      BY <1>2, <1>4, <3>2, Zenon
    <3>4. About(t[i - 1], h) /\ Tells(t[i - 1], k)
      BY <1>4, <3>1, Zenon
    <3> QED
      BY <3>1, <3>3, <3>4, ZenonT(30) DEF Follows
  <2> QED
    BY <2>1, <2>2
<1> QED
  BY <1>3, <1>4, Zenon DEF Follows, t

(* The index loses what does not matter, and more processes ran.           *)
LEMMA FollowsLess ==
  ASSUME NEW s, NEW h, NEW k, NEW known, NEW now, NEW b, NEW c,
         Follows(s, h, k, known, b),
         known = << >> => now = << >>,
         k # None /\ NeverRestarted(k.info, c) =>
           /\ NeverRestarted(k.info, b)
           /\ (\E i \in DOMAIN known : known[i] = k.info) => \E i \in DOMAIN now : now[i] = k.info
  PROVE  Follows(s, h, k, now, c)
BY Zenon DEF Follows
=============================================================================
