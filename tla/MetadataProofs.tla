--------------------------- MODULE MetadataProofs ---------------------------
(***************************************************************************)
(* Theorems about Metadata, for any number of agents, hashes, processes    *)
(* and stores: what an agent knows from its two watches follows what etcd  *)
(* holds.                                                                  *)
(***************************************************************************)
EXTENDS EtcdProofs

----------------------------------------------------------------------------
(* Changes in etcd reach the agents *)

(* Where main is before the watches are open.                              *)
Starting == {"down", "watch_blocks", "watch_nodes"}

(* A step of etcd: nothing of the agents changes, but for responses that   *)
(* their watches get.                                                      *)
EtcdStep ==
  /\ UNCHANGED <<remote, ring>>
  /\ \A m \in Nodes : pc'[m] \in Starting => pc[m] \in Starting
  /\ \A m \in Nodes : node_stream[m] = None => node_stream'[m] = None

LEMMA StartKept ==
  ASSUME MetaInv, EtcdStep
  PROVE  RemoteOK' /\ StartOK'
<1>1. RemoteOK'
  <2>1. RemoteOK /\ remote' = remote
    BY DEF MetaInv, EtcdStep
  <2> QED
    BY <2>1, Zenon DEF RemoteOK, RemoteOf
<1>2. ASSUME NEW m \in Nodes  PROVE StartOf(m)'
  <2>1. StartOf(m) /\ remote' = remote /\ ring' = ring
    BY Zenon DEF MetaInv, StartOK, EtcdStep
  <2> QED
    BY <2>1 DEF StartOf, EtcdStep, Starting
<1> QED
  BY <1>1, <1>2 DEF StartOK

(* The node watch after one more response, or without one.                 *)
LEMMA RingNotified ==
  ASSUME MetaInv, NEW e \in NodeResponses, node_stream' = Notify(node_stream, e), UNCHANGED ring,
         \A m \in Nodes : node_keys'[m] = None =>
           \/ e.node # m /\ node_keys[m] = None
           \/ e.node = m /\ e.type # "put"
  PROVE  RingFollows'
<1> SUFFICES ASSUME NEW n \in Nodes, NEW m \in Nodes,
                    node_stream'[n] # None, m # n, node_keys'[m] = None
             PROVE  Leaves(node_stream'[n], m, ring[n])
  BY DEF RingFollows, RingOf
<1>1. /\ node_stream[n] # None /\ node_stream[n] \in Seq(NodeResponses)
      /\ node_stream'[n] = Append(node_stream[n], e)
  <2>1. Notify(node_stream, e)[n] # None
    BY Zenon
  <2>2. node_stream \in [Nodes -> Seq(NodeResponses) \cup {None}]
    BY SMTT(30) DEF MetaInv, VariablesOK
  <2> QED
    BY <2>1, <2>2, Notified
<1>2. CASE e.node # m /\ node_keys[m] = None
  <2>1. Leaves(node_stream[n], m, ring[n])
    BY <1>1, <1>2, ZenonT(30) DEF MetaInv, RingFollows, RingOf
  <2> QED
    BY <1>1, <1>2, <2>1, LeavesAppend, ZenonT(30)
<1>3. CASE e.node = m /\ e.type # "put"
  BY <1>1, <1>3, LeavesAppend
<1> QED
  BY <1>2, <1>3, ZenonT(30)

LEMMA RingSame ==
  ASSUME MetaInv, UNCHANGED <<node_stream, ring>>,
         \A m \in Nodes : node_keys'[m] = None => node_keys[m] = None
  PROVE  RingFollows'
<1>1. RingFollows /\ node_stream' = node_stream /\ ring' = ring
  BY Zenon DEF MetaInv
<1> QED
  BY <1>1 DEF RingFollows, RingOf

(* The block watch after one more response, or without one.                *)
LEMMA BlocksNotified ==
  ASSUME MetaInv, NEW e \in BlockResponses, block_stream' = Notify(block_stream, e),
         UNCHANGED <<remote, boots>>,
         \A h \in Hashes : \/ ~ About(e, h) /\ block_keys'[h] = block_keys[h]
                           \/ About(e, h) /\ Tells(e, block_keys'[h])
  PROVE  BlocksFollow'
<1> SUFFICES ASSUME NEW n \in Nodes, NEW h \in Hashes, block_stream'[n] # None
             PROVE  Follows(block_stream'[n], h, block_keys'[h], remote'[n][h], boots')
  BY Zenon DEF BlocksFollow, BlocksOf
<1>1. /\ block_stream[n] # None /\ block_stream[n] \in Seq(BlockResponses)
      /\ block_stream'[n] = Append(block_stream[n], e)
  <2>1. Notify(block_stream, e)[n] # None
    BY Zenon
  <2>2. block_stream \in [Nodes -> Seq(BlockResponses) \cup {None}]
    BY Zenon DEF MetaInv, VariablesOK
  <2> QED
    BY <2>1, <2>2, Notified
<1>2. remote' = remote /\ boots' = boots
  BY Zenon
<1>3. CASE ~ About(e, h) /\ block_keys'[h] = block_keys[h]
  <2>1. Follows(block_stream[n], h, block_keys[h], remote[n][h], boots)
    BY <1>1, Zenon DEF MetaInv, BlocksFollow, BlocksOf
  <2>2. Follows(Append(block_stream[n], e), h, block_keys[h], remote[n][h], boots)
    BY <1>1, <1>3, <2>1, FollowsAppend, ZenonT(30)
  <2> QED
    BY <1>1, <1>2, <1>3, <2>2
<1>4. CASE About(e, h) /\ Tells(e, block_keys'[h])
  <2>1. Follows(Append(block_stream[n], e), h, block_keys'[h], remote'[n][h], boots')
    BY <1>1, <1>4, FollowsAppend, Zenon
  <2> QED
    BY <1>1, <2>1
<1> QED
  BY <1>3, <1>4

LEMMA BlocksSame ==
  ASSUME MetaInv, UNCHANGED <<block_stream, block_keys, remote>>,
         \A i \in DOMAIN boots : i \in DOMAIN boots' /\ boots'[i] = boots[i]
  PROVE  BlocksFollow'
<1> SUFFICES ASSUME NEW n \in Nodes, NEW h \in Hashes, block_stream'[n] # None
             PROVE  Follows(block_stream'[n], h, block_keys'[h], remote'[n][h], boots')
  BY Zenon DEF BlocksFollow, BlocksOf
<1>1. block_stream' = block_stream /\ block_keys' = block_keys /\ remote' = remote
  OBVIOUS
<1>2. Follows(block_stream[n], h, block_keys[h], remote[n][h], boots)
  BY <1>1, Zenon DEF MetaInv, BlocksFollow, BlocksOf
<1>3. \A x : NeverRestarted(x, boots') => NeverRestarted(x, boots)
  BY Zenon DEF NeverRestarted
<1>4. Follows(block_stream[n], h, block_keys[h], remote[n][h], boots')
  BY <1>2, <1>3, Zenon DEF Follows
<1> QED
  BY <1>1, <1>4

LEMMA FollowBoot ==
  ASSUME MetaInv, NEW n \in Nodes, NEW i, Boots(n, i)
  PROVE  RemoteOK' /\ StartOK' /\ RingFollows' /\ BlocksFollow'
<1>0. /\ EtcdOK /\ pc \in [Nodes -> {"down", "watch_blocks", "watch_nodes", "up", "leaving"}]
  BY TypeParts DEF MetaInv, AgentsOK
<1>1. RemoteOK' /\ StartOK'
  <2>1. \A m \in Nodes : pc'[m] \in Starting => pc[m] \in Starting
    BY <1>0 DEF Boots, Starting
  <2>2. \A m \in Nodes : node_stream[m] = None => node_stream'[m] = None
    BY ZenonT(30) DEF Boots, Notify
  <2>3. EtcdStep
    BY <2>1, <2>2 DEF EtcdStep, Boots
  <2> QED
    BY <2>3, StartKept, Zenon
<1>2. RingFollows'
  <2>1. CASE UNCHANGED <<node_keys, node_stream>>
    BY <2>1, RingSame, ZenonT(30) DEF Boots
  <2>2. CASE /\ node_keys' = [node_keys EXCEPT ![n] = i]
             /\ node_stream' = Notify(node_stream, [type |-> "put", node |-> n])
    <3> DEFINE e == [type |-> "put", node |-> n]
    <3>1. e \in NodeResponses /\ e.node = n /\ node_stream' = Notify(node_stream, e)
      BY <2>2 DEF NodeResponses
    <3> HIDE DEF e
    <3>2. i # None
      BY MetadataAssumption, ZenonT(30) DEF Boots
    <3>3. \A m \in Nodes : node_keys'[m] = None => n # m /\ node_keys[m] = None
      BY <1>0, <2>2, <3>2, ZenonT(30) DEF EtcdOK
    <3> QED
      BY <3>1, <3>3, RingNotified DEF Boots
  <2> QED
    BY <2>1, <2>2, Zenon DEF Boots
<1>3. BlocksFollow'
  <2>1. \A j \in DOMAIN boots : j \in DOMAIN boots' /\ boots'[j] = boots[j]
    BY DEF Boots
  <2> QED
    BY <2>1, BlocksSame, Zenon DEF Boots
<1> QED
  BY <1>1, <1>2, <1>3

LEMMA FollowEnd ==
  ASSUME MetaInv, NEW l \in Leases, EndLease(l), UNCHANGED <<boots, remote, ring>>,
         \A m \in Nodes : pc'[m] \in Starting => pc[m] \in Starting
  PROVE  RemoteOK' /\ StartOK' /\ RingFollows' /\ BlocksFollow'
<1>0. EtcdOK /\ NodeKeysOK
  BY TypeParts, Zenon DEF MetaInv
<1>1. RemoteOK' /\ StartOK'
  <2>1. \A m \in Nodes : node_stream[m] = None => node_stream'[m] = None
    BY Zenon DEF EndLease, Notify
  <2>2. EtcdStep
    BY <2>1 DEF EtcdStep
  <2> QED
    BY <2>2, StartKept, Zenon
<1>2. RingFollows'
  <2>0. \A m \in Nodes : node_keys'[m] = None => m \in NodesOf(l) \/ node_keys[m] = None
    BY DEF EndLease
  <2>1. CASE NodesOf(l) = {}
    <3>1. node_stream' = node_stream
      BY <2>1, Zenon DEF EndLease
    <3> QED
      BY <2>0, <2>1, <3>1, RingSame, Zenon
  <2>2. CASE NodesOf(l) # {}
    <3> DEFINE m0 == CHOOSE n \in NodesOf(l) : TRUE
               e == [type |-> "delete", node |-> m0]
    <3>1. m0 \in Nodes /\ node_keys[m0] = l
      BY <2>2, Zenon DEF NodesOf
    <3>2. e \in NodeResponses /\ e.node = m0 /\ e.type # "put"
      BY <3>1, ZenonT(30) DEF NodeResponses
    <3>3. node_stream' = Notify(node_stream, e)
      BY <2>2 DEF EndLease
    <3>4. l # None
      BY MetadataAssumption
    <3> HIDE DEF e, m0
    <3>5. \A m \in NodesOf(l) : m = m0
      <4>1. \A m \in Nodes : node_keys[m] = l => boots[l] = m
        BY <1>0, <3>4 DEF NodeKeysOK
      <4> QED
        BY <3>1, <4>1 DEF NodesOf
    <3>6. \A m \in Nodes : node_keys'[m] = None =>
            \/ e.node # m /\ node_keys[m] = None
            \/ e.node = m /\ e.type # "put"
      BY <2>0, <3>1, <3>2, <3>4, <3>5, Zenon
    <3> QED
      BY <3>2, <3>3, <3>6, RingNotified
  <2> QED
    BY <2>1, <2>2, ZenonT(30)
<1>3. BlocksFollow'
  <2>0. block_keys' = [h \in Hashes |-> IF h \in HashesOf(l) THEN None ELSE block_keys[h]]
    BY ZenonT(30) DEF EndLease
  <2>1. CASE HashesOf(l) = {}
    <3>1. block_stream' = block_stream
      BY <2>1 DEF EndLease
    <3>2. block_keys' = block_keys
      BY <1>0, <2>0, <2>1, ZenonT(30) DEF EtcdOK
    <3> QED
      BY <3>1, <3>2, BlocksSame, ZenonT(30)
  <2>2. CASE HashesOf(l) # {}
    <3> DEFINE e == [type |-> "delete", hashes |-> HashesOf(l)]
    <3>1. HashesOf(l) \in SUBSET Hashes
      BY Zenon DEF HashesOf
    <3>2. e \in BlockResponses
      BY <3>1, Zenon DEF BlockResponses
    <3>3. e.type # "put" /\ e.hashes = HashesOf(l)
      BY Zenon
    <3>4. block_stream' = Notify(block_stream, e)
      BY <2>2 DEF EndLease
    <3> HIDE DEF e
    <3>5. \A h \in Hashes : \/ ~ About(e, h) /\ block_keys'[h] = block_keys[h]
                            \/ About(e, h) /\ Tells(e, block_keys'[h])
      BY <2>0, <3>3 DEF About, Tells
    <3> QED
      BY <3>2, <3>4, <3>5, BlocksNotified
  <2> QED
    BY <2>1, <2>2
<1> QED
  BY <1>1, <1>2, <1>3

LEMMA FollowPublish ==
  ASSUME MetaInv, NEW n \in Nodes, NEW q \in tasks[n], Publish(n, q)
  PROVE  RemoteOK' /\ StartOK' /\ RingFollows' /\ BlocksFollow'
<1> DEFINE x == Location(n, q.gen)
           h0 == q.hash
           e == [type |-> "put", hash |-> h0, info |-> x]
<1>0. EtcdOK
  BY TypeParts, ZenonT(30) DEF MetaInv
<1>1. /\ UNCHANGED <<boots, leases, node_keys, node_stream, pc, remote, ring>>
      /\ block_keys' = [block_keys EXCEPT ![h0] = [info |-> x, lease |-> lease_id[n]]]
      /\ block_stream' = Notify(block_stream, e)
  BY ZenonT(30) DEF Publish, Ends, PutBlock, historyVars, watcherVars
<1>2. x \in Locations /\ h0 \in Hashes
  BY PublishedLocation, ZenonT(30) DEF MetaInv
<1>3. e \in BlockResponses /\ e.type = "put" /\ e.hash = h0 /\ e.info = x
  BY <1>2 DEF BlockResponses
<1> HIDE DEF e, x, h0
<1>4. EtcdStep
  BY <1>1 DEF EtcdStep
<1>5. RingFollows'
  BY <1>1, RingSame
<1>6. \A h \in Hashes : \/ ~ About(e, h) /\ block_keys'[h] = block_keys[h]
                        \/ About(e, h) /\ Tells(e, block_keys'[h])
  <2>1. ASSUME NEW h \in Hashes, h # h0
        PROVE  ~ About(e, h) /\ block_keys'[h] = block_keys[h]
    BY <1>0, <1>1, <1>3, <2>1, Zenon DEF About, EtcdOK
  <2>2. About(e, h0)
    BY <1>3 DEF About
  <2>3. block_keys'[h0] = [info |-> x, lease |-> lease_id[n]]
    BY <1>0, <1>1, <1>2, Zenon DEF EtcdOK
  <2>4. block_keys'[h0] # None
    <3>1. lease_id[n] \in Leases \cup {None}
      BY DEF MetaInv, VariablesOK
    <3>2. [info |-> x, lease |-> lease_id[n]] \in [info : Locations, lease : Leases \cup {None}]
      BY <1>2, <3>1
    <3> QED
      BY <2>3, <3>2, MetadataAssumption, ZenonT(30)
  <2>5. Tells(e, block_keys'[h0])
    <3>1. block_keys'[h0].info = x
      BY <2>3, SMTT(30)
    <3> QED
      BY <1>3, <2>4, <3>1, Zenon DEF Tells
  <2> QED
    BY <2>1, <2>2, <2>5, ZenonT(30)
<1>7. BlocksFollow'
  BY <1>1, <1>3, <1>6, BlocksNotified
<1> QED
  BY <1>4, <1>5, <1>7, StartKept

----------------------------------------------------------------------------
(* Steps of one agent *)

(* What an agent knows follows etcd.                                       *)
Following(n) == DeletesOf(n) /\ RemoteOf(n) /\ StartOf(n) /\ RingOf(n) /\ BlocksOf(n)

WatchInv ==
  /\ NodeKeysOK /\ BlockKeysOK /\ DeletesOK
  /\ RemoteOK /\ StartOK /\ RingFollows /\ BlocksFollow

(* A step of agent n leaves etcd and the other agents alone.               *)
Others(n) ==
  /\ boots' = boots /\ leases' = leases /\ node_keys' = node_keys /\ block_keys' = block_keys
  /\ \A m \in Nodes \ {n} :
       /\ pc'[m] = pc[m] /\ remote'[m] = remote[m] /\ ring'[m] = ring[m]
       /\ node_stream'[m] = node_stream[m] /\ block_stream'[m] = block_stream[m]

LEMMA OneAgent ==
  ASSUME MetaInv, NEW n \in Nodes, Others(n), Following(n)'
  PROVE  WatchInv'
<1>1. NodeKeysOK' /\ BlockKeysOK'
  BY DEF MetaInv, NodeKeysOK, BlockKeysOK, Others
<1>2. ASSUME NEW m \in Nodes, m # n  PROVE Following(m)'
  <2>0. /\ pc'[m] = pc[m] /\ remote'[m] = remote[m] /\ ring'[m] = ring[m]
        /\ node_stream'[m] = node_stream[m] /\ block_stream'[m] = block_stream[m]
        /\ boots' = boots /\ leases' = leases /\ node_keys' = node_keys /\ block_keys' = block_keys
    BY <1>2, Zenon DEF Others
  <2>1. DeletesOf(m)'
    <3>1. DeletesOf(m)
      BY Zenon DEF MetaInv, DeletesOK
    <3> QED
      BY <2>0, <3>1, ZenonT(30) DEF DeletesOf
  <2>2. RemoteOf(m)'
    BY <2>0, Zenon DEF MetaInv, RemoteOK, RemoteOf
  <2>3. StartOf(m)'
    BY <2>0, Zenon DEF MetaInv, StartOK, StartOf
  <2>4. RingOf(m)'
    BY <2>0, ZenonT(30) DEF MetaInv, RingFollows, RingOf
  <2>5. BlocksOf(m)'
    BY <2>0 DEF MetaInv, BlocksFollow, BlocksOf
  <2> QED
    BY <2>1, <2>2, <2>3, <2>4, <2>5, SMTT(30) DEF Following
<1>3. \A m \in Nodes : Following(m)'
  BY <1>2, ZenonT(30)
<1> QED
  BY <1>1, <1>3, ZenonT(30)
    DEF WatchInv, Following, DeletesOK, RemoteOK, StartOK, RingFollows, BlocksFollow

(* Steps that the watches do not see.                                      *)
LEMMA Unwatched ==
  ASSUME MetaInv, UNCHANGED <<boots, etcdVars, remote, ring>>,
         \A m \in Nodes : pc'[m] \in Starting => pc[m] \in Starting
  PROVE  WatchInv'
<1>1. /\ boots' = boots /\ leases' = leases /\ node_keys' = node_keys /\ block_keys' = block_keys
      /\ remote' = remote /\ ring' = ring
      /\ node_stream' = node_stream /\ block_stream' = block_stream
  BY ZenonT(30) DEF etcdVars
<1>2. NodeKeysOK' /\ BlockKeysOK'
  BY <1>1, ZenonT(30) DEF MetaInv, NodeKeysOK, BlockKeysOK
<1>3. ASSUME NEW m \in Nodes  PROVE DeletesOf(m)'
  BY <1>1, SMTT(30) DEF MetaInv, DeletesOK, DeletesOf
<1>4. EtcdStep
  BY <1>1, Zenon DEF EtcdStep
<1>5. RingFollows'
  BY <1>1, RingSame
<1>6. BlocksFollow'
  BY <1>1, BlocksSame, Zenon
<1> QED
  BY <1>2, <1>3, <1>4, <1>5, <1>6, StartKept, Zenon DEF WatchInv, DeletesOK

(* The types that the steps of an agent need.                              *)
LEMMA AgentTypes ==
  ASSUME MetaInv
  PROVE  /\ DOMAIN pc = Nodes /\ DOMAIN ring = Nodes /\ DOMAIN remote = Nodes
         /\ DOMAIN node_stream = Nodes /\ DOMAIN block_stream = Nodes
         /\ \A n \in Nodes :
              /\ remote[n] \in [Hashes -> Seq(Locations)]
              /\ node_stream[n] # None => node_stream[n] \in Seq(NodeResponses)
              /\ block_stream[n] # None => block_stream[n] \in Seq(BlockResponses)
BY ZenonT(30) DEF MetaInv, VariablesOK

LEMMA OpensBlockWatch ==
  ASSUME MetaInv, NEW n \in Nodes, WatchBlockKeys(n)
  PROVE  Others(n) /\ Following(n)'
<1>1. /\ pc[n] = "watch_blocks" /\ pc'[n] = "watch_nodes" /\ ring'[n] = {n}
      /\ block_stream'[n] = << >> /\ node_stream' = node_stream /\ remote' = remote
      /\ Others(n)
  BY AgentTypes DEF WatchBlockKeys, Goto, Others, historyVars
<1>2. StartOf(n) /\ RemoteOf(n)
  BY DEF MetaInv, StartOK, RemoteOK
<1>3. node_stream'[n] = None /\ remote'[n] = RemoteEmpty
  BY <1>1, <1>2 DEF StartOf
<1>4. DeletesOf(n)' /\ RingOf(n)'
  BY <1>3, Zenon DEF DeletesOf, RingOf
<1>5. RemoteOf(n)'
  BY <1>1, <1>2 DEF RemoteOf
<1>6. StartOf(n)'
  BY <1>1, <1>3 DEF StartOf
<1>7. BlocksOf(n)'
  <2> SUFFICES ASSUME NEW h \in Hashes
               PROVE  Follows(block_stream'[n], h, block_keys'[h], remote'[n][h], boots')
    BY Zenon DEF BlocksOf
  <2>1. remote'[n][h] = << >> /\ DOMAIN block_stream'[n] = {}
    BY <1>1, <1>3 DEF RemoteEmpty
  <2> QED
    BY <2>1, Zenon DEF Follows
<1> QED
  BY <1>1, <1>4, <1>5, <1>6, <1>7, ZenonT(30) DEF Following

LEMMA OpensNodeWatch ==
  ASSUME MetaInv, NEW n \in Nodes, WatchNodeKeys(n)
  PROVE  Others(n) /\ Following(n)'
<1>1. /\ pc[n] = "watch_nodes" /\ pc'[n] = "up" /\ node_stream'[n] = << >>
      /\ block_stream' = block_stream /\ remote' = remote /\ ring' = ring
      /\ Others(n)
  BY AgentTypes DEF WatchNodeKeys, Goto, Others, historyVars, watcherVars
<1>2. StartOf(n) /\ RemoteOf(n) /\ BlocksOf(n)
  BY DEF MetaInv, StartOK, RemoteOK, BlocksFollow
<1>3. ring'[n] \subseteq {n}
  BY <1>1, <1>2 DEF StartOf
<1>4. DeletesOf(n)'
  <2>1. DOMAIN node_stream'[n] = {}
    BY <1>1
  <2> QED
    BY <2>1, Zenon DEF DeletesOf
<1>5. RingOf(n)'
  BY <1>1, <1>3 DEF RingOf, Leaves
<1>6. RemoteOf(n)' /\ StartOf(n)'
  BY <1>1, <1>2, ZenonT(30) DEF RemoteOf, StartOf
<1>7. BlocksOf(n)'
  BY <1>1, <1>2 DEF BlocksOf, Others
<1> QED
  BY <1>1, <1>4, <1>5, <1>6, <1>7, Zenon DEF Following

(* An agent without watches follows nothing.                               *)
LEMMA Unfollowing ==
  ASSUME MetaInv, NEW n \in Nodes, WatchFails(n) \/ Crash(n) \/ WatchEnds(n)
  PROVE  Others(n) /\ Following(n)'
<1>1. Others(n)
  BY AgentTypes
     DEF WatchFails, Crash, WatchEnds, Goto, Others, historyVars, watcherVars, processVars
<1>2. StartOf(n) /\ RemoteOf(n)
  BY ZenonT(30) DEF MetaInv, StartOK, RemoteOK
<1>3. block_stream'[n] = None
  BY AgentTypes DEF WatchFails, Crash, WatchEnds
<1>4. node_stream'[n] = None
  <2>1. CASE WatchFails(n)
    <3>1. pc[n] \in {"watch_blocks", "watch_nodes"} /\ node_stream' = node_stream
      BY <2>1, ZenonT(30) DEF WatchFails, Goto
    <3> QED
      BY <1>2, <3>1, Zenon DEF StartOf
  <2>2. CASE Crash(n) \/ WatchEnds(n)
    BY <2>2, AgentTypes DEF Crash, WatchEnds
  <2> QED
    BY <2>1, <2>2, SMTT(30)
<1>5. RemoteOf(n)' /\ StartOf(n)'
  <2>1. CASE WatchFails(n)
    <3>1. pc'[n] = "up" /\ remote' = remote
      BY <2>1, AgentTypes, Zenon DEF WatchFails, Goto
    <3> QED
      BY <1>2, <3>1, ZenonT(30) DEF RemoteOf, StartOf
  <2>2. CASE Crash(n)
    <3>1. remote'[n] = RemoteEmpty /\ ring'[n] = {}
      BY <2>2, AgentTypes, Zenon DEF Crash
    <3> QED
      <4>1. \A h \in Hashes : DOMAIN remote'[n][h] = {}
        BY <3>1 DEF RemoteEmpty
      <4>2. RemoteOf(n)'
        BY <4>1, Zenon DEF RemoteOf, OnePerNode
      <4>3. StartOf(n)'
        BY <1>4, <3>1, ZenonT(30) DEF StartOf
      <4> QED
        BY <4>2, <4>3, Zenon
  <2>3. CASE WatchEnds(n)
    <3>1. pc[n] \in {"up", "leaving"} /\ pc' = pc /\ remote' = remote
      BY <2>3 DEF WatchEnds, Watching, Serving, processVars, watcherVars
    <3> QED
      BY <1>2, <3>1, Zenon DEF RemoteOf, StartOf
  <2> QED
    BY <2>1, <2>2, <2>3, SMTT(30)
<1>6. DeletesOf(n)' /\ RingOf(n)' /\ BlocksOf(n)'
  BY <1>3, <1>4, Zenon DEF DeletesOf, RingOf, BlocksOf
<1> QED
  BY <1>1, <1>5, <1>6, Zenon DEF Following

(* A response of the block watch is applied.                               *)
LEMMA AppliesBlocks ==
  ASSUME MetaInv, NEW n \in Nodes, watch_blocks(n)
  PROVE  Others(n) /\ Following(n)'
<1> DEFINE s == block_stream[n]
           e == Head(s)
           r == remote[n]
<1>1. /\ pc[n] \in {"up", "leaving"} /\ pc' = pc /\ s # None /\ s # << >>
      /\ node_stream' = node_stream /\ ring' = ring /\ boots' = boots /\ leases' = leases
      /\ node_keys' = node_keys /\ block_keys' = block_keys
  BY Zenon DEF watch_blocks, Watching, Serving, historyVars, processVars
<1>2. /\ remote'[n] = Applied(r, e) /\ block_stream'[n] = Tail(s)
      /\ \A m \in Nodes \ {n} : remote'[m] = remote[m] /\ block_stream'[m] = block_stream[m]
  BY AgentTypes, SMTT(30) DEF watch_blocks
<1>3. Others(n)
  BY <1>1, <1>2, Zenon DEF Others
<1>4. DeletesOf(n) /\ RemoteOf(n) /\ RingOf(n) /\ BlocksOf(n)
  BY Zenon DEF MetaInv, DeletesOK, RemoteOK, RingFollows, BlocksFollow
<1>5. s \in Seq(BlockResponses) /\ r \in [Hashes -> Seq(Locations)]
  BY <1>1, AgentTypes, Zenon
<1>6. e = s[1] /\ e \in BlockResponses
  BY <1>1, <1>5, TailOf
<1>7. \A h \in Hashes :
        /\ OnePerNode(Applied(r, e)[h])
        /\ ~ About(e, h) => Applied(r, e)[h] = r[h]
        /\ About(e, h) /\ e.type # "put" => Applied(r, e)[h] = << >>
        /\ About(e, h) /\ e.type = "put" =>
             \E i \in DOMAIN Applied(r, e)[h] : Applied(r, e)[h][i] = e.info
  <2>1. \A h \in Hashes : OnePerNode(r[h])
    BY <1>4, Zenon DEF RemoteOf
  <2> HIDE DEF r, e
  <2> QED
    BY <1>5, <1>6, <2>1, AppliedType, Zenon
<1>8. DeletesOf(n)' /\ RingOf(n)' /\ StartOf(n)'
  BY <1>1, <1>4 DEF DeletesOf, RingOf, StartOf
<1> HIDE DEF r, e, s
<1>9. RemoteOf(n)'
  BY <1>2, <1>7, ZenonT(30) DEF RemoteOf
<1>10. BlocksOf(n)'
  <2> SUFFICES ASSUME NEW h \in Hashes
               PROVE  Follows(block_stream'[n], h, block_keys'[h], remote'[n][h], boots')
    BY Zenon DEF BlocksOf
  <2> DEFINE now == Applied(r, e)[h]
             k == block_keys[h]
  <2>1. Follows(s, h, k, r[h], boots)
    BY <1>1, <1>4, Zenon DEF BlocksOf, s, r
  <2>2. /\ ~ About(s[1], h) => now = r[h]
        /\ About(s[1], h) /\ s[1].type # "put" => now = << >>
        /\ About(s[1], h) /\ s[1].type = "put" => \E i \in DOMAIN now : now[i] = s[1].info
    BY <1>6, <1>7, ZenonT(30)
  <2> HIDE DEF now, k
  <2>3. Follows(Tail(s), h, k, now, boots)
    BY <1>1, <1>5, <2>1, <2>2, FollowsTail, Zenon
  <2> QED
    BY <1>1, <1>2, <2>3, Zenon DEF now, k
<1> QED
  BY <1>3, <1>8, <1>9, <1>10, Zenon DEF Following

(* A node joins the ring, or leaves it.                                    *)
LEMMA AppliesNodes ==
  ASSUME MetaInv, NEW n \in Nodes, NodeJoined(n) \/ NodeUnringed(n)
  PROVE  Others(n) /\ Following(n)'
<1> DEFINE s == node_stream[n]
<1>1. /\ pc[n] \in {"up", "leaving"} /\ pc' = pc /\ s # None /\ s # << >>
      /\ block_stream' = block_stream /\ remote' = remote /\ boots' = boots /\ leases' = leases
      /\ node_keys' = node_keys /\ block_keys' = block_keys
  BY Zenon
     DEF NodeJoined, NodeUnringed, NodeResponse, Watching, Serving, historyVars, processVars
<1>2. /\ node_stream'[n] = Tail(s)
      /\ \A m \in Nodes \ {n} : node_stream'[m] = node_stream[m] /\ ring'[m] = ring[m]
  BY AgentTypes DEF NodeJoined, NodeUnringed
<1>3. Others(n)
  BY <1>1, <1>2 DEF Others
<1>4. DeletesOf(n) /\ RemoteOf(n) /\ RingOf(n) /\ BlocksOf(n)
  BY Zenon DEF MetaInv, DeletesOK, RemoteOK, RingFollows, BlocksFollow
<1>5. s \in Seq(NodeResponses)
  BY <1>1, AgentTypes, Zenon
<1>6. \/ s[1].type = "put" /\ ring'[n] = ring[n] \cup {s[1].node}
      \/ s[1].type # "put" /\ ring'[n] = ring[n] \ {s[1].node}
  <2>1. Head(s) = s[1]
    BY <1>1, <1>5, TailOf, Zenon
  <2> QED
    BY <2>1, AgentTypes, Zenon DEF NodeJoined, NodeUnringed, NodeResponse
<1>7. /\ Len(s) \in Nat \ {0} /\ DOMAIN s = 1..Len(s) /\ DOMAIN Tail(s) = 1..Len(s) - 1
      /\ \A i \in 1..Len(s) - 1 : Tail(s)[i] = s[i + 1]
  BY <1>1, <1>5, TailOf, Zenon
<1>8. RemoteOf(n)' /\ StartOf(n)'
  BY <1>1, <1>4, Zenon DEF RemoteOf, StartOf
<1>9. BlocksOf(n)'
  BY <1>1, <1>4 DEF BlocksOf
<1>10. DeletesOf(n)'
  <2> SUFFICES ASSUME NEW i \in DOMAIN Tail(s), Tail(s)[i].type # "put"
               PROVE  \E l \in DOMAIN boots : boots[l] = Tail(s)[i].node /\ leases[l] = "left"
    BY <1>1, <1>2 DEF DeletesOf
  <2>1. i + 1 \in DOMAIN s /\ Tail(s)[i] = s[i + 1]
    BY <1>7
  <2> QED
    BY <1>1, <1>4, <2>1, ZenonT(30) DEF DeletesOf
<1>11. RingOf(n)'
  <2> SUFFICES ASSUME NEW m \in Nodes, m # n, node_keys[m] = None
               PROVE  Leaves(Tail(s), m, ring'[n])
    BY <1>1, <1>2 DEF RingOf
  <2>1. Leaves(s, m, ring[n])
    BY <1>1, <1>4, Zenon DEF RingOf
  <2>2. /\ m \in ring'[n] => m \in ring[n] \/ (s[1].node = m /\ s[1].type = "put")
        /\ s[1].node = m /\ s[1].type # "put" => m \notin ring'[n]
    BY <1>6
  <2> HIDE DEF s
  <2> QED
    BY <1>1, <1>5, <2>1, <2>2, LeavesTail, Zenon
<1> QED
  BY <1>3, <1>8, <1>9, <1>10, <1>11, Zenon DEF Following

(* remove_node comes after the lease of a process of the node: a process   *)
(* with a publication in etcd is not that one.                             *)
LEMMA ForgetsNode ==
  ASSUME RetainSelects, MetaInv, NEW n \in Nodes, NodeLeft(n)
  PROVE  Others(n) /\ Following(n)'
<1> DEFINE s == node_stream[n]
           t == node_stream'[n]
           m0 == s[1].node
           r == remote[n]
<1>1. /\ pc[n] \in {"up", "leaving"} /\ pc' = pc /\ s # None /\ s # << >>
      /\ block_stream' = block_stream /\ ring' = ring /\ boots' = boots /\ leases' = leases
      /\ node_keys' = node_keys /\ block_keys' = block_keys
  BY DEF NodeLeft, NodeResponse, Watching, Serving, historyVars, processVars
<1>2. \A m \in Nodes \ {n} : node_stream'[m] = node_stream[m] /\ remote'[m] = remote[m]
  BY AgentTypes, Zenon DEF NodeLeft
<1>3. Others(n)
  BY <1>1, <1>2 DEF Others
<1>4. DeletesOf(n) /\ RemoteOf(n) /\ RingOf(n) /\ BlocksOf(n)
  BY Zenon DEF MetaInv, DeletesOK, RemoteOK, RingFollows, BlocksFollow
<1>5. /\ s \in Seq(NodeResponses) /\ DOMAIN s = 1..Len(s) /\ Head(s) = s[1] /\ 1 \in DOMAIN s
      /\ r \in [Hashes -> Seq(Locations)]
  BY <1>1, AgentTypes, TailOf
<1>6. remote'[n] = RemoteRemoveNode(r, m0) /\ s[1].type = "delete"
  BY <1>5, AgentTypes, Zenon DEF NodeLeft, NodeResponse
<1>7. /\ DOMAIN t = DOMAIN s
      /\ \A i \in DOMAIN s : t[i].node = s[i].node /\ (t[i].type = "put" <=> s[i].type = "put")
  <2>1. node_stream' = [node_stream EXCEPT ![n][1].type = "unring"]
    BY DEF NodeLeft
  <2>2. t = [s EXCEPT ![1] = [s[1] EXCEPT !.type = "unring"]]
    BY <2>1, AgentTypes, Zenon
  <2>3. \A i \in DOMAIN s : i # 1 => t[i] = s[i]
    BY <2>2
  <2>4. t[1] = [s[1] EXCEPT !.type = "unring"]
    BY <1>5, <2>2, Zenon
  <2>5. s[1] \in [type : {"put", "delete", "unring"}, node : Nodes]
    <3>1. s[1] \in NodeResponses
      BY <1>1, <1>5, TailOf, Zenon
    <3> QED
      BY <3>1, Zenon DEF NodeResponses
  <2>6. t[1].node = s[1].node /\ t[1].type = "unring"
    BY <2>4, <2>5
  <2>7. DOMAIN t = DOMAIN s
    BY <2>2
  <2> HIDE DEF t, s
  <2> QED
    BY <1>6, <2>3, <2>6, <2>7
<1>8. PICK l \in DOMAIN boots : boots[l] = m0 /\ leases[l] = "left"
  BY <1>1, <1>4, <1>5, <1>6, ZenonT(30) DEF DeletesOf
<1> HIDE DEF t, s, r, m0
<1>9. StartOf(n)'
  BY <1>1, Zenon DEF StartOf
<1>10. DeletesOf(n)'
  <2> SUFFICES ASSUME NEW i \in DOMAIN t, t[i].type # "put"
               PROVE  \E k \in DOMAIN boots : boots[k] = t[i].node /\ leases[k] = "left"
    BY <1>1 DEF DeletesOf, t
  <2>1. i \in DOMAIN s /\ s[i].type # "put" /\ t[i].node = s[i].node
    BY <1>7, Zenon
  <2> QED
    BY <1>1, <1>4, <2>1, Zenon DEF DeletesOf, s
<1>11. RingOf(n)'
  <2> SUFFICES ASSUME NEW m \in Nodes, m # n, node_keys[m] = None
               PROVE  Leaves(t, m, ring[n])
    BY <1>1 DEF RingOf, t
  <2>1. Leaves(s, m, ring[n])
    BY <1>1, <1>4, Zenon DEF RingOf, s
  <2> QED
    BY <1>7, <2>1, LeavesWaiting, Zenon
<1>12. RemoteOf(n)'
  <2>1. \A h \in Hashes : OnePerNode(r[h])
    BY <1>4 DEF RemoteOf, r
  <2>2. \A h \in Hashes : OnePerNode(RemoteRemoveNode(r, m0)[h])
    BY <1>5, <2>1, RemoveNodeType, Zenon
  <2> QED
    BY <1>6, <2>2, Zenon DEF RemoteOf
<1>13. BlocksOf(n)'
  <2> SUFFICES ASSUME NEW h \in Hashes, block_stream[n] # None
               PROVE  Follows(block_stream[n], h, block_keys[h], remote'[n][h], boots)
    BY <1>1, Zenon DEF BlocksOf
  <2> DEFINE k == block_keys[h]
             known == r[h]
             now == RemoteRemoveNode(r, m0)[h]
  <2>1. Follows(block_stream[n], h, k, known, boots)
    BY <1>4, Zenon DEF BlocksOf, r
  <2>2. OnePerNode(known)
    BY <1>4 DEF RemoteOf, r
  <2>3. /\ known = << >> => now = << >>
        /\ \A i \in DOMAIN known : known[i].node # m0 => \E j \in DOMAIN now : now[j] = known[i]
    <3>1. OnePerNode(r[h]) /\ r \in [Hashes -> Seq(Locations)]
      BY <1>5, <2>2
    <3>2. Forgets(r[h], RemoteRemoveNode(r, m0)[h], m0)
      <4> HIDE DEF known, now, k
      <4> QED
        BY <3>1, RemoveNodeKeeps, Zenon
    <3> QED
      BY <3>2, Zenon DEF Forgets
  <2>4. ASSUME k # None, NeverRestarted(k.info, boots)  PROVE k.info.node # m0
    <3>1. /\ boots[k.info.process] = k.info.node
          /\ leases[k.info.process] \in {"live", "none"}
      BY <2>4, Zenon DEF MetaInv, BlockKeysOK
    <3>2. k.info.node = m0 => l = k.info.process
      BY <1>8, <2>4 DEF NeverRestarted
    <3> QED
      BY <1>8, <3>1, <3>2, Zenon
  <2>5. remote'[n][h] = now
    BY <1>6
  <2> HIDE DEF k, known, now
  <2>6. k # None /\ NeverRestarted(k.info, boots) =>
          ((\E i \in DOMAIN known : known[i] = k.info) => \E i \in DOMAIN now : now[i] = k.info)
    BY <2>3, <2>4, Zenon
  <2>7. Follows(block_stream[n], h, k, now, boots)
    BY <2>1, <2>3, <2>6, FollowsLess, Zenon
  <2> QED
    BY <2>5, <2>7 DEF k
<1> QED
  BY <1>3, <1>9, <1>10, <1>11, <1>12, <1>13 DEF Following

----------------------------------------------------------------------------
(* The invariant *)

LEMMA WatchStep ==
  ASSUME RetainSelects, MetaInv, [Next]_vars
  PROVE  WatchInv'
<1>0. /\ VariablesOK /\ DOMAIN pc = Nodes
  BY DEF MetaInv, VariablesOK
<1>1. ASSUME NEW n \in Nodes, Boot(n)  PROVE WatchInv'
  BY <1>0, <1>1, BootShape, KeysBoot, FollowBoot DEF WatchInv
<1>2. ASSUME NEW n \in Nodes, WatchBlockKeys(n)  PROVE WatchInv'
  BY <1>2, OpensBlockWatch, OneAgent
<1>3. ASSUME NEW n \in Nodes, WatchNodeKeys(n)  PROVE WatchInv'
  BY <1>3, OpensNodeWatch, OneAgent
<1>4. ASSUME NEW n \in Nodes, WatchFails(n) \/ Crash(n) \/ WatchEnds(n)  PROVE WatchInv'
  BY <1>4, Unfollowing, OneAgent
<1>5. ASSUME NEW n \in Nodes, NEW h \in Hashes, Store(n, h)  PROVE WatchInv'
  <2>1. UNCHANGED <<boots, etcdVars, remote, ring, pc>>
    BY <1>5, Zenon DEF Store, watcherVars
  <2> QED
    BY <2>1, Unwatched
<1>6. ASSUME NEW n \in Nodes, NEW q \in tasks[n], Publish(n, q)  PROVE WatchInv'
  BY <1>6, KeysPublish, FollowPublish, ZenonT(30) DEF WatchInv
<1>7. ASSUME NEW n \in Nodes, NEW q \in tasks[n], PublishFails(n, q)  PROVE WatchInv'
  <2>1. UNCHANGED <<boots, etcdVars, remote, ring, pc>>
    BY <1>7 DEF PublishFails, Ends, watcherVars, historyVars
  <2> QED
    BY <2>1, Unwatched
<1>8. ASSUME NEW n \in Nodes, KeepaliveStops(n)  PROVE WatchInv'
  <2>1. UNCHANGED <<boots, etcdVars, remote, ring, pc>>
    BY <1>8 DEF KeepaliveStops, watcherVars, historyVars
  <2> QED
    BY <2>1, Unwatched
<1>9. ASSUME NEW n \in Nodes, Shutdown(n)  PROVE WatchInv'
  <2>1. /\ UNCHANGED <<boots, remote, ring>>
        /\ \A m \in Nodes : pc'[m] \in Starting => pc[m] \in Starting
    BY <1>0, <1>9, ZenonT(30) DEF Shutdown, Goto, watcherVars, historyVars, Starting
  <2>2. CASE lease_id[n] # None /\ EndLease(lease_id[n])
    <3>1. lease_id[n] \in Leases
      BY <1>0, <2>2 DEF VariablesOK
    <3> QED
      BY <2>1, <2>2, <3>1, KeysEnd, FollowEnd, ZenonT(30) DEF WatchInv
  <2>3. CASE UNCHANGED etcdVars
    BY <2>1, <2>3, Unwatched, ZenonT(30)
  <2> QED
    BY <1>9, <2>2, <2>3 DEF Shutdown
<1>10. ASSUME NEW n \in Nodes, watch_blocks(n)  PROVE WatchInv'
  BY <1>10, AppliesBlocks, OneAgent
<1>11. ASSUME NEW n \in Nodes, watch_nodes(n)  PROVE WatchInv'
  BY <1>11, AppliesNodes, ForgetsNode, OneAgent, Zenon DEF watch_nodes
<1>12. ASSUME NEW l \in Leases, Expire(l)  PROVE WatchInv'
  <2>1. UNCHANGED <<boots, remote, ring, pc>> /\ EndLease(l)
    BY <1>12 DEF Expire, historyVars, processVars, watcherVars
  <2> QED
    BY <2>1, KeysEnd, FollowEnd DEF WatchInv
<1>13. CASE UNCHANGED vars
  <2>1. UNCHANGED <<boots, etcdVars, remote, ring, pc>>
    BY <1>13 DEF vars, historyVars, processVars, watcherVars
  <2> QED
    BY <2>1, Unwatched
<1> QED
  BY <1>1, <1>2, <1>3, <1>4, <1>5, <1>6, <1>7, <1>8, <1>9, <1>10, <1>11, <1>12, <1>13, ZenonT(30)
    DEF Next

LEMMA MetaInit == Init => MetaInv
<1> SUFFICES ASSUME Init  PROVE MetaInv
  OBVIOUS
<1>1. VariablesOK
  <2>1. EtcdOK
    BY ZenonT(30) DEF Init, EtcdInit, EtcdOK
  <2>2. AgentsOK
    BY MetadataAssumption DEF Init, AgentsOK
  <2>3. RemoteEmpty \in [Hashes -> Seq(Locations)]
    BY DEF RemoteEmpty
  <2>4. WatchersOK
    BY <2>3, Zenon DEF Init, WatchersOK
  <2> QED
    BY <2>1, <2>2, <2>4, TypeParts, SMTT(30)
<1>2. ProcessesOK
  BY DEF Init, EtcdInit, ProcessesOK
<1>3. NodeKeysOK /\ BlockKeysOK
  BY DEF Init, EtcdInit, NodeKeysOK, BlockKeysOK
<1>4. ASSUME NEW n \in Nodes  PROVE Following(n)
  <2>1. node_stream[n] = None /\ block_stream[n] = None /\ remote[n] = RemoteEmpty /\ ring[n] = {}
    BY DEF Init, EtcdInit
  <2>2. DeletesOf(n) /\ RingOf(n) /\ BlocksOf(n)
    BY <2>1, Zenon DEF DeletesOf, RingOf, BlocksOf
  <2>3. StartOf(n)
    BY <2>1 DEF StartOf
  <2>4. RemoteOf(n)
    BY <2>1 DEF RemoteOf, RemoteEmpty, OnePerNode
  <2> QED
    BY <2>2, <2>3, <2>4 DEF Following
<1> QED
  BY <1>1, <1>2, <1>3, <1>4, Zenon
    DEF MetaInv, Following, DeletesOK, RemoteOK, StartOK, RingFollows, BlocksFollow

----------------------------------------------------------------------------
(* Registered nodes *)

(* In watch s every response that m left is followed by one that it joined. *)
Rejoins(s, m) ==
  \A i \in DOMAIN s : s[i].node = m /\ s[i].type # "put" =>
    \E j \in DOMAIN s : j > i /\ s[j].node = m /\ s[j].type = "put"

JoinsOf(n) ==
  node_stream[n] # None =>
    \A m \in Nodes : node_keys[m] # None => Rejoins(node_stream[n], m)

JoinsFollow == \A n \in Nodes : JoinsOf(n)

(* A further response of the node watch.                                   *)
LEMMA RejoinsAppend ==
  ASSUME NEW s \in Seq(NodeResponses), NEW e \in NodeResponses, NEW m,
         \/ e.node # m /\ Rejoins(s, m)
         \/ e.node = m /\ e.type = "put"
  PROVE  Rejoins(Append(s, e), m)
<1> DEFINE t == Append(s, e)
           l == Len(s) + 1
<1>1. /\ Len(s) \in Nat /\ DOMAIN s = 1..Len(s) /\ DOMAIN t = 1..l
      /\ \A i \in 1..Len(s) : t[i] = s[i]
      /\ t[l] = e
  BY AppendOf
<1> HIDE DEF t
<1>2. CASE e.node = m /\ e.type = "put"
  <2>1. ASSUME NEW i \in DOMAIN t, t[i].type # "put"
        PROVE  l \in DOMAIN t /\ l > i
    BY <1>1, <1>2, <2>1
  <2> QED
    BY <1>1, <1>2, <2>1, Zenon DEF Rejoins, t
<1>3. CASE e.node # m /\ Rejoins(s, m)
  <2>1. \A j \in DOMAIN t : t[j].node = m => j \in DOMAIN s /\ t[j] = s[j]
    BY <1>1, <1>3
  <2>2. \A j \in DOMAIN s : j \in DOMAIN t /\ t[j] = s[j]
    BY <1>1
  <2> QED
    BY <1>3, <2>1, <2>2, ZenonT(30) DEF Rejoins, t
<1> QED
  BY <1>2, <1>3

(* The first response is applied, or its first half.                       *)
LEMMA RejoinsTail ==
  ASSUME NEW s \in Seq(NodeResponses), s # << >>, NEW m, Rejoins(s, m)
  PROVE  /\ Rejoins(Tail(s), m)
         /\ s[1].node = m /\ s[1].type # "put" =>
              \E j \in DOMAIN Tail(s) : Tail(s)[j].node = m /\ Tail(s)[j].type = "put"
<1> DEFINE t == Tail(s)
<1>1. /\ Len(s) \in Nat \ {0} /\ DOMAIN s = 1..Len(s) /\ DOMAIN t = 1..Len(s) - 1
      /\ \A i \in 1..Len(s) - 1 : t[i] = s[i + 1]
  BY TailOf
<1> HIDE DEF t
<1>2. ASSUME NEW i \in DOMAIN s, s[i].node = m, s[i].type # "put"
      PROVE  \E j \in DOMAIN t : j > i - 1 /\ t[j].node = m /\ t[j].type = "put"
  <2>1. PICK k \in DOMAIN s : k > i /\ s[k].node = m /\ s[k].type = "put"
    BY <1>2, Zenon DEF Rejoins
  <2>2. k - 1 \in DOMAIN t /\ k - 1 > i - 1 /\ t[k - 1] = s[k]
    BY <1>1, <2>1
  <2> QED
    BY <2>1, <2>2, Zenon
<1>3. ASSUME NEW i \in DOMAIN t, t[i].node = m, t[i].type # "put"
      PROVE  \E j \in DOMAIN t : j > i /\ t[j].node = m /\ t[j].type = "put"
  <2>1. i + 1 \in DOMAIN s /\ t[i] = s[i + 1] /\ (i + 1) - 1 = i
    BY <1>1
  <2>2. \E j \in DOMAIN t : j > (i + 1) - 1 /\ t[j].node = m /\ t[j].type = "put"
    BY <1>2, <1>3, <2>1, Zenon
  <2> QED
    BY <2>1, <2>2, Zenon
<1>4. s[1].node = m /\ s[1].type # "put" =>
        \E j \in DOMAIN t : t[j].node = m /\ t[j].type = "put"
  <2>1. 1 \in DOMAIN s
    BY <1>1
  <2> QED
    BY <1>2, <2>1, Zenon
<1> QED
  BY <1>3, <1>4, Zenon DEF Rejoins, t

LEMMA RejoinsUnring ==
  ASSUME NEW s \in Seq(NodeResponses), s # << >>, NEW m, Rejoins(s, m), s[1].type = "delete"
  PROVE  Rejoins([s EXCEPT ![1] = [s[1] EXCEPT !.type = "unring"]], m)
<1> DEFINE t == [s EXCEPT ![1] = [s[1] EXCEPT !.type = "unring"]]
<1>1. 1 \in DOMAIN s /\ s[1] \in NodeResponses
  BY TailOf
<1>2. /\ DOMAIN t = DOMAIN s
      /\ \A i \in DOMAIN s : t[i].node = s[i].node /\ (t[i].type = "put" <=> s[i].type = "put")
  BY <1>1 DEF NodeResponses
<1> HIDE DEF t
<1> QED
  BY <1>2, Zenon DEF Rejoins, t

(* etcd tells the watches of a further response.                           *)
LEMMA JoinsNotified ==
  ASSUME VariablesOK, JoinsFollow, NEW e \in NodeResponses,
         node_stream' = Notify(node_stream, e),
         \A m \in Nodes : node_keys'[m] # None =>
           \/ e.node # m /\ node_keys[m] # None
           \/ e.node = m /\ e.type = "put"
  PROVE  JoinsFollow'
<1> SUFFICES ASSUME NEW n \in Nodes, NEW m \in Nodes, node_stream'[n] # None, node_keys'[m] # None
             PROVE  Rejoins(node_stream'[n], m)
  BY Zenon DEF JoinsFollow, JoinsOf
<1>1. /\ node_stream[n] # None /\ node_stream[n] \in Seq(NodeResponses)
      /\ node_stream'[n] = Append(node_stream[n], e)
  <2>1. /\ node_stream \in [Nodes -> Seq(NodeResponses) \cup {None}]
        /\ Notify(node_stream, e)[n] # None
    BY Zenon DEF VariablesOK
  <2> QED
    BY <2>1, Notified
<1>2. \/ e.node # m /\ Rejoins(node_stream[n], m)
      \/ e.node = m /\ e.type = "put"
  BY <1>1, Zenon DEF JoinsFollow, JoinsOf
<1> QED
  BY <1>1, <1>2, RejoinsAppend

(* No step leaves a registered node whose last response says that it left: *)
(* the put of a registration follows the deletion of the one before.       *)
LEMMA JoinsStep ==
  ASSUME VariablesOK, JoinsFollow, [Next]_vars
  PROVE  JoinsFollow'
<1>0. /\ DOMAIN node_stream = Nodes /\ node_keys \in [Nodes -> Leases \cup {None}]
      /\ \A n \in Nodes : node_stream[n] # None => node_stream[n] \in Seq(NodeResponses)
  BY DEF VariablesOK
<1>1. ASSUME UNCHANGED <<node_keys, node_stream>>  PROVE JoinsFollow'
  BY <1>1, Zenon DEF JoinsFollow, JoinsOf
<1>2. ASSUME NEW n \in Nodes, UNCHANGED node_keys,
             \A m \in Nodes \ {n} : node_stream'[m] = node_stream[m], JoinsOf(n)'
      PROVE  JoinsFollow'
  BY <1>2, Zenon DEF JoinsFollow, JoinsOf
<1>3. ASSUME NEW n \in Nodes, Boot(n)  PROVE JoinsFollow'
  <2> DEFINE i == Len(boots) + 1
             e == [type |-> "put", node |-> n]
  <2>1. Boots(n, i)
    BY <1>3, BootShape
  <2>2. CASE /\ node_keys' = [node_keys EXCEPT ![n] = i]
             /\ node_stream' = Notify(node_stream, e)
    <3>1. e \in NodeResponses /\ e.node = n /\ e.type = "put"
      BY DEF NodeResponses
    <3>2. \A m \in Nodes : m # n => node_keys'[m] = node_keys[m]
      BY <1>0, <2>2
    <3> HIDE DEF e
    <3> QED
      BY <2>2, <3>1, <3>2, JoinsNotified
  <2> HIDE DEF i, e
  <2> QED
    BY <1>1, <2>1, <2>2, Zenon DEF Boots, e
<1>4. ASSUME NEW l \in Leases, EndLease(l)  PROVE JoinsFollow'
  <2>1. \A m \in Nodes : node_keys'[m] # None => node_keys[m] # None /\ m \notin NodesOf(l)
    BY <1>0, <1>4 DEF EndLease
  <2>2. CASE NodesOf(l) = {}
    <3>1. node_stream' = node_stream
      BY <1>4, <2>2, Zenon DEF EndLease
    <3> QED
      BY <2>1, <3>1, Zenon DEF JoinsFollow, JoinsOf
  <2>3. CASE NodesOf(l) # {}
    <3> DEFINE x == CHOOSE n \in NodesOf(l) : TRUE
               e == [type |-> "delete", node |-> x]
    <3>1. x \in NodesOf(l) /\ x \in Nodes
      BY <2>3 DEF NodesOf
    <3>2. node_stream' = Notify(node_stream, e)
      BY <1>4, <2>3, Zenon DEF EndLease
    <3> HIDE DEF x
    <3>3. e \in NodeResponses /\ e.node = x
      BY <3>1 DEF NodeResponses
    <3> HIDE DEF e
    <3> QED
      BY <2>1, <3>1, <3>2, <3>3, JoinsNotified
  <2> QED
    BY <2>2, <2>3, ZenonT(30)
<1>5. ASSUME NEW n \in Nodes, WatchNodeKeys(n)  PROVE JoinsFollow'
  <2>1. /\ node_stream'[n] = << >> /\ node_keys' = node_keys
        /\ \A m \in Nodes \ {n} : node_stream'[m] = node_stream[m]
    BY <1>0, <1>5, Zenon DEF WatchNodeKeys
  <2>2. DOMAIN node_stream'[n] = {}
    BY <2>1
  <2> QED
    BY <1>2, <2>1, <2>2, Zenon DEF JoinsOf, Rejoins
<1>6. ASSUME NEW n \in Nodes, Crash(n) \/ WatchEnds(n)  PROVE JoinsFollow'
  <2>1. /\ node_stream'[n] = None /\ node_keys' = node_keys
        /\ \A m \in Nodes \ {n} : node_stream'[m] = node_stream[m]
    BY <1>0, <1>6 DEF Crash, WatchEnds
  <2> QED
    BY <1>2, <2>1, Zenon DEF JoinsOf
<1>7. ASSUME NEW n \in Nodes, watch_nodes(n)  PROVE JoinsFollow'
  <2> DEFINE s == node_stream[n]
  <2>1. /\ s # None /\ s # << >> /\ node_keys' = node_keys /\ JoinsOf(n)
        /\ s \in Seq(NodeResponses)
    BY <1>0, <1>7 DEF watch_nodes, NodeJoined, NodeLeft, NodeUnringed, NodeResponse, Watching,
                      JoinsFollow
  <2>2. /\ Head(s) = s[1]
        /\ \A m \in Nodes \ {n} : node_stream'[m] = node_stream[m]
        /\ \/ node_stream'[n] = Tail(s)
           \/ /\ s[1].type = "delete"
              /\ node_stream'[n] = [s EXCEPT ![1] = [s[1] EXCEPT !.type = "unring"]]
    <3>1. Head(s) = s[1]
      BY <2>1
    <3>2. CASE NodeJoined(n) \/ NodeUnringed(n)
      <4>1. node_stream' = [node_stream EXCEPT ![n] = Tail(@)]
        BY <3>2, Zenon DEF NodeJoined, NodeUnringed
      <4> QED
        BY <1>0, <3>1, <4>1
    <3>3. CASE NodeLeft(n)
      <4>1. /\ Head(s).type = "delete"
            /\ node_stream' = [node_stream EXCEPT ![n][1].type = "unring"]
        BY <3>3, Zenon DEF NodeLeft, NodeResponse
      <4> QED
        BY <1>0, <3>1, <4>1
    <3> QED
      BY <1>7, <3>2, <3>3, Zenon DEF watch_nodes
  <2> HIDE DEF s
  <2>3. \A m \in Nodes : node_keys[m] # None => Rejoins(s, m)
    BY <2>1, Zenon DEF JoinsOf, s
  <2>4. \A m \in Nodes : node_keys'[m] # None => Rejoins(node_stream'[n], m)
    <3>1. ASSUME NEW m \in Nodes, node_keys'[m] # None  PROVE Rejoins(node_stream'[n], m)
      <4>1. Rejoins(s, m)
        BY <2>1, <2>3, <3>1, Zenon
      <4>2. CASE node_stream'[n] = Tail(s)
        BY <2>1, <4>1, <4>2, RejoinsTail
      <4>3. CASE /\ s[1].type = "delete"
                 /\ node_stream'[n] = [s EXCEPT ![1] = [s[1] EXCEPT !.type = "unring"]]
        BY <2>1, <4>1, <4>3, RejoinsUnring
      <4> QED
        BY <2>2, <4>2, <4>3, Zenon
    <3> QED
      BY <3>1, Zenon
  <2> QED
    BY <1>2, <2>1, <2>2, <2>4, Zenon DEF JoinsOf
<1>8. ASSUME NEW n \in Nodes,
             \/ WatchBlockKeys(n) \/ WatchFails(n) \/ KeepaliveStops(n) \/ watch_blocks(n)
             \/ \E h \in Hashes : Store(n, h)
             \/ \E p \in tasks[n] : Publish(n, p) \/ PublishFails(n, p)
      PROVE  JoinsFollow'
  <2>1. UNCHANGED <<node_keys, node_stream>>
    BY <1>8, Zenon DEF WatchBlockKeys, WatchFails, KeepaliveStops, watch_blocks, Store, Publish,
                       PutBlock, PublishFails, etcdVars
  <2> QED
    BY <1>1, <2>1, Zenon
<1>9. ASSUME NEW n \in Nodes, Shutdown(n)  PROVE JoinsFollow'
  <2>1. CASE UNCHANGED etcdVars
    BY <1>1, <2>1, Zenon DEF etcdVars
  <2>2. CASE lease_id[n] # None /\ EndLease(lease_id[n])
    <3>1. lease_id[n] \in Leases
      BY <2>2 DEF VariablesOK
    <3> QED
      BY <1>4, <2>2, <3>1, Zenon
  <2> QED
    BY <1>9, <2>1, <2>2, Zenon DEF Shutdown
<1>10. CASE UNCHANGED vars
  BY <1>1, <1>10, Zenon DEF vars, etcdVars
<1> QED
  BY <1>3, <1>4, <1>5, <1>6, <1>7, <1>8, <1>9, <1>10, ZenonT(30) DEF Next, Expire

(* What RegisteredNodesStay says of a step.                                *)
StaysRegistered ==
  \A n, m \in Nodes :
    m \in ring[n] /\ m \notin ring'[n] /\ pc'[n] # "down" /\ node_keys[m] # None =>
      \E j \in DOMAIN node_stream'[n] :
        node_stream'[n][j].node = m /\ node_stream'[n][j].type = "put"

LEMMA StaysStep ==
  ASSUME MetaInv, JoinsFollow, Next
  PROVE  StaysRegistered
<1> SUFFICES ASSUME NEW n \in Nodes, NEW m \in Nodes, m \in ring[n], m \notin ring'[n],
                    pc'[n] # "down", node_keys[m] # None
             PROVE  \E j \in DOMAIN node_stream'[n] :
                      node_stream'[n][j].node = m /\ node_stream'[n][j].type = "put"
  BY Zenon DEF StaysRegistered
<1> DEFINE s == node_stream[n]
<1>0. /\ DOMAIN ring = Nodes /\ DOMAIN node_stream = Nodes /\ DOMAIN pc = Nodes
      /\ s # None => s \in Seq(NodeResponses)
  BY AgentTypes, Zenon
<1>1. ASSUME NEW k \in Nodes, NodeUnringed(k)
      PROVE  \E j \in DOMAIN node_stream'[n] :
               node_stream'[n][j].node = m /\ node_stream'[n][j].type = "put"
  <2>1. k = n
    BY <1>0, <1>1, ZenonT(30) DEF NodeUnringed
  <2>2. /\ s # None /\ s # << >> /\ Head(s).type = "unring" /\ Head(s).node = m
        /\ node_stream'[n] = Tail(s)
    BY <1>0, <1>1, <2>1 DEF NodeUnringed, NodeResponse, Watching
  <2>3. Rejoins(s, m)
    BY <2>2, Zenon DEF JoinsFollow, JoinsOf
  <2>4. Head(s) = s[1]
    BY <1>0, <2>2
  <2>5. s[1].node = m /\ s[1].type # "put"
    BY <2>2, <2>4
  <2> HIDE DEF s
  <2> QED
    <3>1. s \in Seq(NodeResponses) /\ s # << >>
      BY <1>0, <2>2, Zenon
    <3>2. \E j \in DOMAIN Tail(s) : Tail(s)[j].node = m /\ Tail(s)[j].type = "put"
      BY <2>3, <2>5, <3>1, RejoinsTail
    <3> QED
      BY <2>2, <3>2, Zenon
<1>2. ASSUME NEW k \in Nodes, WatchBlockKeys(k) \/ WatchFails(k)  PROVE FALSE
  <2>1. k = n
    BY <1>0, <1>2, Zenon DEF WatchBlockKeys, WatchFails
  <2>2. ring'[n] = {n} /\ pc[n] \in Starting
    BY <1>0, <1>2, <2>1 DEF WatchBlockKeys, WatchFails, Goto, Starting
  <2>3. ring[n] \subseteq {n}
    BY <2>2, ZenonT(30) DEF MetaInv, StartOK, StartOf, Starting
  <2> QED
    BY <2>2, <2>3, Zenon
<1>3. ASSUME NEW k \in Nodes, Crash(k) \/ NodeJoined(k)  PROVE FALSE
  BY <1>0, <1>3 DEF Crash, NodeJoined
<1>4. ring' # ring
  BY Zenon
<1>5. ASSUME NEW k \in Nodes,
             \/ Boot(k) \/ WatchNodeKeys(k) \/ KeepaliveStops(k) \/ Shutdown(k)
             \/ watch_blocks(k) \/ NodeLeft(k) \/ WatchEnds(k)
             \/ \E h \in Hashes : Store(k, h)
             \/ \E p \in tasks[k] : Publish(k, p) \/ PublishFails(k, p)
      PROVE  FALSE
  BY <1>4, <1>5, Zenon DEF Boot, WatchNodeKeys, KeepaliveStops, Shutdown, watch_blocks, NodeLeft,
                           WatchEnds, Store, Publish, PublishFails, Ends, watcherVars
<1>6. ASSUME NEW l \in Leases, Expire(l)  PROVE FALSE
  BY <1>4, <1>6, Zenon DEF Expire, watcherVars
<1> QED
  BY <1>1, <1>2, <1>3, <1>5, <1>6, ZenonT(30) DEF Next, watch_nodes

----------------------------------------------------------------------------
(* Finite sets *)

INSTANCE FiniteSetTheorems

(* retain leaves the entries at the positions it keeps, each once.          *)
LEMMA RetainKeeps == RetainSelects
<1> SUFFICES ASSUME NEW s \in Seq(Locations), NEW keep \in SUBSET DOMAIN s
             PROVE  /\ Retain(s, keep) \in Seq(Locations)
                    /\ keep = {} => Retain(s, keep) = << >>
                    /\ Selects(Retain(s, keep), s, keep)
  BY Zenon DEF RetainSelects
<1> DEFINE c == Cardinality(keep)
           upto(i) == {k \in keep : k <= i}
           rank == [i \in keep |-> Cardinality(upto(i))]
           f == [j \in 1..c |-> CHOOSE i \in keep : Cardinality(upto(i)) = j]
<1>0. Len(s) \in Nat /\ DOMAIN s = 1..Len(s) /\ keep \subseteq 1..Len(s)
  OBVIOUS
<1>1. IsFiniteSet(keep) /\ c \in Nat
  <2>1. IsFiniteSet(1..Len(s))
    BY <1>0, FS_Interval
  <2> QED
    BY <1>0, <2>1, FS_Subset, FS_CardinalityType, ZenonT(30)
<1>2. \A i \in keep : /\ IsFiniteSet(upto(i)) /\ Cardinality(upto(i)) \in Nat
                      /\ Cardinality(upto(i)) <= c
  <2> SUFFICES ASSUME NEW i \in keep
               PROVE  /\ IsFiniteSet(upto(i)) /\ Cardinality(upto(i)) \in Nat
                      /\ Cardinality(upto(i)) <= c
    BY Zenon
  <2>1. upto(i) \subseteq keep
    OBVIOUS
  <2> QED
    BY <1>1, <2>1, FS_Subset, FS_CardinalityType, Zenon
<1>3. \A i \in keep : upto(i) # {}
  BY <1>0
<1>4. \A i \in keep : Cardinality(upto(i)) \in 1..c
  <2> SUFFICES ASSUME NEW i \in keep
               PROVE  Cardinality(upto(i)) \in 1..c
    BY Zenon
  <2>1. Cardinality(upto(i)) # 0
    BY <1>2, <1>3, FS_EmptySet, Zenon
  <2>2. Cardinality(upto(i)) \in Nat /\ Cardinality(upto(i)) <= c
    BY <1>2, Zenon
  <2> HIDE DEF upto, c
  <2> QED
    BY <1>1, <2>1, <2>2
<1>5. \A i, l \in keep : i < l => Cardinality(upto(i)) # Cardinality(upto(l))
  <2> SUFFICES ASSUME NEW i \in keep, NEW l \in keep, i < l
               PROVE  Cardinality(upto(i)) # Cardinality(upto(l))
    BY Zenon
  <2>1. upto(i) \subseteq upto(l) \ {l} /\ l \in upto(l)
    BY <1>0
  <2>2. IsFiniteSet(upto(l) \ {l}) /\ Cardinality(upto(l) \ {l}) = Cardinality(upto(l)) - 1
    BY <1>2, <2>1, FS_RemoveElement, Zenon
  <2>3. Cardinality(upto(i)) <= Cardinality(upto(l) \ {l})
    BY <2>1, <2>2, FS_Subset, Zenon
  <2>4. Cardinality(upto(i)) \in Nat /\ Cardinality(upto(l)) \in Nat
    BY <1>2, Zenon
  <2> HIDE DEF upto
  <2> QED
    BY <2>2, <2>3, <2>4
<1>6. rank \in Injection(keep, 1..c)
  <2>1. rank \in [keep -> 1..c]
    BY <1>4, Zenon
  <2>2. \A i, l \in keep : Cardinality(upto(i)) = Cardinality(upto(l)) => i = l
    <3> HIDE DEF upto
    <3>1. \A i, l \in keep : i < l \/ l < i \/ i = l
      BY <1>0
    <3> QED
      BY <1>5, <3>1, Zenon
  <2>3. IsInjective(rank)
    BY <2>2, Zenon DEF IsInjective
  <2> QED
    BY <2>1, <2>3, Zenon DEF Injection
<1>7. rank \in Surjection(keep, 1..c)
  <2>0. 1 \in Int /\ c \in Int
    BY <1>1
  <2>1. IsFiniteSet(1..c) /\ Cardinality(1..c) = c
    <3>1. IsFiniteSet(1..c) /\ Cardinality(1..c) = IF 1 > c THEN 0 ELSE c - 1 + 1
      BY <2>0, FS_Interval, Zenon
    <3> QED
      BY <1>1, <3>1
  <2> HIDE DEF c, rank
  <2>2. Cardinality(keep) = Cardinality(1..c)
    BY <2>1 DEF c
  <2> QED
    BY <1>6, <2>1, <2>2, FS_Injection, Zenon
<1>8. \A j \in 1..c : \E i \in keep : Cardinality(upto(i)) = j
  BY <1>7, Zenon DEF Surjection
<1>9. /\ f \in [1..c -> keep]
      /\ \A j \in 1..c : Cardinality(upto(f[j])) = j
  BY <1>8, Zenon
<1>10. Retain(s, keep) = [j \in 1..c |-> s[f[j]]]
  <2>1. \A j \in 1..c : s[f[j]] = s[CHOOSE i \in keep : Cardinality(upto(i)) = j]
    BY Zenon
  <2>2. Retain(s, keep) = [j \in 1..c |-> s[CHOOSE i \in keep : Cardinality(upto(i)) = j]]
    BY Zenon DEF Retain
  <2> HIDE DEF f, c, upto
  <2> QED
    BY <2>1, <2>2, Zenon
<1>11. \A i \in keep : \E j \in 1..c : f[j] = i
  <2> SUFFICES ASSUME NEW i \in keep
               PROVE  \E j \in 1..c : f[j] = i
    BY Zenon
  <2> DEFINE j == Cardinality(upto(i))
  <2>1. j \in 1..c /\ f[j] \in keep /\ Cardinality(upto(f[j])) = j
    BY <1>4, <1>9, Zenon
  <2>2. rank[f[j]] = rank[i]
    BY <2>1, Zenon
  <2>3. f[j] = i
    BY <1>6, <2>1, <2>2, ZenonT(30) DEF Injection, IsInjective
  <2> QED
    BY <2>1, <2>3, Zenon
<1>12. \A i, j \in 1..c : f[i] = f[j] => i = j
  BY <1>9, ZenonT(30)
<1> HIDE DEF f, c
<1>13. \A j \in 1..c : s[f[j]] \in Locations
  BY <1>0, <1>9, SMTT(30)
<1>14. Retain(s, keep) \in Seq(Locations) /\ DOMAIN Retain(s, keep) = 1..c
  BY <1>1, <1>10, <1>13
<1>15. keep = {} => Retain(s, keep) = << >>
  BY <1>1, <1>14, FS_EmptySet DEF c
<1> QED
  BY <1>9, <1>10, <1>11, <1>12, <1>14, <1>15, ZenonT(30) DEF Selects

----------------------------------------------------------------------------
(* The theorems *)

(* The inductive invariant: leases and keys agree with the processes that  *)
(* main started, and what the responses still to come in the two watches   *)
(* of an agent leave in its remote index and in its ring is what etcd      *)
(* holds.                                                                  *)
THEOREM MetaInvariant == Spec => []MetaInv
<1>1. ASSUME MetaInv, [Next]_vars  PROVE MetaInv'
  <2>1. VariablesOK'
    BY <1>1, RetainKeeps, TypeStep, TypeParts, PTL
  <2>2. ProcessesOK'
    BY <1>1, <2>1, ProcessesStep, Zenon
  <2>3. WatchInv'
    BY <1>1, RetainKeeps, WatchStep, Zenon
  <2> QED
    BY <2>1, <2>2, <2>3, Zenon DEF MetaInv, WatchInv
<1> QED
  BY <1>1, MetaInit, PTL DEF Spec

(* Every variable has its type, an index names a node at most once under a *)
(* hash, and the id that a process has for its lease is that of a lease it *)
(* was granted.                                                            *)
THEOREM MetadataTypes == Spec => []MetadataTypeOK
<1>1. ASSUME MetaInv  PROVE MetadataTypeOK
  <2>1. ASSUME NEW n \in Nodes, NEW m \in Nodes, NEW h \in Hashes
        PROVE  Cardinality(OfNode(remote[n], h, m)) <= 1
    <3>1. \A i, j \in OfNode(remote[n], h, m) : i = j
      BY <1>1 DEF MetaInv, RemoteOK, RemoteOf, OnePerNode, OfNode
    <3>2. CASE OfNode(remote[n], h, m) = {}
      BY <3>2, FS_EmptySet
    <3>3. ASSUME NEW i \in OfNode(remote[n], h, m)
          PROVE  Cardinality(OfNode(remote[n], h, m)) <= 1
      <4>1. OfNode(remote[n], h, m) = {i}
        BY <3>1, <3>3
      <4>2. Cardinality({i}) = 1
        BY FS_Singleton, Zenon
      <4> QED
        BY <4>1, <4>2
    <3> QED
      BY <3>2, <3>3, Zenon
  <2>2. \A n \in Nodes : lease_id[n] # None =>
          lease_id[n] = Process(n) /\ leases[lease_id[n]] # "none"
    BY <1>1 DEF MetaInv, ProcessesOK
  <2> QED
    BY <1>1, <2>1, <2>2, Zenon DEF MetaInv, MetadataTypeOK
<1> QED
  BY <1>1, MetaInvariant, PTL

(* What an agent that has applied its block watch has of a hash.           *)
LEMMA CaughtUp ==
  ASSUME MetaInv, NEW n \in Nodes, NEW h \in Hashes, Watching(n), block_stream[n] = << >>
  PROVE  /\ block_keys[h] = None => remote[n][h] = << >>
         /\ block_keys[h] # None /\ NeverRestarted(block_keys[h].info, boots) =>
              \/ remote[n][h] = << >>
              \/ \E i \in DOMAIN remote[n][h] : remote[n][h][i] = block_keys[h].info
<1>1. Follows(block_stream[n], h, block_keys[h], remote[n][h], boots)
  BY Zenon DEF MetaInv, BlocksFollow, BlocksOf, Watching
<1>2. DOMAIN block_stream[n] = {}
  OBVIOUS
<1> QED
  BY <1>1, <1>2, Zenon DEF Follows

(* A block whose key is gone from etcd is gone from the remote index of    *)
(* every agent that has applied its block watch.                           *)
THEOREM BlocksForgotten == Spec => []DeletedBlocksForgotten
<1>1. MetaInv => DeletedBlocksForgotten
  BY CaughtUp, Zenon DEF DeletedBlocksForgotten
<1> QED
  BY <1>1, MetaInvariant, PTL

(* An agent that knows a hash at all knows the location that etcd holds,   *)
(* unless the publisher's node was restarted: remove_node never takes the  *)
(* location of a process that is still registered.                         *)
THEOREM LocationKnown == Spec => []CurrentLocationKnown
<1>1. MetaInv => CurrentLocationKnown
  BY CaughtUp, Zenon DEF CurrentLocationKnown, NeverRestarted
<1> QED
  BY <1>1, MetaInvariant, PTL

(* An agent that has applied its node watch has no other node in its ring  *)
(* than the registered ones.                                               *)
THEOREM RingIsAlive == Spec => []RingHasNoDeadNodes
<1>1. ASSUME MetaInv, NEW n \in Nodes, Watching(n), node_stream[n] = << >>,
             NEW m \in ring[n] \ {n}
      PROVE  node_keys[m] # None
  <2>1. m \in Nodes /\ m # n /\ node_stream[n] # None
    BY <1>1, Zenon DEF MetaInv, VariablesOK, Watching
  <2>2. node_keys[m] = None => Leaves(node_stream[n], m, ring[n])
    BY <1>1, <2>1, Zenon DEF MetaInv, RingFollows, RingOf
  <2>3. DOMAIN node_stream[n] = {}
    BY <1>1
  <2> QED
    BY <1>1, <2>2, <2>3, ZenonT(30) DEF Leaves
<1>2. MetaInv => RingHasNoDeadNodes
  BY <1>1, ZenonT(30) DEF RingHasNoDeadNodes
<1> QED
  BY <1>2, MetaInvariant, PTL

(* A lookup is answered with a location of a process whose registration    *)
(* went with its lease only while etcd holds a later publication of the    *)
(* hash.                                                                   *)
THEOREM DeadAreOverwritten == Spec => []DeadLocationsOverwritten
<1>1. ASSUME MetaInv, NEW n \in Nodes, NEW h \in Hashes, NEW hit,
             hit = RemoteLookup(remote[n], h),
             Watching(n), block_stream[n] = << >>, hit # None, leases[hit.process] = "left"
      PROVE  block_keys[h] # None /\ block_keys[h].info # hit
  <2>1. remote[n][h] # << >>
    BY <1>1, Zenon DEF RemoteLookup
  <2>2. block_keys[h] # None
    BY <1>1, <2>1, CaughtUp, Zenon
  <2>3. leases[block_keys[h].info.process] \in {"live", "none"}
    BY <1>1, <2>2 DEF MetaInv, BlockKeysOK
  <2> QED
    BY <1>1, <2>2, <2>3, Zenon
<1>2. MetaInv => DeadLocationsOverwritten
  BY <1>1, Zenon DEF DeadLocationsOverwritten
<1> QED
  BY <1>2, MetaInvariant, PTL

(* A restarted node keeps its place: no agent drops a registered node for  *)
(* the late deletion of an earlier registration without a response to come *)
(* that puts it back.                                                      *)
THEOREM RegisteredStay == Spec => RegisteredNodesStay
<1>1. Init => JoinsFollow
  BY DEF Init, EtcdInit, JoinsFollow, JoinsOf
<1>2. MetaInv => VariablesOK
  BY DEF MetaInv
<1>3. MetaInv /\ JoinsFollow /\ [Next]_vars => JoinsFollow'
  BY <1>2, JoinsStep
<1>4. MetaInv /\ JoinsFollow /\ [Next]_vars => [StaysRegistered]_vars
  BY StaysStep, Zenon
<1> QED
  BY <1>1, <1>3, <1>4, MetaInvariant, PTL DEF Spec, RegisteredNodesStay, StaysRegistered
=============================================================================
