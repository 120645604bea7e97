------------------------------ MODULE Metadata ------------------------------
(***************************************************************************)
(* MetadataClient (crates/cmx-agent/src/metadata.rs) and its callers in    *)
(* main.rs and grpc.rs: agents that register in etcd under a lease,        *)
(* publish the blocks they store, and follow the publications of all       *)
(* agents in a remote index and in the nodes of a hash ring.               *)
(*                                                                         *)
(* An agent that cannot connect to etcd runs standalone and does not       *)
(* appear here.  delete and eviction change the local index only: nothing  *)
(* is unpublished.  A location is the node and the generation, which       *)
(* starts at 1 in every process, and the number of the process; the last   *)
(* is history, no action reads it.  The lease of process i is lease i.     *)
(***************************************************************************)
EXTENDS Etcd, FiniteSets

INSTANCE RemoteIndex

CONSTANTS MaxStores,    \* bound: stores of all processes
          Watchers,     \* bound: the agents whose watch calls may succeed
          Frail,        \* bound: the agents whose process or keepalive may end
          Publishers    \* bound: the agents that are sent stores

VARIABLES boots,        \* the node of each process started so far
          pc,           \* where main is; "down" when no process runs
          lease_id,     \* MetadataClient::lease_id
          keeper,       \* whether keepalive_loop runs
          generation,   \* the next generation of the allocator
          tasks,        \* spawned publish_block calls
          stores,       \* stores so far, for the bound
          remote,       \* the remote index
          ring          \* the nodes of the hash ring

historyVars == <<boots, stores>>
processVars == <<pc, lease_id, keeper, generation, tasks>>
watcherVars == <<remote, ring>>
vars == <<etcdVars, historyVars, processVars, watcherVars>>

(* The process that runs on node n, when one does. *)
Process(n) == CHOOSE i \in DOMAIN boots :
                boots[i] = n /\ \A j \in DOMAIN boots : boots[j] = n => j <= i

Init ==
  /\ EtcdInit
  /\ boots = << >>
  /\ pc = [n \in Nodes |-> "down"]
  /\ lease_id = [n \in Nodes |-> None]
  /\ keeper = [n \in Nodes |-> FALSE]
  /\ generation = [n \in Nodes |-> 1]
  /\ tasks = [n \in Nodes |-> {}]
  /\ stores = 0
  /\ remote = [n \in Nodes |-> RemoteEmpty]
  /\ ring = [n \in Nodes |-> {}]

Goto(n, from, to) == pc[n] = from /\ pc' = [pc EXCEPT ![n] = to]

Serving(n) == pc[n] \in {"up", "leaving"}

----------------------------------------------------------------------------
(* register_node for lease i: lease_grant fails, or the put of the node key. *)
RegisterFails(n, i) ==
  /\ \/ UNCHANGED <<etcdVars, lease_id>>
     \/ LeaseGrant(i) /\ lease_id' = [lease_id EXCEPT ![n] = i]
  /\ UNCHANGED keeper

register_node(n, i) ==
  /\ GrantAndPutNode(n, i)
  /\ lease_id' = [lease_id EXCEPT ![n] = i]

(* The keepalive starts, or etcd cannot be reached. *)
start_keepalive(n) ==
  \E started \in BOOLEAN :
    (n \notin Frail => started) /\ keeper' = [keeper EXCEPT ![n] = started]

(* main, up to the watches, is one step: nothing else of the process runs
   meanwhile, and the other nodes see only the put.  Failures are logged. *)
Boot(n) ==
  LET i == Len(boots) + 1
  IN  /\ i <= MaxBoots
      /\ Goto(n, "down", "watch_blocks")
      /\ boots' = Append(boots, n)
      /\ RegisterFails(n, i) \/ (register_node(n, i) /\ start_keepalive(n))
      /\ UNCHANGED <<stores, generation, tasks, watcherVars>>

(* The agent adds itself to its ring and opens the first watch. *)
WatchBlockKeys(n) ==
  /\ n \in Watchers
  /\ Goto(n, "watch_blocks", "watch_nodes")
  /\ ring' = [ring EXCEPT ![n] = {n}]
  /\ block_stream' = [block_stream EXCEPT ![n] = << >>]
  /\ UNCHANGED <<leases, node_keys, block_keys, node_stream, historyVars,
                 lease_id, keeper, generation, tasks, remote>>

WatchNodeKeys(n) ==
  /\ Goto(n, "watch_nodes", "up")
  /\ node_stream' = [node_stream EXCEPT ![n] = << >>]
  /\ UNCHANGED <<leases, node_keys, block_keys, block_stream, historyVars,
                 lease_id, keeper, generation, tasks, watcherVars>>

(* Either watch call fails: the agent serves without watches. *)
WatchFails(n) ==
  /\ \E at \in {"watch_blocks", "watch_nodes"} : Goto(n, at, "up")
  /\ ring' = [ring EXCEPT ![n] = {n}]
  /\ block_stream' = [block_stream EXCEPT ![n] = None]
  /\ UNCHANGED <<leases, node_keys, block_keys, node_stream, historyVars,
                 lease_id, keeper, generation, tasks, remote>>

----------------------------------------------------------------------------
(* store, which ends by spawning publish_block for the new location. *)
Store(n, h) ==
  /\ n \in Publishers
  /\ Serving(n)
  /\ stores < MaxStores
  /\ stores' = stores + 1
  /\ tasks' = [tasks EXCEPT ![n] =
                  @ \cup {[hash |-> h, gen |-> generation[n]]}]
  /\ generation' = [generation EXCEPT ![n] = @ + 1]
  /\ UNCHANGED <<etcdVars, boots, pc, lease_id, keeper, watcherVars>>

Location(n, g) == [node |-> n, gen |-> g, process |-> Process(n)]

Ends(n, p) ==
  /\ p \in tasks[n]
  /\ tasks' = [tasks EXCEPT ![n] = @ \ {p}]
  /\ UNCHANGED <<historyVars, pc, lease_id, keeper, generation, watcherVars>>

(* Mutant of Publish: the lease is not passed on. *)
PublishUnleased(n, p) ==
  /\ PutBlock(p.hash, Location(n, p.gen), None)
  /\ Ends(n, p)

(* publish_block; the tasks of a node run in any order. *)
Publish(n, p) ==
  /\ PutBlock(p.hash, Location(n, p.gen), lease_id[n])
  /\ Ends(n, p)

(* etcd cannot be reached, or the lease is over: logged and dropped. *)
PublishFails(n, p) ==
  /\ Ends(n, p)
  /\ UNCHANGED etcdVars

----------------------------------------------------------------------------
(* keepalive_loop returns on the first error, and when the lease is over. *)
KeepaliveStops(n) ==
  /\ n \in Frail
  /\ keeper[n]
  /\ keeper' = [keeper EXCEPT ![n] = FALSE]
  /\ UNCHANGED <<etcdVars, historyVars, pc, lease_id, generation, tasks,
                 watcherVars>>

(* The time to live runs out; renewals may be late. *)
Expire(l) ==
  /\ EndLease(l)
  /\ UNCHANGED <<historyVars, processVars, watcherVars>>

(* Mutant of Renewed: the keeper of a node also renews the leases of its
   earlier processes. *)
RenewedByNode(l) == l \in DOMAIN boots /\ keeper[boots[l]]

Renewed(l) == \E n \in Nodes : keeper[n] /\ lease_id[n] = l

(* SIGTERM: revoke_lease, which may fail; the server then finishes the calls
   that are in progress. *)
Shutdown(n) ==
  /\ Goto(n, "up", "leaving")
  /\ \/ lease_id[n] # None /\ EndLease(lease_id[n])
     \/ UNCHANGED etcdVars
  /\ UNCHANGED <<historyVars, lease_id, keeper, generation, tasks,
                 watcherVars>>

(* The process ends, by a crash or after a shutdown; etcd learns nothing. *)
Crash(n) ==
  /\ n \in Frail
  /\ pc[n] # "down"
  /\ pc' = [pc EXCEPT ![n] = "down"]
  /\ lease_id' = [lease_id EXCEPT ![n] = None]
  /\ keeper' = [keeper EXCEPT ![n] = FALSE]
  /\ generation' = [generation EXCEPT ![n] = 1]
  /\ tasks' = [tasks EXCEPT ![n] = {}]
  /\ remote' = [remote EXCEPT ![n] = RemoteEmpty]
  /\ ring' = [ring EXCEPT ![n] = {}]
  /\ node_stream' = [node_stream EXCEPT ![n] = None]
  /\ block_stream' = [block_stream EXCEPT ![n] = None]
  /\ UNCHANGED <<leases, node_keys, block_keys, historyVars>>

----------------------------------------------------------------------------
(* The two loops run in one task, so that one response of the block watch is
   applied in one step. *)
Watching(n) == Serving(n) /\ block_stream[n] # None /\ node_stream[n] # None

(* Mutant of Applied: a response that deletes is passed over. *)
AppliedPuts(r, m) ==
  IF m.type = "put" THEN RemoteInsert(r, m.hash, m.info) ELSE r

Applied(r, m) ==
  IF m.type = "put" THEN RemoteInsert(r, m.hash, m.info)
                    ELSE RemoteRemove(r, m.hashes)

watch_blocks(n) ==
  /\ Watching(n)
  /\ block_stream[n] # << >>
  /\ remote' = [remote EXCEPT ![n] = Applied(@, Head(block_stream[n]))]
  /\ block_stream' = [block_stream EXCEPT ![n] = Tail(@)]
  /\ UNCHANGED <<leases, node_keys, block_keys, node_stream, historyVars,
                 processVars, ring>>

NodeResponse(n, type) ==
  /\ Watching(n)
  /\ node_stream[n] # << >>
  /\ Head(node_stream[n]).type = type
  /\ UNCHANGED <<leases, node_keys, block_keys, block_stream, historyVars,
                 processVars>>

(* Mutant of NodeJoined: a join also takes the later joins of the node. *)
NodeJoinedOnce(n) ==
  /\ NodeResponse(n, "put")
  /\ ring' = [ring EXCEPT ![n] = @ \cup {Head(node_stream[n]).node}]
  /\ node_stream' = [node_stream EXCEPT ![n] =
       SelectSeq(Tail(@), LAMBDA r : r # Head(node_stream[n]))]
  /\ UNCHANGED remote

NodeJoined(n) ==
  /\ NodeResponse(n, "put")
  /\ ring' = [ring EXCEPT ![n] = @ \cup {Head(node_stream[n]).node}]
  /\ node_stream' = [node_stream EXCEPT ![n] = Tail(@)]
  /\ UNCHANGED remote

(* A delete clears the index, then waits for the lock of the ring, while
   watch_blocks may go on; the response stays at the head as "unring". *)
NodeLeft(n) ==
  /\ NodeResponse(n, "delete")
  /\ remote' = [remote EXCEPT ![n] =
                  RemoteRemoveNode(@, Head(node_stream[n]).node)]
  /\ node_stream' = [node_stream EXCEPT ![n][1].type = "unring"]
  /\ UNCHANGED ring

(* Mutant of NodeUnringed: the ring keeps the node. *)
NodeStays(n) ==
  /\ NodeResponse(n, "unring")
  /\ node_stream' = [node_stream EXCEPT ![n] = Tail(@)]
  /\ UNCHANGED watcherVars

NodeUnringed(n) ==
  /\ NodeResponse(n, "unring")
  /\ ring' = [ring EXCEPT ![n] = @ \ {Head(node_stream[n]).node}]
  /\ node_stream' = [node_stream EXCEPT ![n] = Tail(@)]
  /\ UNCHANGED remote

watch_nodes(n) == NodeJoined(n) \/ NodeLeft(n) \/ NodeUnringed(n)

(* When one stream ends or fails, select! drops the other loop as well, and
   nothing starts them again. *)
WatchEnds(n) ==
  /\ Watching(n)
  /\ node_stream' = [node_stream EXCEPT ![n] = None]
  /\ block_stream' = [block_stream EXCEPT ![n] = None]
  /\ UNCHANGED <<leases, node_keys, block_keys, historyVars, processVars,
                 watcherVars>>

----------------------------------------------------------------------------
Next ==
  \/ \E n \in Nodes :
       \/ Boot(n) \/ WatchBlockKeys(n) \/ WatchNodeKeys(n) \/ WatchFails(n)
       \/ \E h \in Hashes : Store(n, h)
       \/ \E p \in tasks[n] : Publish(n, p) \/ PublishFails(n, p)
       \/ KeepaliveStops(n) \/ Shutdown(n) \/ Crash(n)
       \/ watch_blocks(n) \/ watch_nodes(n) \/ WatchEnds(n)
  \/ \E l \in Leases : Expire(l)

Spec == Init /\ [][Next]_vars

(* The runtime polls the watch task when a response is there, and etcd ends a
   lease that nobody renews.  Nothing else has to happen: agents may stay
   down, calls may fail, and publications may be delayed for ever. *)
LiveSpec ==
  /\ Spec
  /\ \A n \in Nodes : WF_vars(watch_blocks(n)) /\ WF_vars(watch_nodes(n))
  /\ \A l \in Leases : WF_vars(~Renewed(l) /\ Expire(l))

----------------------------------------------------------------------------
Locations == [node : Nodes, gen : 1..MaxStores, process : Leases]

NodeResponses == [type : {"put", "delete", "unring"}, node : Nodes]
BlockResponses == [type : {"put"}, hash : Hashes, info : Locations]
                    \cup [type : {"delete"}, hashes : SUBSET Hashes]

ASSUME MetadataAssumption ==
  /\ MaxBoots \in Nat /\ MaxStores \in Nat
  /\ None \notin Leases
  /\ None \notin [info : Locations, lease : Leases \cup {None}]

VariablesOK ==
  /\ leases \in [Leases -> {"none", "live", "over", "left"}]
  /\ node_keys \in [Nodes -> Leases \cup {None}]
  /\ block_keys \in [Hashes -> [info : Locations, lease : Leases \cup {None}]
                                 \cup {None}]
  /\ node_stream \in [Nodes -> Seq(NodeResponses) \cup {None}]
  /\ block_stream \in [Nodes -> Seq(BlockResponses) \cup {None}]
  /\ boots \in Seq(Nodes) /\ Len(boots) <= MaxBoots
  /\ pc \in [Nodes -> {"down", "watch_blocks", "watch_nodes", "up", "leaving"}]
  /\ lease_id \in [Nodes -> Leases \cup {None}]
  /\ keeper \in [Nodes -> BOOLEAN]
  /\ stores \in 0..MaxStores
  /\ generation \in [Nodes -> 1..MaxStores + 1]
  /\ tasks \in [Nodes -> SUBSET [hash : Hashes, gen : 1..MaxStores]]
  /\ remote \in [Nodes -> [Hashes -> Seq(Locations)]]
  /\ ring \in [Nodes -> SUBSET Nodes]

(* Every variable has its type; a remote index names each node at most once
   under a hash (insert replaces), and a process that has an id for its lease
   was granted that lease. *)
MetadataTypeOK ==
  /\ VariablesOK
  /\ \A n, m \in Nodes, h \in Hashes :
       Cardinality(OfNode(remote[n], h, m)) <= 1
  /\ \A n \in Nodes : lease_id[n] # None =>
       lease_id[n] = Process(n) /\ leases[lease_id[n]] # "none"

(* A block whose key is gone from etcd is gone from the remote index of every
   agent that has applied its block watch: the expiry of a lease, which
   deletes many keys at once, reaches every index, whichever nodes stored the
   block and in whatever order their puts came. *)
DeletedBlocksForgotten ==
  \A n \in Nodes, h \in Hashes :
    Watching(n) /\ block_stream[n] = << >> /\ block_keys[h] = None
      => remote[n][h] = << >>

(* An agent that has applied both watches, and knows a hash at all, knows the
   location that etcd holds for it, as long as the publisher's node was never
   restarted.  (The deletion of one registration of a node makes remove_node
   drop the locations of all processes of that node.) *)
CurrentLocationKnown ==
  \A n \in Nodes, h \in Hashes :
    /\ Watching(n) /\ block_stream[n] = << >> /\ node_stream[n] = << >>
    /\ remote[n][h] # << >> /\ block_keys[h] # None
    /\ \A i \in DOMAIN boots :
         boots[i] = block_keys[h].info.node => i = block_keys[h].info.process
    => \E i \in DOMAIN remote[n][h] : remote[n][h][i] = block_keys[h].info

(* An agent that has applied its node watch has no other node in its ring than
   the registered ones: no sequence of restarts, expiries and late responses
   leaves a dead node there. *)
RingHasNoDeadNodes ==
  \A n \in Nodes :
    Watching(n) /\ node_stream[n] = << >>
      => \A m \in ring[n] \ {n} : node_keys[m] # None

(* What a process published under its lease leaves etcd after the process is
   gone, unless another process published the hash meanwhile. *)
PublicationsExpire ==
  \A l \in Leases :
    (leases[l] # "none" /\ (pc[boots[l]] = "down" \/ Process(boots[l]) # l))
      ~> (\A h \in Hashes :
            block_keys[h] # None => block_keys[h].info.process # l)

(* A node that stays down leaves the ring of every agent whose watches last. *)
CrashedNodesLeaveRing ==
  \A n, m \in Nodes :
    n # m =>
      (pc[m] = "down" ~> (pc[m] # "down" \/ ~Watching(n) \/ m \notin ring[n]))

(* An agent that has applied its block watch answers a lookup with a location
   of a process whose registration went with its lease only while etcd holds a
   later publication of the hash.  (That publication keeps the
   expiry of the dead process's lease from deleting the key, and when the
   deletion of its node overtook its own publication on the other watch,
   remove_node came too early and no further event removes the entry.) *)
DeadLocationsOverwritten ==
  \A n \in Nodes, h \in Hashes :
    LET hit == RemoteLookup(remote[n], h)
    IN  /\ Watching(n) /\ block_stream[n] = << >>
        /\ hit # None
        /\ leases[hit.process] = "left"
        => block_keys[h] # None /\ block_keys[h].info # hit

(* A running agent takes a node that is registered out of its ring only with a
   later response to come that puts it back: watch_nodes may apply the deletion
   of an earlier registration when the node is already restarted, but never as
   the last word. *)
RegisteredNodesStay ==
  [][\A n, m \in Nodes :
       m \in ring[n] /\ m \notin ring'[n] /\ pc'[n] # "down" /\ node_keys[m] # None =>
         \E j \in DOMAIN node_stream'[n] :
           node_stream'[n][j].node = m /\ node_stream'[n][j].type = "put"]_vars
=============================================================================
