-------------------------------- MODULE Etcd --------------------------------
(***************************************************************************)
(* etcd, as far as metadata.rs uses it: two key prefixes, leases that keys *)
(* are attached to, and for each agent a watch on either prefix.  A put    *)
(* replaces value and lease of a key.  The end of a lease deletes its keys *)
(* in one revision.  A watch delivers the changes made since it was        *)
(* created, in order; nothing orders the two watches of an agent.          *)
(***************************************************************************)
EXTENDS Naturals, Sequences

CONSTANTS Nodes, Hashes, None,
          MaxBoots      \* bound: processes ever started

VARIABLES leases,       \* lease of each process: "none", "live", "over", or
                        \* "left" when a node key ended with it
          node_keys,    \* /cmx/nodes/<node>: the lease, or None
          block_keys,   \* /cmx/blocks/<hash>: location and lease, or None
          node_stream,  \* for each agent the undelivered responses of its
          block_stream  \* watch, or None without a watch

etcdVars == <<leases, node_keys, block_keys, node_stream, block_stream>>

Leases == 1..MaxBoots

EtcdInit ==
  /\ leases = [l \in Leases |-> "none"]
  /\ node_keys = [n \in Nodes |-> None]
  /\ block_keys = [h \in Hashes |-> None]
  /\ node_stream = [n \in Nodes |-> None]
  /\ block_stream = [n \in Nodes |-> None]

(* A response goes to every open watch. *)
Notify(stream, response) ==
  [n \in Nodes |-> IF stream[n] = None THEN None ELSE Append(stream[n], response)]

LeaseGrant(l) ==
  /\ leases' = [leases EXCEPT ![l] = "live"]
  /\ UNCHANGED <<node_keys, block_keys, node_stream, block_stream>>

(* The grant of lease l and a put of the key of node n under it. *)
GrantAndPutNode(n, l) ==
  /\ leases' = [leases EXCEPT ![l] = "live"]
  /\ node_keys' = [node_keys EXCEPT ![n] = l]
  /\ node_stream' = Notify(node_stream, [type |-> "put", node |-> n])
  /\ UNCHANGED <<block_keys, block_stream>>

(* etcd refuses a put that names a lease which is over. *)
Accepts(l) == l # None => leases[l] = "live"

PutBlock(h, info, l) ==
  /\ Accepts(l)
  /\ block_keys' = [block_keys EXCEPT ![h] = [info |-> info, lease |-> l]]
  /\ block_stream' =
       Notify(block_stream, [type |-> "put", hash |-> h, info |-> info])
  /\ UNCHANGED <<leases, node_keys, node_stream>>

(* The keys of a lease go with it. *)
NodesOf(l) == {n \in Nodes : node_keys[n] = l}
HashesOf(l) == {h \in Hashes : block_keys[h] # None /\ block_keys[h].lease = l}

EndLease(l) ==
  /\ leases[l] = "live"
  /\ leases' = [leases EXCEPT ![l] = IF NodesOf(l) = {} THEN "over" ELSE "left"]
  /\ node_keys' = [n \in Nodes |-> IF n \in NodesOf(l) THEN None ELSE node_keys[n]]
  /\ block_keys' = [h \in Hashes |-> IF h \in HashesOf(l) THEN None ELSE block_keys[h]]
  /\ node_stream' =
       IF NodesOf(l) = {} THEN node_stream
       ELSE Notify(node_stream,
                   [type |-> "delete", node |-> CHOOSE n \in NodesOf(l) : TRUE])
  /\ block_stream' =
       IF HashesOf(l) = {} THEN block_stream
       ELSE Notify(block_stream, [type |-> "delete", hashes |-> HashesOf(l)])
=============================================================================
