------------------------------ MODULE HashRing ------------------------------
(***************************************************************************)
(* The consistent hash ring of crates/cmx-agent/src/placement.rs, which    *)
(* every agent keeps of the nodes it knows: metadata.rs adds a node when   *)
(* its key appears in etcd and removes it when the key is deleted.         *)
(*                                                                         *)
(* The BTreeMap from positions to nodes is a function that is None where   *)
(* the map has no key.  hash_position, SHA-256 cut to 64 bits, is an       *)
(* arbitrary function: the variable position holds it for the virtual      *)
(* nodes, is chosen once and never changes, and may send two virtual nodes *)
(* to one position.  A prefix hash enters by its position alone.           *)
(***************************************************************************)
EXTENDS Sequences, Functions, FiniteSets

CONSTANTS Nodes,      \* node ids
          None,
          Size,       \* number of positions; 2^64 in the code
          MaxVnodes   \* bound on vnodes_per_node

ASSUME RingAssumption ==
  /\ IsFiniteSet(Nodes) /\ None \notin Nodes
  /\ Size \in Nat \ {0}
  /\ MaxVnodes \in Nat

VARIABLES ring,             \* position -> node, or None
          nodes,            \* the ids of the nodes in the ring
          vnodes_per_node,
          position          \* node -> index of a virtual node -> position

ringVars == <<ring, nodes, vnodes_per_node, position>>

Positions == 0..(Size - 1)

(* Nothing in config.rs rejects 0 virtual nodes. *)
RingInit ==
  /\ ring = [p \in Positions |-> None]
  /\ nodes = {}
  /\ vnodes_per_node \in 0..MaxVnodes
  /\ position \in [Nodes -> [1..vnodes_per_node -> Positions]]

(* The positions that node n takes when it is added. *)
Claims(n) == Range(position[n])

(* Mutant of add_node: a node that is there is added again. *)
add_node_again(n) ==
  /\ ring' = [p \in Positions |-> IF p \in Claims(n) THEN n ELSE ring[p]]
  /\ nodes' = nodes \cup {n}
  /\ UNCHANGED <<vnodes_per_node, position>>

(* A node that is there is left alone.  A position that is taken is
   overwritten. *)
add_node(n) ==
  /\ n \notin nodes
  /\ ring' = [p \in Positions |-> IF p \in Claims(n) THEN n ELSE ring[p]]
  /\ nodes' = nodes \cup {n}
  /\ UNCHANGED <<vnodes_per_node, position>>

(* The ring r without the positions of the nodes in S. *)
Retain(r, S) == [p \in Positions |-> IF r[p] \in S THEN None ELSE r[p]]

(* Mutant of remove_node: only the first virtual node is taken out. *)
remove_node_first(n) ==
  /\ n \in nodes
  /\ ring' = [p \in Positions |->
                IF ring[p] = n /\ p = position[n][1] THEN None ELSE ring[p]]
  /\ nodes' = nodes \ {n}
  /\ UNCHANGED <<vnodes_per_node, position>>

(* Removing a node that is not there changes nothing and is not a step. *)
remove_node(n) ==
  /\ n \in nodes
  /\ ring' = Retain(ring, {n})
  /\ nodes' = nodes \ {n}
  /\ UNCHANGED <<vnodes_per_node, position>>

----------------------------------------------------------------------------
Taken(r) == {p \in Positions : r[p] # None}

Least(S) == CHOOSE p \in S : \A q \in S : p <= q

(* The first taken position at or after pos, or the first of all. *)
Successor(r, pos) ==
  LET after == {p \in Taken(r) : p >= pos}
  IN  Least(IF after # {} THEN after ELSE Taken(r))

preferred_node(r, pos) ==
  IF Taken(r) = {} THEN None ELSE r[Successor(r, pos)]

(* range(pos..) chained with the whole map: the positions up to the end, then
   all of them once more from the start. *)
WalkLength(pos) == (Size - pos) + Size

WalkAt(pos, i) == IF i <= Size - pos THEN pos + i - 1 ELSE i - (Size - pos) - 1

(* Mutant of preferred_nodes: the walk ends at the last position. *)
preferred_nodes_straight(r, pos, n) ==
  LET result[i \in 0..(Size - pos)] ==
        IF i = 0 THEN << >>
        ELSE LET found == result[i - 1]
                 node  == r[WalkAt(pos, i)]
             IN  IF \/ node = None
                    \/ node \in Range(found)
                    \/ found # << >> /\ Len(found) >= n
                 THEN found
                 ELSE Append(found, node)
  IN  result[Size - pos]

(* The loop breaks after a push that reaches n, so n = 0 yields one node. *)
preferred_nodes(r, pos, n) ==
  LET result[i \in 0..WalkLength(pos)] ==
        IF i = 0 THEN << >>
        ELSE LET found == result[i - 1]
                 node  == r[WalkAt(pos, i)]
             IN  IF \/ node = None
                    \/ node \in Range(found)
                    \/ found # << >> /\ Len(found) >= n
                 THEN found
                 ELSE Append(found, node)
  IN  result[WalkLength(pos)]

RingNext == \E n \in Nodes : add_node(n) \/ remove_node(n)

RingSpec == RingInit /\ [][RingNext]_ringVars

----------------------------------------------------------------------------
(* The variables have their types. *)
RingTypeOK ==
  /\ ring \in [Positions -> Nodes \cup {None}]
  /\ nodes \subseteq Nodes
  /\ vnodes_per_node \in Nat
  /\ position \in [Nodes -> [1..vnodes_per_node -> Positions]]

(* Agents agree on the ring.  A position that only one of the nodes hashes to
   belongs to that node exactly while it is a member, whatever nodes joined
   and left before and in which order; so two agents that know the same nodes
   have the same ring except at the positions where virtual nodes collide.
   There a position that has a node has a member that hashes to it. *)
RingFollowsMembers ==
  \A p \in Positions :
    /\ ring[p] # None => ring[p] \in nodes /\ p \in Claims(ring[p])
    /\ \A n \in nodes :
         p \in Claims(n) /\ (\A m \in Nodes \ {n} : p \notin Claims(m)) => ring[p] = n

(* Minimal movement (the test minimal_key_movement_on_add bounds it by half of
   the keys): when a node joins, a key stays where it was or moves to that
   node; when a node leaves, only its keys move. *)
MinimalMovement ==
  [][\A pos \in Positions :
       \/ preferred_node(ring', pos) = preferred_node(ring, pos)
       \/ preferred_node(ring', pos) \in nodes' \ nodes
       \/ preferred_node(ring, pos) \in nodes \ nodes']_ringVars

(* Replicas are successors.  preferred_nodes lists distinct nodes, as many as
   asked for (at least one) or as many as have a position; each is the node
   that preferred_node would name if the ones before it had left, so a key is
   found on its next replica when the first ones fail. *)
ReplicasAreSuccessors ==
  \A pos \in Positions, n \in 0..(Cardinality(Nodes) + 1) :
    LET replicas == preferred_nodes(ring, pos, n)
        holders  == {ring[p] : p \in Taken(ring)}
    IN  /\ \A i \in DOMAIN replicas :
             LET gone == {replicas[j] : j \in 1..(i - 1)}
             IN  /\ replicas[i] \notin gone \cup {None}
                 /\ replicas[i] = preferred_node(Retain(ring, gone), pos)
        /\ Len(replicas) = Least({Cardinality(holders), IF n = 0 THEN 1 ELSE n})
=============================================================================
