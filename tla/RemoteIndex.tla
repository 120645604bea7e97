----------------------------- MODULE RemoteIndex -----------------------------
(***************************************************************************)
(* RemoteIndex (crates/cmx-agent/src/remote_index.rs) of one agent: for    *)
(* each prefix hash the locations that were announced for it, oldest       *)
(* first.  A hash without an entry in the DashMap has the empty sequence:  *)
(* the code never keeps an empty Vec.  The methods are operators on the    *)
(* index r; each writer is called from the one task that reads the watches.*)
(***************************************************************************)
EXTENDS Naturals, Sequences, FiniteSets

CONSTANTS Hashes, None

RemoteEmpty == [h \in Hashes |-> << >>]

(* What CacheService::lookup answers after a local miss: the first entry. *)
RemoteLookup(r, h) == IF r[h] = << >> THEN None ELSE Head(r[h])

(* The positions of the entries of node n under hash h. *)
OfNode(r, h, n) == {i \in DOMAIN r[h] : r[h][i].node = n}

(* Mutant of RemoteInsert: a second announcement of a node is dropped. *)
RemoteInsertOnce(r, h, info) ==
  IF OfNode(r, h, info.node) # {} THEN r ELSE [r EXCEPT ![h] = Append(@, info)]

(* Mutant of RemoteInsert: the entry of the same node is not looked for. *)
RemoteInsertAppends(r, h, info) == [r EXCEPT ![h] = Append(@, info)]

(* insert: replaces the first entry of the same node, or appends. *)
RemoteInsert(r, h, info) ==
  LET same == OfNode(r, h, info.node)
  IN  IF same # {}
      THEN [r EXCEPT ![h][CHOOSE i \in same : \A j \in same : i <= j] = info]
      ELSE [r EXCEPT ![h] = Append(@, info)]

(* remove, for each hash of a watch response. *)
RemoteRemove(r, H) == [h \in Hashes |-> IF h \in H THEN << >> ELSE r[h]]

(* retain: the elements of s at the positions in keep, in their order. *)
Retain(s, keep) ==
  [j \in 1..Cardinality(keep) |->
     s[CHOOSE i \in keep : Cardinality({k \in keep : k <= i}) = j]]

(* remove_node: drops the entries of one node under every hash. *)
RemoteRemoveNode(r, n) ==
  [h \in Hashes |-> Retain(r[h], DOMAIN r[h] \ OfNode(r, h, n))]
=============================================================================
