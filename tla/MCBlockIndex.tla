---------------------------- MODULE MCBlockIndex ----------------------------
(* BlockIndex on a small instance: the shard of a key is fixed here.       *)
EXTENDS BlockIndex

CONSTANTS k1, k2, k3, t1, t2, e1

(* Keys k1 and k3 share a shard, k2 has one of its own. *)
TwoShards == [k \in Keys |-> IF k = k2 THEN 2 ELSE 1]
=============================================================================
