---------------------------- MODULE MCCacheAgent ----------------------------
(* CacheAgent on small instances: the shard of a key is fixed here.        *)
EXTENDS CacheAgent, TLC

CONSTANTS m1, h1

(* Key <<NoModel, h1>> has a shard of its own. *)
TwoShards == [k \in Keys |-> IF k = <<NoModel, h1>> THEN 1 ELSE 2]

OneShard == [k \in Keys |-> 1]

Symmetry == Permutations(Tasks) \cup Permutations(Data)
=============================================================================
