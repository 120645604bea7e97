----------------------------- MODULE MCHashRing -----------------------------
(* HashRing with every hash function of a small ring.                      *)
EXTENDS HashRing, TLC

Symmetry == Permutations(Nodes)
=============================================================================
