----------------------------- MODULE MCMetadata -----------------------------
(* Metadata on small instances.                                            *)
EXTENDS Metadata, TLC

Symmetry == Permutations(Publishers \ Watchers) \cup Permutations(Hashes)
=============================================================================
