------------------------------ MODULE LruOrder ------------------------------
(***************************************************************************)
(* What crates/cmx-block-store/src/eviction.rs promises: a recency order   *)
(* over prefix hashes.  The whole order is one sequence, most recently     *)
(* used key first.  Every method of the Rust LruPolicy takes one mutex for *)
(* its whole body, so each operation here is a single step.                *)
(*                                                                         *)
(* BlockIndex uses these operations.  LruPolicy, which models the slab of  *)
(* doubly linked nodes, is shown to implement this module.                 *)
(***************************************************************************)
EXTENDS Sequences, Functions

CONSTANTS Keys,   \* the 16-byte index keys
          None    \* Rust's Option::None

VARIABLE lru      \* keys, most recently used first

(* The order s with key k taken out; s itself when k is not in it. *)
Without(s, k) ==
  IF \E i \in DOMAIN s : s[i] = k
  THEN LET i == CHOOSE i \in DOMAIN s : s[i] = k
       IN  SubSeq(s, 1, i - 1) \o SubSeq(s, i + 1, Len(s))
  ELSE s

LruInit == lru = << >>

(* Mutant of Touch: the old position of the key is kept. *)
TouchTwice(k) == lru' = <<k>> \o lru

(* A key that is accessed or inserted becomes the most recent one. *)
Touch(k) == lru' = <<k>> \o Without(lru, k)

(* A deleted key leaves the order; a key that is not tracked is ignored. *)
Forget(k) == lru' = Without(lru, k)

(* The least recently used key v leaves the order. *)
EvictLru(v) ==
  /\ lru # << >>
  /\ v = lru[Len(lru)]
  /\ lru' = SubSeq(lru, 1, Len(lru) - 1)

LruNext ==
  \/ \E k \in Keys : Touch(k) \/ Forget(k)
  \/ \E v \in Keys : EvictLru(v)

LruSpec == LruInit /\ [][LruNext]_lru
=============================================================================
