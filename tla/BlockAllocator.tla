--------------------------- MODULE BlockAllocator ---------------------------
(***************************************************************************)
(* Block memory: the free list of crates/cmx-memory/src/pool.rs and the    *)
(* headers, checksums and generations that                                 *)
(* crates/cmx-block-store/src/allocator.rs adds to it.                     *)
(*                                                                         *)
(* The free list has a mutex and the generation is an atomic, but the      *)
(* bytes of a block have no lock at all.  Writing a block takes three      *)
(* steps (header; some of the data; all of it) and reading one takes three *)
(* (header; checksum over the data; copy of the data), so that a reader    *)
(* and a writer of the same block can meet in every order.                 *)
(*                                                                         *)
(* A checksum is represented by the payload it was computed from: two      *)
(* payloads have the same checksum only if they are equal, and a mixture   *)
(* of two payloads, Torn, has the checksum of no payload.  No payload is a *)
(* prefix of another, so the length in the header adds nothing.            *)
(***************************************************************************)
EXTENDS Sequences, Functions

CONSTANTS TotalBlocks,  \* MemoryPool::total_blocks
          Data,         \* payloads a client may store that fit in a block
          Oversized,    \* payloads that do not
          Zeroed,       \* the empty payload: what a fresh mmap page decodes to
          Torn          \* bytes of two payloads mixed

ASSUME AllocatorAssumption ==
  /\ TotalBlocks \in Nat \ {0}
  /\ Zeroed \notin Data
  /\ Torn \notin Data \cup {Zeroed}
  /\ Oversized \cap Data = {}

VARIABLES free_list,    \* stack of block indices, top at the end
          mem,          \* block -> header generation, header checksum, data
          generation    \* the next generation to hand out

allocatorVars == <<free_list, mem, generation>>

Blocks == 0..(TotalBlocks - 1)

(* Where a written block is: BlockLocation, without what is derived from the
   block index.  Generation 0 marks a block that has no header yet. *)
Location == [block : Blocks, gen : Nat]

AllocatorInit ==
  /\ free_list = [i \in 1..TotalBlocks |-> i - 1]
  /\ mem = [b \in Blocks |-> [gen |-> 0, crc |-> Zeroed, data |-> Zeroed]]
  /\ generation = 1

(* Mutant of allocate: the block stays in the free list. *)
allocate_peek(b) ==
  /\ free_list # << >>
  /\ b = free_list[Len(free_list)]
  /\ UNCHANGED free_list

allocate(b) ==
  /\ free_list # << >>
  /\ b = free_list[Len(free_list)]
  /\ free_list' = SubSeq(free_list, 1, Len(free_list) - 1)

deallocate(b) == free_list' = Append(free_list, b)

used_blocks == TotalBlocks - Len(free_list)

(* Mutant of WriteHeader: the counter is loaded and not incremented. *)
WriteHeaderLoad(b, d) ==
  /\ mem' = [mem EXCEPT ![b].gen = generation, ![b].crc = d]
  /\ UNCHANGED generation

(* fetch_add and the write of the header.  The counter is read by nothing
   else, so the two are one step. *)
WriteHeader(b, d) ==
  /\ mem' = [mem EXCEPT ![b].gen = generation, ![b].crc = d]
  /\ generation' = generation + 1

(* copy_from_slice half way: a mixture, unless the bytes were equal. *)
WriteSomeData(b, d) ==
  mem' = [mem EXCEPT ![b].data = IF @ = d THEN d ELSE Torn]

WriteAllData(b, d) == mem' = [mem EXCEPT ![b].data = d]
=============================================================================
