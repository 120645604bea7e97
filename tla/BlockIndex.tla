----------------------------- MODULE BlockIndex -----------------------------
(***************************************************************************)
(* The concurrent index of crates/cmx-block-store/src/index.rs: a DashMap  *)
(* from keys to entries and an LRU order beside it.  The map and the order *)
(* have separate locks, so lookup, insert and remove are not atomic; each  *)
(* step below is one critical section of the code.                         *)
(*                                                                         *)
(* Tasks are the threads that are inside the index at the same time.  A    *)
(* task's program counter pc[t] names the critical section it runs next;   *)
(* call[t] holds the arguments and local variables of its call (evicted is *)
(* the length of the vector that insert returns).                          *)
(*                                                                         *)
(* The module has its own specification, GrowLive, in which any task may   *)
(* look up and insert.  CacheAgent takes the steps from here, those of     *)
(* remove among them, and continues where a call returns ("inserted",      *)
(* "removed").                                                             *)
(***************************************************************************)
EXTENDS LruOrder, FiniteSets

CONSTANTS Tasks,      \* threads inside the index
          Entries,    \* values the map can hold
          Capacity,   \* BlockIndex::capacity
          NumShards,  \* number of DashMap shards
          ShardOf,    \* the shard a key hashes to
          MaxEvicted  \* bound: no new insert once a running one evicted so many

ASSUME IndexAssumption ==
  /\ None \notin Keys \cup Entries
  /\ IsFiniteSet(Keys) /\ IsFiniteSet(Tasks)
  /\ Capacity \in Nat \ {0}
  /\ NumShards \in Nat \ {0}
  /\ ShardOf \in [Keys -> 1..NumShards]

VARIABLES map,    \* key -> entry, or None
          pc,
          call

indexVars == <<map, lru, pc, call>>

Indexed == {k \in Keys : map[k] # None}

IndexPc == {"contains", "len", "evict", "drop", "put", "touch", "inserted",
            "unlink", "removed"}

NoCall == [key |-> None, entry |-> None, shard |-> 0, count |-> 0,
           victim |-> None, evicted |-> 0]

Goto(t, label) == pc' = [pc EXCEPT ![t] = label]

At(t, label) == pc[t] = label

Set(t, c) == call' = [call EXCEPT ![t] = c]

----------------------------------------------------------------------------
(***************************************************************************)
(* lookup holds the read guard of the key's shard while it touches the     *)
(* order, so no writer can change map[k] in between: one step.  A miss     *)
(* changes nothing and is not a step.                                      *)
(***************************************************************************)
LookupHit(k) ==
  /\ map[k] # None
  /\ Touch(k)
  /\ UNCHANGED map

(***************************************************************************)
(* insert.  The loop is: count the shards one by one (DashMap::len locks   *)
(* one shard at a time), pop the least recent key, remove it from the map, *)
(* count again.                                                            *)
(***************************************************************************)
InsertCheck(t) ==
  /\ At(t, "contains")
  /\ IF map[call[t].key] = None
     THEN Goto(t, "len") /\ Set(t, [call[t] EXCEPT !.shard = 1, !.count = 0])
     ELSE Goto(t, "put") /\ UNCHANGED call
  /\ UNCHANGED <<map, lru>>

ShardLen(s) == Cardinality({k \in Indexed : ShardOf[k] = s})

(* Mutant of CountShard: evicts only beyond the capacity. *)
CountShardLate(t) ==
  LET counted == call[t].count + ShardLen(call[t].shard)
  IN  /\ At(t, "len")
      /\ IF call[t].shard < NumShards
         THEN /\ Set(t, [call[t] EXCEPT !.shard = @ + 1, !.count = counted])
              /\ UNCHANGED pc
         ELSE /\ Goto(t, IF counted > Capacity THEN "evict" ELSE "put")
              /\ Set(t, [call[t] EXCEPT !.shard = 0, !.count = 0])
      /\ UNCHANGED <<map, lru>>

CountShard(t) ==
  LET counted == call[t].count + ShardLen(call[t].shard)
  IN  /\ At(t, "len")
      /\ IF call[t].shard < NumShards
         THEN /\ Set(t, [call[t] EXCEPT !.shard = @ + 1, !.count = counted])
              /\ UNCHANGED pc
         ELSE /\ Goto(t, IF counted >= Capacity THEN "evict" ELSE "put")
              /\ Set(t, [call[t] EXCEPT !.shard = 0, !.count = 0])
      /\ UNCHANGED <<map, lru>>

(* Mutant of EvictVictim: the least recent key gets a second chance. *)
EvictSpares(t) ==
  /\ At(t, "evict")
  /\ lru # << >>
  /\ Touch(lru[Len(lru)])
  /\ Set(t, [call[t] EXCEPT !.shard = 1])
  /\ Goto(t, "len")
  /\ UNCHANGED map

EvictVictim(t) ==
  /\ At(t, "evict")
  /\ \E v \in Keys : EvictLru(v) /\ Set(t, [call[t] EXCEPT !.victim = v])
  /\ Goto(t, "drop")
  /\ UNCHANGED map

EvictNothing(t) ==
  /\ At(t, "evict")
  /\ lru = << >>
  /\ Goto(t, "put")
  /\ UNCHANGED <<map, lru, call>>

DropVictim(t) ==
  /\ At(t, "drop")
  /\ map' = [map EXCEPT ![call[t].victim] = None]
  /\ Goto(t, "len")
  /\ Set(t, [call[t] EXCEPT !.victim = None, !.evicted = @ + 1, !.shard = 1])
  /\ UNCHANGED lru

(* Mutant of Put: the generation is read from the counter once more. *)
PutLaterGeneration(t) ==
  /\ At(t, "put")
  /\ map' = [map EXCEPT ![call[t].key] = [call[t].entry EXCEPT !.gen = @ + 1]]
  /\ Goto(t, "touch")
  /\ UNCHANGED <<lru, call>>

Put(t) ==
  /\ At(t, "put")
  /\ map' = [map EXCEPT ![call[t].key] = call[t].entry]
  /\ Goto(t, "touch")
  /\ UNCHANGED <<lru, call>>

(* Mutant of InsertTouch: a new entry is not entered in the order. *)
InsertUntouched(t) ==
  /\ At(t, "touch")
  /\ Goto(t, "inserted")
  /\ UNCHANGED <<map, lru, call>>

InsertTouch(t) ==
  /\ At(t, "touch")
  /\ Touch(call[t].key)
  /\ Goto(t, "inserted")
  /\ UNCHANGED <<map, call>>

InsertStep(t) ==
  \/ InsertCheck(t) \/ CountShard(t) \/ EvictVictim(t) \/ EvictNothing(t)
  \/ DropVictim(t) \/ Put(t) \/ InsertTouch(t)

(* Mutant of RemoveEntry: a missing key is not noticed. *)
RemoveUnchecked(t, k) ==
  /\ At(t, "idle")
  /\ map' = [map EXCEPT ![k] = None]
  /\ Set(t, [NoCall EXCEPT !.key = k, !.entry = map[k]])
  /\ Goto(t, "unlink")
  /\ UNCHANGED lru

(* remove: out of the map under the shard lock, then out of the order. *)
RemoveEntry(t, k) ==
  /\ At(t, "idle")
  /\ map[k] # None
  /\ map' = [map EXCEPT ![k] = None]
  /\ Set(t, [NoCall EXCEPT !.key = k, !.entry = map[k]])
  /\ Goto(t, "unlink")
  /\ UNCHANGED lru

RemoveUnlink(t) ==
  /\ At(t, "unlink")
  /\ Forget(call[t].key)
  /\ Goto(t, "removed")
  /\ UNCHANGED <<map, call>>

----------------------------------------------------------------------------
(* The index on its own, called by tasks with any key and any entry. *)
IndexInit ==
  /\ LruInit
  /\ map = [k \in Keys |-> None]
  /\ pc = [t \in Tasks |-> "idle"]
  /\ call = [t \in Tasks |-> NoCall]

CallLookup(k) == LookupHit(k) /\ UNCHANGED <<pc, call>>

CallInsert(t, k, e) ==
  /\ At(t, "idle")
  /\ \A u \in Tasks : call[u].evicted < MaxEvicted
  /\ Goto(t, "contains")
  /\ Set(t, [NoCall EXCEPT !.key = k, !.entry = e])
  /\ UNCHANGED <<map, lru>>

Return(t) ==
  /\ At(t, "inserted")
  /\ Goto(t, "idle")
  /\ Set(t, NoCall)
  /\ UNCHANGED <<map, lru>>

(* Without remove: how a process uses the index that never deletes. *)
GrowNext ==
  \/ \E k \in Keys : CallLookup(k)
  \/ \E t \in Tasks :
       \/ \E k \in Keys, e \in Entries : CallInsert(t, k, e)
       \/ InsertStep(t)
       \/ Return(t)

(* No step of insert waits for anything but a short critical section, so a
   task inside it keeps going. *)
GrowLive ==
  /\ IndexInit
  /\ [][GrowNext]_indexVars
  /\ \A t \in Tasks : WF_indexVars(InsertStep(t))

----------------------------------------------------------------------------
(* Every variable of the index has its type: the map, the recency order
   (which never holds a key twice) and the locals of each running call. *)
IndexTypeOK ==
  /\ map \in [Keys -> Entries \cup {None}]
  /\ lru \in Seq(Keys) /\ IsInjective(lru)
  /\ pc \in [Tasks -> IndexPc \cup {"idle"}]
  /\ call \in [Tasks -> [key : Keys \cup {None}, entry : Entries \cup {None},
                         shard : 0..NumShards, count : Nat,
                         victim : Keys \cup {None}, evicted : Nat]]

(* The eviction loop can reach key k: it is not indexed, or in the recency
   order, or a task is about to put it there (it ran map.insert and not yet
   lru.touch), or a task popped it from the order and is about to remove it
   from the map. *)
Reachable(k) ==
  \/ k \notin Indexed
  \/ k \in Range(lru)
  \/ \E t \in Tasks : At(t, "touch") /\ call[t].key = k
  \/ \E t \in Tasks : At(t, "drop") /\ call[t].victim = k

(* Every entry can be evicted.  As long as nobody calls remove, the eviction
   loop of insert never loses track of an entry, whatever the interleaving of
   inserts, lookups and evictions. *)
Evictable == \A k \in Keys : Reachable(k)

(* Only remove orphans an entry: an entry drops out of reach of the eviction
   loop in no other step than the second half of a remove of its key, when
   the key was inserted again after the first half took it from the map. *)
OrphanedByRemoveOnly ==
  [][\A k \in Keys : Reachable(k) /\ ~Reachable(k)' =>
       \E t \in Tasks :
         At(t, "unlink") /\ call[t].key = k /\ pc'[t] # pc[t]]_indexVars

(* The check of the length and the map.insert are separate critical
   sections, so the index can exceed its capacity; two tasks do so by one
   entry at most, as long as nobody calls remove.  Three tasks can do worse:
   a task that found its key in the map does not count, and adds an entry
   when the key is evicted before its map.insert. *)
OvershootBounded == Cardinality(Tasks) = 2 => Cardinality(Indexed) <= Capacity + 1

(* insert is lock-free: while a task is in its check-and-evict loop, some call
   of insert keeps returning.  One task alone may go round the loop for as
   long as others fill the index behind it, but never all of them. *)
InsertLockFree ==
  (\E t \in Tasks : pc[t] \in {"contains", "len", "evict", "drop", "put", "touch"})
    ~> (\E t \in Tasks : At(t, "inserted"))
=============================================================================
