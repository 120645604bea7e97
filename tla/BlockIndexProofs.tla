-------------------------- MODULE BlockIndexProofs --------------------------
(***************************************************************************)
(* Theorems about the concurrent index as a process uses it that never     *)
(* removes an entry: for any number of tasks, keys and shards its          *)
(* variables have their types and every entry can be evicted, and two      *)
(* tasks exceed the capacity by one entry at most.                         *)
(***************************************************************************)
EXTENDS BlockIndex, SequenceTheorems, FiniteSetTheorems, TLAPS

----------------------------------------------------------------------------
(* The recency order *)

(* A slice within the bounds of a sequence.                                *)
LEMMA Slice ==
  ASSUME NEW S, NEW s \in Seq(S), NEW m \in Nat \ {0}, NEW n \in Nat,
         m <= n + 1, n <= Len(s)
  PROVE  /\ SubSeq(s, m, n) \in Seq(S)
         /\ Len(SubSeq(s, m, n)) = n - m + 1
         /\ \A i \in 1..n - m + 1 : SubSeq(s, m, n)[i] = s[m + i - 1]
<1>1. m \in Int /\ n \in Int /\ \A i \in m..n : s[i] \in S
  OBVIOUS
<1>2. /\ SubSeq(s, m, n) \in Seq(S)
      /\ Len(SubSeq(s, m, n)) = IF m <= n THEN n - m + 1 ELSE 0
      /\ \A i \in 1..n - m + 1 : SubSeq(s, m, n)[i] = s[m + i - 1]
  BY <1>1, SubSeqProperties
<1> QED
  BY <1>2

(* Taking a key out of an order without repetitions takes out that key and *)
(* nothing else.                                                           *)
LEMMA WithoutKey ==
  ASSUME NEW S, NEW s \in Seq(S), IsInjective(s), NEW k
  PROVE  /\ Without(s, k) \in Seq(S)
         /\ IsInjective(Without(s, k))
         /\ Range(Without(s, k)) = Range(s) \ {k}
<1>0. Len(s) \in Nat /\ DOMAIN s = 1..Len(s) /\ \A i \in 1..Len(s) : s[i] \in S
  OBVIOUS
<1>1. CASE \E i \in DOMAIN s : s[i] = k
  <2> DEFINE j == CHOOSE i \in DOMAIN s : s[i] = k
             a == SubSeq(s, 1, j - 1)
             b == SubSeq(s, j + 1, Len(s))
             w == a \o b
  <2>1. j \in 1..Len(s) /\ s[j] = k
    BY <1>0, <1>1, Zenon
  <2>2. Without(s, k) = w
    BY <1>1, Zenon DEF Without
  <2> HIDE DEF j
  <2>3. /\ a \in Seq(S) /\ Len(a) = j - 1 /\ \A i \in 1..j - 1 : a[i] = s[i]
        /\ b \in Seq(S) /\ Len(b) = Len(s) - j
        /\ \A i \in 1..Len(s) - j : b[i] = s[i + j]
    <3>1. 1 \in Nat \ {0} /\ j - 1 \in Nat /\ 1 <= (j - 1) + 1 /\ j - 1 <= Len(s)
      BY <1>0, <2>1
    <3>2. /\ a \in Seq(S) /\ Len(a) = (j - 1) - 1 + 1
          /\ \A i \in 1..(j - 1) - 1 + 1 : a[i] = s[1 + i - 1]
      BY <3>1, Slice
    <3>3. j + 1 \in Nat \ {0} /\ Len(s) \in Nat /\ j + 1 <= Len(s) + 1 /\ Len(s) <= Len(s)
      BY <1>0, <2>1
    <3>4. /\ b \in Seq(S) /\ Len(b) = Len(s) - (j + 1) + 1
          /\ \A i \in 1..Len(s) - (j + 1) + 1 : b[i] = s[(j + 1) + i - 1]
      BY <3>3, Slice
    <3> HIDE DEF a, b
    <3> QED
      <4>1. (j - 1) - 1 + 1 = j - 1 /\ Len(s) - (j + 1) + 1 = Len(s) - j
        BY <1>0, <2>1
      <4>2. \A i \in 1..j - 1 : 1 + i - 1 = i
        BY <2>1
      <4>3. \A i \in 1..Len(s) - j : (j + 1) + i - 1 = i + j
        BY <2>1
      <4> QED
        BY <3>2, <3>4, <4>1, <4>2, <4>3, Zenon
  <2> HIDE DEF a, b
  <2>4. /\ w \in Seq(S) /\ Len(w) = Len(s) - 1
        /\ \A i \in 1..Len(s) - 1 : w[i] = IF i < j THEN s[i] ELSE s[i + 1]
    <3>1. /\ w \in Seq(S) /\ Len(w) = Len(a) + Len(b)
          /\ \A i \in 1..Len(a) + Len(b) : w[i] = IF i <= Len(a) THEN a[i] ELSE b[i - Len(a)]
      BY <2>3, ConcatProperties, Zenon
    <3> HIDE DEF w
    <3>2. ASSUME NEW i \in 1..Len(s) - 1
          PROVE  w[i] = IF i < j THEN s[i] ELSE s[i + 1]
      <4>1. CASE i < j
        <5>1. i \in 1..Len(a) + Len(b) /\ i <= Len(a) /\ i \in 1..j - 1
          BY <1>0, <2>1, <2>3, <4>1
        <5> QED
          BY <2>3, <3>1, <4>1, <5>1, Zenon
      <4>2. CASE ~ (i < j)
        <5>1. i - Len(a) \in 1..Len(s) - j /\ (i - Len(a)) + j = i + 1 /\ ~ (i <= Len(a))
          BY <1>0, <2>1, <2>3, <4>2
        <5>2. i \in 1..Len(a) + Len(b)
          BY <1>0, <2>1, <2>3
        <5>3. w[i] = b[i - Len(a)]
          BY <3>1, <5>1, <5>2, Zenon
        <5> QED
          BY <2>3, <4>2, <5>1, <5>3, Zenon
      <4> QED
        BY <4>1, <4>2
    <3> QED
      BY <1>0, <2>1, <2>3, <3>1, <3>2
  <2> HIDE DEF w
  <2>5. IsInjective(w)
    <3> SUFFICES ASSUME NEW i \in 1..Len(s) - 1, NEW l \in 1..Len(s) - 1, w[i] = w[l]
                 PROVE  i = l
      BY <2>4 DEF IsInjective
    <3> DEFINE up(n) == IF n < j THEN n ELSE n + 1
    <3>0. \A n \in 1..Len(s) - 1 : up(n) \in DOMAIN s /\ w[n] = s[up(n)]
      BY <1>0, <2>1, <2>4
    <3>1. up(i) \in DOMAIN s /\ up(l) \in DOMAIN s /\ s[up(i)] = s[up(l)]
      BY <3>0, Zenon
    <3>2. up(i) = up(l)
      BY <3>1, Zenon DEF IsInjective
    <3> QED
      BY <1>0, <2>1, <3>2
  <2>6. ASSUME NEW x \in Range(w)  PROVE x \in Range(s) \ {k}
    <3>1. PICK i \in 1..Len(s) - 1 : x = w[i]
      BY <2>4 DEF Range
    <3>2. PICK n \in 1..Len(s) : x = s[n] /\ n # j
      BY <1>0, <2>1, <2>4, <3>1
    <3> QED
      BY <1>0, <2>1, <3>2 DEF Range, IsInjective
  <2>7. ASSUME NEW x \in Range(s) \ {k}  PROVE x \in Range(w)
    <3>1. PICK n \in 1..Len(s) : x = s[n] /\ n # j
      BY <1>0, <2>1 DEF Range
    <3>2. PICK i \in 1..Len(s) - 1 : w[i] = x
      <4>1. CASE n < j
        BY <1>0, <2>1, <2>4, <3>1, <4>1
      <4>2. CASE n > j
        <5>1. n - 1 \in 1..Len(s) - 1 /\ ~ (n - 1 < j) /\ (n - 1) + 1 = n
          BY <1>0, <2>1, <4>2
        <5> QED
          BY <2>4, <3>1, <5>1
      <4> QED
        BY <1>0, <2>1, <3>1, <4>1, <4>2
    <3> QED
      BY <2>4, <3>2 DEF Range
  <2> QED
    BY <2>2, <2>4, <2>5, <2>6, <2>7
<1>2. CASE ~ \E i \in DOMAIN s : s[i] = k
  <2>1. Without(s, k) = s
    BY <1>2, Zenon DEF Without
  <2> QED
    BY <1>2, <2>1 DEF Range
<1> QED
  BY <1>1, <1>2
(* A touched key is at the front once, and the others stay.                *)
LEMMA TouchKey ==
  ASSUME lru \in Seq(Keys), IsInjective(lru), NEW k \in Keys, Touch(k)
  PROVE  /\ lru' \in Seq(Keys)
         /\ IsInjective(lru')
         /\ Range(lru') = Range(lru) \cup {k}
<1> DEFINE w == Without(lru, k)
<1>1. w \in Seq(Keys) /\ IsInjective(w) /\ Range(w) = Range(lru) \ {k}
  BY WithoutKey
<1>2. lru' = <<k>> \o w
  BY DEF Touch
<1> HIDE DEF w
<1>3. /\ lru' \in Seq(Keys) /\ Len(lru') = Len(w) + 1 /\ Len(w) \in Nat
      /\ lru'[1] = k
      /\ \A i \in 1..Len(w) : lru'[i + 1] = w[i]
  BY <1>1, <1>2
<1>4. \A i \in 1..Len(lru') : i = 1 \/ (i - 1 \in 1..Len(w) /\ lru'[i] = w[i - 1])
  <2> SUFFICES ASSUME NEW i \in 1..Len(lru'), i # 1
               PROVE  i - 1 \in 1..Len(w) /\ lru'[i] = w[i - 1]
    OBVIOUS
  <2>1. i - 1 \in 1..Len(w) /\ (i - 1) + 1 = i
    BY <1>3
  <2> QED
    BY <1>3, <2>1
<1>5. \A i \in 1..Len(w) : w[i] # k
  BY <1>1 DEF Range
<1>6. IsInjective(lru')
  <2> SUFFICES ASSUME NEW i \in 1..Len(lru'), NEW l \in 1..Len(lru'), lru'[i] = lru'[l]
               PROVE  i = l
    BY <1>3 DEF IsInjective
  <2>1. CASE i = 1 \/ l = 1
    BY <1>3, <1>4, <1>5, <2>1
  <2>2. CASE i # 1 /\ l # 1
    <3>1. /\ i - 1 \in DOMAIN w /\ l - 1 \in DOMAIN w
          /\ w[i - 1] = w[l - 1]
      BY <1>1, <1>4, <2>2
    <3>2. i - 1 = l - 1
      BY <1>1, <3>1, Zenon DEF IsInjective
    <3> QED
      BY <1>3, <3>2
  <2> QED
    BY <2>1, <2>2
<1>7. ASSUME NEW x \in Range(lru')  PROVE x \in Range(lru) \cup {k}
  <2>1. PICK i \in 1..Len(lru') : x = lru'[i]
    BY <1>3 DEF Range
  <2>2. CASE i = 1
    BY <1>3, <2>1, <2>2
  <2>3. CASE i # 1
    <3>1. i - 1 \in DOMAIN w /\ x = w[i - 1]
      BY <1>1, <1>4, <2>1, <2>3
    <3>2. x \in Range(w)
      BY <3>1, Zenon DEF Range
    <3> QED
      BY <1>1, <3>2
  <2> QED
    BY <2>2, <2>3
<1>8. ASSUME NEW x \in Range(lru) \cup {k}  PROVE x \in Range(lru')
  <2>1. CASE x = k
    BY <1>3, <2>1 DEF Range
  <2>2. CASE x # k
    <3>0. x \in Range(w) /\ DOMAIN w = 1..Len(w)
      BY <1>1, <2>2
    <3>1. PICK i \in 1..Len(w) : w[i] = x
      BY <3>0, Zenon DEF Range
    <3>2. i + 1 \in DOMAIN lru' /\ lru'[i + 1] = x
      BY <1>3, <3>1
    <3> QED
      BY <3>2 DEF Range
  <2> QED
    BY <2>1, <2>2
<1> QED
  BY <1>3, <1>6, <1>7, <1>8

(* Eviction takes the last key and nothing else.                           *)
LEMMA EvictKey ==
  ASSUME lru \in Seq(Keys), IsInjective(lru), NEW v, EvictLru(v)
  PROVE  /\ v \in Keys
         /\ lru' \in Seq(Keys)
         /\ IsInjective(lru')
         /\ Range(lru') = Range(lru) \ {v}
<1> DEFINE n == Len(lru)
<1>1. n \in Nat \ {0} /\ v = lru[n] /\ lru' = SubSeq(lru, 1, n - 1)
  BY DEF EvictLru
<1>2. /\ lru' \in Seq(Keys) /\ Len(lru') = n - 1
      /\ \A i \in 1..n - 1 : lru'[i] = lru[i]
  <2> DEFINE m == n - 1
  <2>1. 1 \in Nat \ {0} /\ m \in Nat /\ 1 <= m + 1 /\ m <= Len(lru)
    BY <1>1
  <2>2. /\ lru' \in Seq(Keys) /\ Len(lru') = m - 1 + 1
        /\ \A i \in 1..m - 1 + 1 : lru'[i] = lru[1 + i - 1]
    <3>1. lru' = SubSeq(lru, 1, m)
      BY <1>1
    <3> HIDE DEF m
    <3> QED
      BY <2>1, <3>1, Slice
  <2>3. (n - 1) - 1 + 1 = n - 1 /\ \A i \in 1..n - 1 : 1 + i - 1 = i
    BY <1>1
  <2> QED
    BY <2>2, <2>3, Zenon
<1>3. IsInjective(lru')
  BY <1>1, <1>2 DEF IsInjective
<1>4. Range(lru') \subseteq Range(lru) \ {v}
  BY <1>1, <1>2 DEF IsInjective, Range
<1>5. Range(lru) \ {v} \subseteq Range(lru')
  <2>0. DOMAIN lru = 1..n
    BY <1>1
  <2> SUFFICES ASSUME NEW i \in 1..n, lru[i] # v
               PROVE  lru[i] \in Range(lru')
    BY <2>0, Zenon DEF Range
  <2>1. i \in 1..n - 1
    BY <1>1
  <2>2. i \in DOMAIN lru' /\ lru'[i] = lru[i]
    BY <1>1, <1>2, <2>1
  <2> QED
    BY <2>2, Zenon DEF Range
<1> QED
  BY <1>1, <1>2, <1>3, <1>4, <1>5

----------------------------------------------------------------------------
(* Types and reach of the eviction loop *)

Calls == [key : Keys \cup {None}, entry : Entries \cup {None},
          shard : 0..NumShards, count : Nat,
          victim : Keys \cup {None}, evicted : Nat]

(* The locals of a running insert: its arguments, the shard it counts next *)
(* and the victim it has popped; its count is zero outside the count.      *)
InsertLocals ==
  \A t \in Tasks :
    /\ pc[t] \in {"contains", "len", "evict", "drop", "put", "touch"} =>
         call[t].key \in Keys /\ call[t].entry \in Entries
    /\ At(t, "len") => call[t].shard \in 1..NumShards
    /\ At(t, "drop") => call[t].victim \in Keys
    /\ pc[t] \in {"evict", "drop"} => call[t].count = 0

(* The inductive invariant.                                                *)
IndexInv == IndexTypeOK /\ InsertLocals /\ Evictable

(* Shards are counted with natural numbers: there are finitely many keys.  *)
LEMMA KeysCounted ==
  ASSUME NEW S \in SUBSET Keys
  PROVE  IsFiniteSet(S) /\ Cardinality(S) \in Nat
BY IndexAssumption, FS_Subset, FS_CardinalityType

(* What a step of a task does to its locals and to the order, step by      *)
(* step of insert.                                                         *)
LEMMA InsertShapes ==
  ASSUME IndexInv, NEW t \in Tasks, InsertStep(t)
  PROVE  /\ call' \in [Tasks -> Calls] /\ pc' \in [Tasks -> IndexPc \cup {"idle"}]
         /\ \A u \in Tasks \ {t} : pc'[u] = pc[u] /\ call'[u] = call[u]
         /\ call'[t].key = call[t].key /\ call'[t].entry = call[t].entry
         /\ \/ /\ At(t, "contains") /\ UNCHANGED <<map, lru>>
               /\ \/ map[call[t].key] = None /\ pc'[t] = "len"
                     /\ call'[t].shard = 1 /\ call'[t].count = 0
                  \/ map[call[t].key] # None /\ pc'[t] = "put"
            \/ /\ At(t, "len") /\ UNCHANGED <<map, lru>>
               /\ LET n == call[t].count + ShardLen(call[t].shard) IN
                  \/ /\ call[t].shard < NumShards /\ pc'[t] = "len"
                     /\ call'[t].shard = call[t].shard + 1 /\ call'[t].count = n
                  \/ /\ call[t].shard = NumShards /\ call'[t].count = 0
                     /\ pc'[t] = IF n >= Capacity THEN "evict" ELSE "put"
            \/ /\ At(t, "evict") /\ UNCHANGED map
               /\ pc'[t] = "drop" /\ EvictLru(call'[t].victim)
               /\ call'[t].count = call[t].count
            \/ At(t, "evict") /\ UNCHANGED <<map, lru>> /\ lru = <<>> /\ pc'[t] = "put"
            \/ /\ At(t, "drop") /\ map' = [map EXCEPT ![call[t].victim] = None]
               /\ pc'[t] = "len" /\ call'[t].shard = 1
               /\ call'[t].count = call[t].count /\ UNCHANGED lru
            \/ /\ At(t, "put") /\ map' = [map EXCEPT ![call[t].key] = call[t].entry]
               /\ pc'[t] = "touch" /\ UNCHANGED lru
            \/ /\ At(t, "touch") /\ Touch(call[t].key)
               /\ pc'[t] = "inserted" /\ UNCHANGED map
<1> USE DEF Goto, Set, At
<1>0. /\ call \in [Tasks -> Calls] /\ pc \in [Tasks -> IndexPc \cup {"idle"}]
      /\ call[t] \in Calls
  BY Zenon DEF IndexInv, IndexTypeOK, Calls
<1>9. NumShards \in Nat /\ 0 \in 0..NumShards /\ 1 \in 0..NumShards
  BY IndexAssumption, SMTT(30)
<1>1. CASE InsertCheck(t)
  <2>1. CASE map[call[t].key] = None
    <3> DEFINE c == [call[t] EXCEPT !.shard = 1, !.count = 0]
    <3>1. /\ c \in Calls /\ c.key = call[t].key /\ c.entry = call[t].entry
          /\ c.shard = 1 /\ c.count = 0
      BY <1>0, <1>9, Zenon DEF Calls
    <3>2. /\ call' = [call EXCEPT ![t] = c] /\ pc' = [pc EXCEPT ![t] = "len"]
          /\ At(t, "contains") /\ UNCHANGED <<map, lru>>
      BY <1>1, <2>1 DEF InsertCheck
    <3> HIDE DEF c
    <3> QED
      BY <1>0, <2>1, <3>1, <3>2 DEF IndexPc
  <2>2. CASE map[call[t].key] # None
    BY <1>0, <1>1, <2>2, Zenon DEF InsertCheck, IndexPc
  <2> QED
    BY <2>1, <2>2
<1>2. CASE CountShard(t)
  <2> DEFINE n == call[t].count + ShardLen(call[t].shard)
  <2>1. n \in Nat
    <3>1. ShardLen(call[t].shard) \in Nat
      BY KeysCounted DEF ShardLen, Indexed
    <3> QED
      BY <1>0, <3>1 DEF Calls
  <2> HIDE DEF n
  <2>2. call[t].shard \in 1..NumShards
    BY <1>2, Zenon DEF CountShard, IndexInv, InsertLocals
  <2>3. CASE call[t].shard < NumShards
    <3>1. [call[t] EXCEPT !.shard = @ + 1, !.count = n] \in Calls
      <4>1. call[t].shard + 1 \in 0..NumShards
        BY <1>9, <2>2, <2>3
      <4> QED
        BY <1>0, <2>1, <4>1, Zenon DEF Calls
    <3>2. call' = [call EXCEPT ![t] = [call[t] EXCEPT !.shard = @ + 1, !.count = n]]
      BY <1>2, <2>3 DEF CountShard, n
    <3> QED
      BY <1>0, <1>2, <2>3, <3>1, <3>2 DEF CountShard, Calls, n
  <2>4. CASE ~ (call[t].shard < NumShards)
    <3>1. [call[t] EXCEPT !.shard = 0, !.count = 0] \in Calls
      BY <1>0, <1>9, Zenon DEF Calls
    <3>2. call[t].shard = NumShards
      BY <1>9, <2>2, <2>4
    <3>3. /\ call' = [call EXCEPT ![t] = [call[t] EXCEPT !.shard = 0, !.count = 0]]
          /\ pc' = [pc EXCEPT ![t] = IF n >= Capacity THEN "evict" ELSE "put"]
      BY <1>2, <2>4 DEF CountShard, n
    <3> QED
      BY <1>0, <1>2, <3>1, <3>2, <3>3 DEF CountShard, Calls, IndexPc, n
  <2> QED
    BY <2>3, <2>4
<1>3. CASE EvictVictim(t)
  <2>1. PICK v \in Keys : EvictLru(v) /\ Set(t, [call[t] EXCEPT !.victim = v])
    BY <1>3, Zenon DEF EvictVictim
  <2>2. [call[t] EXCEPT !.victim = v] \in Calls
    BY <1>0 DEF Calls
  <2> QED
    BY <1>0, <1>3, <2>1, <2>2 DEF EvictVictim, Calls, IndexPc
<1>4. CASE EvictNothing(t)
  BY <1>0, <1>4 DEF EvictNothing, IndexPc
<1>5. CASE DropVictim(t)
  <2>1. [call[t] EXCEPT !.victim = None, !.evicted = @ + 1, !.shard = 1] \in Calls
    <3>1. call[t].evicted + 1 \in Nat
      BY <1>0 DEF Calls
    <3> QED
      BY <1>0, <1>9, <3>1, Zenon DEF Calls
  <2> QED
    BY <1>0, <1>5, <2>1 DEF DropVictim, Calls, IndexPc
<1>6. CASE Put(t)
  BY <1>0, <1>6 DEF Put, IndexPc
<1>7. CASE InsertTouch(t)
  BY <1>0, <1>7 DEF InsertTouch, IndexPc
<1> QED
  BY <1>1, <1>2, <1>3, <1>4, <1>5, <1>6, <1>7, Zenon DEF InsertStep

(* A key stays within reach when its entry, the order and the tasks that   *)
(* are about to touch or to drop it stay.                                  *)
LEMMA ReachKept ==
  ASSUME NEW k \in Keys, Reachable(k), k \in Indexed' => k \in Indexed,
         k \in Range(lru) => k \in Range(lru'),
         \A t \in Tasks : \/ pc'[t] = pc[t] /\ call'[t] = call[t]
                          \/ ~ At(t, "touch") /\ ~ At(t, "drop")
  PROVE  Reachable(k)'
BY Zenon DEF Reachable, At

(* A step of insert keeps the types, the locals and the reach.             *)
LEMMA InsertKeeps ==
  ASSUME IndexInv, NEW t \in Tasks, InsertStep(t)
  PROVE  IndexInv'
<1>1. /\ call' \in [Tasks -> Calls] /\ pc' \in [Tasks -> IndexPc \cup {"idle"}]
      /\ \A u \in Tasks \ {t} : pc'[u] = pc[u] /\ call'[u] = call[u]
      /\ call'[t].key = call[t].key /\ call'[t].entry = call[t].entry
  BY InsertShapes, Zenon
<1>2. /\ map \in [Keys -> Entries \cup {None}] /\ lru \in Seq(Keys) /\ IsInjective(lru)
      /\ call[t] \in Calls /\ None \notin Keys \cup Entries
  BY IndexAssumption, Zenon DEF IndexInv, IndexTypeOK, Calls
<1>3. ASSUME map' \in [Keys -> Entries \cup {None}], lru' \in Seq(Keys), IsInjective(lru')
      PROVE  IndexTypeOK'
  BY <1>1, <1>3 DEF IndexTypeOK, Calls
<1>4. ASSUME pc'[t] \in {"contains", "len", "evict", "drop", "put", "touch"} =>
               call[t].key \in Keys /\ call[t].entry \in Entries,
             pc'[t] = "len" => call'[t].shard \in 1..NumShards,
             pc'[t] = "drop" => call'[t].victim \in Keys,
             pc'[t] \in {"evict", "drop"} => call'[t].count = 0
      PROVE  InsertLocals'
  BY <1>1, <1>4, Zenon DEF InsertLocals, IndexInv, At
<1>5. NumShards \in Nat /\ 1 \in 1..NumShards
  BY IndexAssumption
<1>6. pc[t] \in {"contains", "len", "evict", "drop", "put", "touch"} =>
        call[t].key \in Keys /\ call[t].entry \in Entries
  BY Zenon DEF IndexInv, InsertLocals
<1>7. \A k \in Keys : Reachable(k)
  BY Zenon DEF IndexInv, Evictable
<1>8. CASE pc[t] \in {"contains", "len"} \/ (At(t, "evict") /\ pc'[t] = "put")
  <2>1. /\ UNCHANGED <<map, lru>> /\ pc'[t] \in {"len", "put", "evict"}
        /\ pc'[t] = "len" => call'[t].shard \in 1..NumShards
        /\ pc'[t] = "evict" => call'[t].count = 0
    <3>1. CASE At(t, "contains")
      BY <1>5, <3>1, InsertShapes DEF At
    <3>2. CASE At(t, "len")
      <4>1. call[t].shard \in 1..NumShards
        BY <3>2, Zenon DEF IndexInv, InsertLocals
      <4>2. UNCHANGED <<map, lru>>
        BY <3>2, InsertShapes DEF At
      <4>3. \/ /\ call[t].shard < NumShards /\ pc'[t] = "len"
               /\ call'[t].shard = call[t].shard + 1
            \/ call'[t].count = 0 /\ pc'[t] \in {"evict", "put"}
        BY <3>2, InsertShapes DEF At
      <4> QED
        BY <1>5, <4>1, <4>2, <4>3
    <3>3. CASE At(t, "evict") /\ pc'[t] = "put"
      BY <3>3, InsertShapes DEF At
    <3> QED
      BY <1>8, <3>1, <3>2, <3>3 DEF At
  <2>2. IndexTypeOK'
    BY <1>2, <1>3, <2>1
  <2>3. InsertLocals'
    BY <1>4, <1>6, <1>8, <2>1 DEF At
  <2>4. \A k \in Keys : Reachable(k)'
    BY <1>1, <1>7, <1>8, <2>1, ReachKept DEF Indexed, At
  <2> QED
    BY <2>2, <2>3, <2>4 DEF IndexInv, Evictable
<1>9. CASE At(t, "evict") /\ pc'[t] # "put"
  <2> DEFINE v == call'[t].victim
  <2>1. UNCHANGED map /\ pc'[t] = "drop" /\ EvictLru(v) /\ call'[t].count = call[t].count
    BY <1>9, InsertShapes DEF At
  <2>2. v \in Keys /\ lru' \in Seq(Keys) /\ IsInjective(lru') /\ Range(lru') = Range(lru) \ {v}
    BY <1>2, <2>1, EvictKey
  <2>3. IndexTypeOK'
    BY <1>2, <1>3, <2>1, <2>2
  <2>4. call[t].count = 0
    BY <1>9 DEF IndexInv, InsertLocals, At
  <2>5. InsertLocals'
    BY <1>4, <1>6, <1>9, <2>1, <2>2, <2>4 DEF At
  <2>6. ASSUME NEW k \in Keys, k = v  PROVE Reachable(k)'
    BY <2>1, <2>6 DEF Reachable, At
  <2>7. ASSUME NEW k \in Keys, k # v  PROVE Reachable(k)'
    BY <1>1, <1>7, <1>9, <2>1, <2>2, <2>7, ReachKept DEF Indexed, At
  <2> QED
    BY <2>3, <2>5, <2>6, <2>7, Zenon DEF IndexInv, Evictable
<1>10. CASE At(t, "drop")
  <2> DEFINE v == call[t].victim
  <2>1. /\ map' = [map EXCEPT ![v] = None] /\ pc'[t] = "len" /\ UNCHANGED lru
        /\ call'[t].shard = 1
    BY <1>10, InsertShapes DEF At
  <2>2. v \in Keys
    BY <1>10, Zenon DEF IndexInv, InsertLocals
  <2>3. IndexTypeOK'
    BY <1>2, <1>3, <2>1, Zenon
  <2>4. InsertLocals'
    BY <1>4, <1>5, <1>6, <1>10, <2>1 DEF At
  <2>5. v \notin Indexed' /\ Indexed' \subseteq Indexed
    BY <1>2, <2>1, <2>2 DEF Indexed
  <2>6. ASSUME NEW k \in Keys  PROVE Reachable(k)'
    <3>1. CASE k = v
      BY <2>5, <3>1, Zenon DEF Reachable
    <3>2. CASE k # v
      <4>1. \A u \in Tasks : \/ At(u, "touch") /\ call[u].key = k
                             \/ At(u, "drop") /\ call[u].victim = k
                             => u # t
        BY <1>10, <3>2, Zenon DEF At
      <4> QED
        BY <1>1, <1>7, <2>1, <2>5, <4>1 DEF Reachable, At
    <3> QED
      BY <3>1, <3>2
  <2> QED
    BY <2>3, <2>4, <2>6 DEF IndexInv, Evictable
<1>11. CASE At(t, "put")
  <2>1. /\ map' = [map EXCEPT ![call[t].key] = call[t].entry]
        /\ pc'[t] = "touch" /\ UNCHANGED lru
    BY <1>11, InsertShapes DEF At
  <2>2. IndexTypeOK'
    BY <1>2, <1>3, <1>6, <1>11, <2>1 DEF At
  <2>3. InsertLocals'
    BY <1>4, <1>6, <1>11, <2>1 DEF At
  <2>4. ASSUME NEW k \in Keys  PROVE Reachable(k)'
    <3>1. CASE k = call[t].key
      BY <1>1, <2>1, <3>1, Zenon DEF Reachable, At
    <3>2. CASE k # call[t].key
      <4>1. k \in Indexed' => k \in Indexed
        BY <1>2, <2>1, <3>2, Zenon DEF Indexed
      <4> QED
        BY <1>1, <1>7, <1>11, <2>1, <4>1, ReachKept DEF At
    <3> QED
      BY <3>1, <3>2
  <2> QED
    BY <2>2, <2>3, <2>4 DEF IndexInv, Evictable
<1>12. CASE At(t, "touch")
  <2>1. Touch(call[t].key) /\ pc'[t] = "inserted" /\ UNCHANGED map
    BY <1>12, InsertShapes DEF At
  <2>2. /\ lru' \in Seq(Keys) /\ IsInjective(lru')
        /\ Range(lru') = Range(lru) \cup {call[t].key}
    BY <1>2, <1>6, <1>12, <2>1, TouchKey DEF At
  <2>3. IndexTypeOK'
    BY <1>2, <1>3, <2>1, <2>2
  <2>4. InsertLocals'
    BY <1>4, <2>1
  <2>5. ASSUME NEW k \in Keys  PROVE Reachable(k)'
    <3>1. CASE k = call[t].key
      BY <2>2, <3>1 DEF Reachable
    <3>2. CASE k # call[t].key
      <4>1. Indexed' = Indexed
        BY <2>1 DEF Indexed
      <4> QED
        BY <1>1, <1>7, <1>12, <2>1, <2>2, <3>2, <4>1 DEF Reachable, At
    <3> QED
      BY <3>1, <3>2
  <2> QED
    BY <2>3, <2>4, <2>5 DEF IndexInv, Evictable
<1>13. pc[t] \in {"contains", "len", "evict", "drop", "put", "touch"}
  BY DEF InsertStep, InsertCheck, CountShard, EvictVictim, EvictNothing, DropVictim, Put,
         InsertTouch, At
<1> QED
  BY <1>8, <1>9, <1>10, <1>11, <1>12, <1>13 DEF At

(* The other steps: a lookup touches a key of the map, and a task begins   *)
(* or ends its call.                                                       *)
LEMMA CallsKeep ==
  ASSUME IndexInv,
         \/ \E k \in Keys : CallLookup(k)
         \/ \E t \in Tasks : Return(t) \/ \E k \in Keys, e \in Entries : CallInsert(t, k, e)
  PROVE  IndexInv'
<1>0. /\ map \in [Keys -> Entries \cup {None}] /\ lru \in Seq(Keys) /\ IsInjective(lru)
      /\ call \in [Tasks -> Calls] /\ pc \in [Tasks -> IndexPc \cup {"idle"}]
  BY Zenon DEF IndexInv, IndexTypeOK, Calls
<1>1. ASSUME NEW k \in Keys, CallLookup(k)  PROVE IndexInv'
  <2>1. Touch(k) /\ UNCHANGED <<map, pc, call>>
    BY <1>1 DEF CallLookup, LookupHit
  <2>2. lru' \in Seq(Keys) /\ IsInjective(lru') /\ Range(lru') = Range(lru) \cup {k}
    BY <1>0, <2>1, TouchKey
  <2>3. \A l \in Keys : Reachable(l) => Reachable(l)'
    BY <2>1, <2>2 DEF Reachable, Indexed, At
  <2> QED
    BY <2>1, <2>2, <2>3 DEF IndexInv, IndexTypeOK, InsertLocals, Evictable, At
<1>2. ASSUME NEW t \in Tasks, NEW c \in Calls, NEW label \in {"idle", "contains"},
             pc[t] \in {"idle", "inserted"},
             pc' = [pc EXCEPT ![t] = label], call' = [call EXCEPT ![t] = c],
             UNCHANGED <<map, lru>>,
             label = "contains" => c.key \in Keys /\ c.entry \in Entries
      PROVE  IndexInv'
  <2>1. /\ pc'[t] = label /\ call'[t] = c
        /\ \A u \in Tasks \ {t} : pc'[u] = pc[u] /\ call'[u] = call[u]
    BY <1>0, <1>2
  <2>2. pc' \in [Tasks -> IndexPc \cup {"idle"}] /\ call' \in [Tasks -> Calls]
    BY <1>0, <1>2 DEF IndexPc
  <2>3. IndexTypeOK'
    BY <1>0, <1>2, <2>2 DEF IndexTypeOK, Calls
  <2>4. InsertLocals'
    BY <1>2, <2>1 DEF IndexInv, InsertLocals, At
  <2>5. \A k \in Keys : Reachable(k)'
    BY <1>2, <2>1, ReachKept DEF IndexInv, Evictable, Indexed, At
  <2> QED
    BY <2>3, <2>4, <2>5 DEF IndexInv, Evictable
<1>3. NoCall \in Calls /\ \A k \in Keys, e \in Entries :
        /\ [NoCall EXCEPT !.key = k, !.entry = e] \in Calls
        /\ [NoCall EXCEPT !.key = k, !.entry = e].key = k
        /\ [NoCall EXCEPT !.key = k, !.entry = e].entry = e
  <2>1. NoCall \in Calls
    BY IndexAssumption DEF NoCall, Calls
  <2> QED
    BY <2>1, Zenon DEF Calls
<1>4. ASSUME NEW t \in Tasks, Return(t)  PROVE IndexInv'
  BY <1>2, <1>3, <1>4, Zenon DEF Return, At, Goto, Set
<1>5. ASSUME NEW t \in Tasks, NEW k \in Keys, NEW e \in Entries, CallInsert(t, k, e)
      PROVE  IndexInv'
  <2>1. /\ pc[t] = "idle" /\ pc' = [pc EXCEPT ![t] = "contains"]
        /\ call' = [call EXCEPT ![t] = [NoCall EXCEPT !.key = k, !.entry = e]]
        /\ UNCHANGED <<map, lru>>
    BY <1>5, Zenon DEF CallInsert, At, Goto, Set
  <2> DEFINE c == [NoCall EXCEPT !.key = k, !.entry = e]
  <2>2. c \in Calls /\ c.key \in Keys /\ c.entry \in Entries
    BY <1>3, Zenon
  <2> HIDE DEF c
  <2>3. call' = [call EXCEPT ![t] = c]
    BY <2>1 DEF c
  <2> QED
    BY <1>2, <2>1, <2>2, <2>3, Zenon
<1> QED
  BY <1>1, <1>4, <1>5, Zenon

(* IndexInv is an invariant of the index without remove.                   *)
THEOREM IndexInvariant == GrowLive => []IndexInv
<1>1. IndexInit => IndexInv
  <2> SUFFICES ASSUME IndexInit
               PROVE  IndexInv
    OBVIOUS
  <2>1. IndexTypeOK
    BY IndexAssumption DEF IndexInit, LruInit, IndexTypeOK, NoCall, IsInjective
  <2>2. InsertLocals
    BY DEF IndexInit, InsertLocals, At
  <2>3. Evictable
    BY DEF IndexInit, Evictable, Reachable, Indexed
  <2> QED
    BY <2>1, <2>2, <2>3 DEF IndexInv
<1>2. IndexInv /\ [GrowNext]_indexVars => IndexInv'
  <2>1. IndexInv /\ UNCHANGED indexVars => IndexInv'
    BY DEF indexVars, IndexInv, IndexTypeOK, InsertLocals, Evictable, Reachable, Indexed, At
  <2> QED
    BY <2>1, InsertKeeps, CallsKeep, Zenon DEF GrowNext
<1> QED
  BY <1>1, <1>2, PTL DEF GrowLive

(* The variables of the index have their types, and the recency order      *)
(* never holds a key twice, however lookups, inserts and evictions of any  *)
(* number of tasks interleave.                                             *)
THEOREM IndexTypes == GrowLive => []IndexTypeOK
<1>1. IndexInv => IndexTypeOK
  BY DEF IndexInv
<1> QED
  BY <1>1, IndexInvariant, PTL

(* Without remove no entry is ever out of reach of the eviction loop.      *)
THEOREM EntriesEvictable == GrowLive => []Evictable
<1>1. IndexInv => Evictable
  BY DEF IndexInv
<1> QED
  BY <1>1, IndexInvariant, PTL

----------------------------------------------------------------------------
(* Two tasks exceed the capacity by one entry at most *)

(* Keys in the map, and keys that a task will put there next.              *)
PutKeys == {call[t].key : t \in {u \in Tasks : At(u, "put")}}
Taken == Indexed \cup PutKeys

(* What the count of task t comes to if nothing changes before it ends.    *)
View(t) == call[t].count + Cardinality({k \in Indexed : ShardOf[k] >= call[t].shard})

(* At most one key is taken beyond the capacity.  A task that counts has   *)
(* missed at most one taken key, unless no more than the capacity is       *)
(* taken; and of two tasks that count, the one that began later has missed *)
(* none.                                                                   *)
Crowding ==
  LET n == Cardinality(Taken) IN
  /\ n <= Capacity + 1
  /\ \A t \in Tasks : At(t, "len") => n <= View(t) + 1 \/ n <= Capacity
  /\ \A t, u \in Tasks : t # u /\ At(t, "len") /\ At(u, "len") =>
       n <= View(t) \/ n <= View(u)

(* Counting sets of keys.                                                  *)
LEMMA CountingKeys ==
  ASSUME NEW S \in SUBSET Keys, NEW R \in SUBSET Keys, NEW k \in Keys
  PROVE  /\ Cardinality(S) \in Nat
         /\ S \subseteq R => Cardinality(S) <= Cardinality(R)
         /\ Cardinality(S \cup {k}) <= Cardinality(S) + 1
         /\ Cardinality(S) <= Cardinality(S \ {k}) + 1
         /\ k \in S => Cardinality(S \ {k}) = Cardinality(S) - 1
<1>1. IsFiniteSet(S) /\ IsFiniteSet(R) /\ Cardinality(S) \in Nat
  BY KeysCounted
<1>2. S \subseteq R => Cardinality(S) <= Cardinality(R)
  BY <1>1, FS_Subset
<1>3. Cardinality(S \cup {k}) <= Cardinality(S) + 1
  <2>1. Cardinality(S \cup {k}) = IF k \in S THEN Cardinality(S) ELSE Cardinality(S) + 1
    BY <1>1, FS_AddElement, Zenon
  <2> QED
    BY <1>1, <2>1
<1>4. k \in S => Cardinality(S \ {k}) = Cardinality(S) - 1
  BY <1>1, FS_RemoveElement, Zenon
<1>5. Cardinality(S) <= Cardinality(S \ {k}) + 1
  <2>1. k \notin S => S \ {k} = S
    OBVIOUS
  <2> QED
    BY <1>1, <1>4, <2>1
<1> QED
  BY <1>1, <1>2, <1>3, <1>4, <1>5

(* The sets that are counted consist of keys.                              *)
Countable ==
  /\ Indexed \subseteq Keys
  /\ Taken \subseteq Keys
  /\ \A t \in Tasks : View(t) \in Nat

LEMMA TakenAreKeys == IndexInv => Countable
<1> SUFFICES ASSUME IndexInv
             PROVE  Countable
  OBVIOUS
<1>1. PutKeys \subseteq Keys
  BY DEF IndexInv, InsertLocals, PutKeys, At
<1>2. ASSUME NEW t \in Tasks  PROVE View(t) \in Nat
  <2>1. call[t].count \in Nat
    BY DEF IndexInv, IndexTypeOK
  <2>2. Cardinality({k \in Indexed : ShardOf[k] >= call[t].shard}) \in Nat
    BY KeysCounted DEF Indexed
  <2> QED
    BY <2>1, <2>2 DEF View
<1> QED
  BY <1>1, <1>2 DEF Indexed, Taken, Countable

(* A count that begins misses what the other task will put, and nothing    *)
(* else.                                                                   *)
FreshCounts ==
  \A t, u \in Tasks :
    Tasks = {t, u} /\ At(t, "len") /\ call[t].shard = 1 /\ call[t].count = 0 =>
      /\ Cardinality(Taken) <= View(t) + 1
      /\ ~ At(u, "put") => Cardinality(Taken) <= View(t)

LEMMA CountBegins == IndexInv => FreshCounts
<1> SUFFICES ASSUME IndexInv, NEW t \in Tasks, NEW u \in Tasks, Tasks = {t, u},
                    At(t, "len"), call[t].shard = 1, call[t].count = 0
             PROVE  /\ Cardinality(Taken) <= View(t) + 1
                    /\ ~ At(u, "put") => Cardinality(Taken) <= View(t)
  BY DEF FreshCounts
<1>1. \A k \in Indexed : ShardOf[k] >= 1
  BY IndexAssumption DEF Indexed
<1>2. {k \in Indexed : ShardOf[k] >= call[t].shard} = Indexed
  BY <1>1
<1>3. Cardinality(Indexed) \in Nat /\ Indexed \subseteq Keys
  BY KeysCounted DEF Indexed
<1>4. View(t) = Cardinality(Indexed)
  BY <1>2, <1>3 DEF View
<1>5. ~ At(u, "put") => Taken = Indexed
  BY DEF Taken, PutKeys, At
<1>6. At(u, "put") => Taken = Indexed \cup {call[u].key} /\ call[u].key \in Keys
  BY DEF Taken, PutKeys, At, IndexInv, InsertLocals
<1>7. Cardinality(Taken) <= Cardinality(Indexed) + 1
  <2>1. CASE At(u, "put")
    BY <1>3, <1>6, <2>1, CountingKeys, Zenon
  <2>2. CASE ~ At(u, "put")
    BY <1>3, <1>5, <2>2
  <2> QED
    BY <2>1, <2>2
<1> QED
  BY <1>3, <1>4, <1>5, <1>7

(* Counting one shard moves what it holds from the rest to the count.      *)
LEMMA CountOneShard ==
  ASSUME NEW S \in SUBSET Keys, NEW i \in Int
  PROVE  Cardinality({k \in S : ShardOf[k] >= i})
           = Cardinality({k \in S : ShardOf[k] = i})
             + Cardinality({k \in S : ShardOf[k] >= i + 1})
<1> DEFINE A == {k \in S : ShardOf[k] = i}
           B == {k \in S : ShardOf[k] >= i + 1}
<1>1. \A k \in S : ShardOf[k] \in Int
  BY IndexAssumption
<1>2. {k \in S : ShardOf[k] >= i} = A \cup B /\ A \cap B = {}
  BY <1>1
<1>3. /\ IsFiniteSet(A) /\ Cardinality(A) \in Nat
      /\ IsFiniteSet(B) /\ Cardinality(B) \in Nat
  BY KeysCounted
<1> HIDE DEF A, B
<1>4. Cardinality(A \cup B) = Cardinality(A) + Cardinality(B) - Cardinality(A \cap B)
  BY <1>3, FS_Union
<1>5. Cardinality(A \cap B) = 0
  BY <1>2, FS_EmptySet
<1>6. Cardinality(A \cup B) = Cardinality(A) + Cardinality(B)
  BY <1>3, <1>4, <1>5, SMTT(30)
<1> QED
  BY <1>2, <1>6 DEF A, B

(* A step of insert by one of two tasks keeps Crowding.                    *)
LEMMA CrowdingStep ==
  ASSUME IndexInv, IndexInv', NEW t \in Tasks, NEW u \in Tasks, Tasks = {t, u}, t # u,
         Crowding, InsertStep(t)
  PROVE  Crowding'
<1> DEFINE n == Cardinality(Taken)
           kt == call[t].key
           ku == call[u].key
           Puts(w, k) == IF pc[w] = "put" THEN {k} ELSE {}
           Will(w, k) == IF pc'[w] = "put" THEN {k} ELSE {}
<1>1. /\ pc'[u] = pc[u] /\ call'[u] = call[u] /\ call'[t].key = kt
  BY InsertShapes
<1>2. FreshCounts'
  BY CountBegins, PTL
<1>3. Countable /\ Countable'
  BY TakenAreKeys, PTL
<1>4. /\ n \in Nat /\ n' \in Nat /\ Capacity \in Nat \ {0} /\ NumShards \in Nat \ {0}
      /\ View(t) \in Nat /\ View(u) \in Nat /\ View(t)' \in Nat /\ View(u)' \in Nat
      /\ Taken \subseteq Keys /\ Taken' \subseteq Keys
      /\ Indexed \subseteq Keys /\ Indexed' \subseteq Keys
  BY <1>3, KeysCounted, IndexAssumption DEF Countable
<1>5. /\ n <= Capacity + 1
      /\ pc[t] = "len" => n <= View(t) + 1 \/ n <= Capacity
      /\ pc[u] = "len" => n <= View(u) + 1 \/ n <= Capacity
      /\ pc[t] = "len" /\ pc[u] = "len" => n <= View(t) \/ n <= View(u)
  BY DEF Crowding, At
<1>6. /\ Taken = Indexed \cup Puts(t, kt) \cup Puts(u, ku)
      /\ Taken' = Indexed' \cup Will(t, kt) \cup Will(u, ku)
  <2>1. PutKeys = Puts(t, kt) \cup Puts(u, ku)
    BY Zenon DEF PutKeys, At
  <2>2. PutKeys' = Will(t, kt) \cup Will(u, ku)
    BY <1>1, Zenon DEF PutKeys, At
  <2> QED
    BY <2>1, <2>2 DEF Taken
<1>7. UNCHANGED map => Indexed' = Indexed /\ View(u)' = View(u)
  BY <1>1 DEF Indexed, View
<1>8. pc'[t] = "len" /\ call'[t].shard = 1 /\ call'[t].count = 0 =>
        n' <= View(t)' + 1 /\ (pc[u] # "put" => n' <= View(t)')
  BY <1>1, <1>2 DEF FreshCounts, At
<1>9. SUFFICES
        /\ n' <= Capacity + 1
        /\ pc'[t] = "len" => n' <= View(t)' + 1 \/ n' <= Capacity
        /\ pc[u] = "len" => n' <= View(u)' + 1 \/ n' <= Capacity
        /\ pc'[t] = "len" /\ pc[u] = "len" => n' <= View(t)' \/ n' <= View(u)'
  BY <1>1 DEF Crowding, At
<1>10. Taken' = Taken => n' = n
  BY SMTT(30)
<1>11. /\ pc[t] \in {"contains", "len", "evict", "drop", "put", "touch"} => kt \in Keys
       /\ pc[u] = "put" => ku \in Keys
  BY DEF IndexInv, InsertLocals
<1> HIDE DEF n, kt, ku
<1>20. CASE /\ At(t, "contains") /\ UNCHANGED <<map, lru>>
            /\ map[kt] = None /\ pc'[t] = "len" /\ call'[t].shard = 1 /\ call'[t].count = 0
  <2>1. Taken' = Taken
    BY <1>1, <1>6, <1>7, <1>20, ZenonT(30) DEF At
  <2> QED
    BY <1>4, <1>5, <1>7, <1>8, <1>10, <1>20, <2>1, Zenon
<1>21. CASE At(t, "contains") /\ UNCHANGED <<map, lru>> /\ map[kt] # None /\ pc'[t] = "put"
  <2>1. kt \in Indexed
    BY <1>11, <1>21 DEF At, Indexed
  <2>2. Taken' = Taken
    BY <1>1, <1>6, <1>7, <1>21, <2>1, ZenonT(30) DEF At
  <2> QED
    BY <1>4, <1>5, <1>7, <1>10, <1>21, <2>2
<1>22. CASE /\ At(t, "len") /\ UNCHANGED <<map, lru>> /\ call[t].shard < NumShards
            /\ pc'[t] = "len" /\ call'[t].shard = call[t].shard + 1
            /\ call'[t].count = call[t].count + ShardLen(call[t].shard)
  <2>1. Taken' = Taken
    BY <1>1, <1>6, <1>7, <1>22 DEF At
  <2>2. View(t)' = View(t)
    <3> DEFINE i == call[t].shard
               A == Cardinality({k \in Indexed : ShardOf[k] >= i})
               B == Cardinality({k \in Indexed : ShardOf[k] >= i + 1})
               C == Cardinality({k \in Indexed : ShardOf[k] = i})
               m == call[t].count
    <3>1. i \in Int /\ m \in Nat
      BY <1>22 DEF At, IndexInv, InsertLocals, IndexTypeOK
    <3>2. A \in Nat /\ B \in Nat /\ C \in Nat
      BY <1>4, KeysCounted
    <3>3. A = C + B
      BY <1>4, <3>1, CountOneShard, ZenonT(30)
    <3>4. View(t) = m + A /\ View(t)' = (m + C) + B
      BY <1>7, <1>22 DEF View, ShardLen
    <3> HIDE DEF A, B, C, m
    <3> QED
      BY <3>1, <3>2, <3>3, <3>4
  <2> QED
    BY <1>4, <1>5, <1>7, <1>10, <1>22, <2>1, <2>2, ZenonT(30) DEF At
<1>23. CASE /\ At(t, "len") /\ UNCHANGED <<map, lru>> /\ call[t].shard = NumShards
            /\ pc'[t] = IF call[t].count + ShardLen(call[t].shard) >= Capacity
                        THEN "evict" ELSE "put"
  <2>1. CASE pc'[t] = "evict"
    <3>1. Taken' = Taken
      BY <1>1, <1>6, <1>7, <1>23, <2>1, Zenon DEF At
    <3> QED
      BY <1>4, <1>5, <1>7, <1>10, <1>23, <2>1, <3>1, ZenonT(30)
  <2>2. CASE pc'[t] = "put" /\ ~ (call[t].count + ShardLen(call[t].shard) >= Capacity)
    <3>1. Taken' = Taken \cup {kt}
      BY <1>1, <1>6, <1>7, <1>23, <2>2, SMTT(30) DEF At
    <3>2. n' <= n + 1
      BY <1>4, <1>11, <1>23, <3>1, CountingKeys, ZenonT(30) DEF At, n
    <3>3. View(t) = call[t].count + ShardLen(call[t].shard)
      <4>1. \A k \in Indexed : ShardOf[k] >= call[t].shard <=> ShardOf[k] = call[t].shard
        BY <1>4, <1>23, IndexAssumption
      <4> QED
        BY <4>1 DEF View, ShardLen
    <3>4. View(t) < Capacity
      BY <1>4, <2>2, <3>3
    <3>5. pc[t] = "len" /\ UNCHANGED map
      BY <1>23, Zenon DEF At
    <3>6. n' <= Capacity + 1
      BY <1>4, <1>5, <3>2, <3>4, <3>5, SMTT(30)
    <3>7. pc[u] = "len" => n' <= View(u) + 1 \/ n' <= Capacity
      BY <1>4, <1>5, <3>2, <3>4, <3>5, SMTT(30)
    <3> QED
      BY <1>7, <2>2, <3>5, <3>6, <3>7, Zenon
  <2> QED
    BY <1>23, <2>1, <2>2
<1>24. CASE At(t, "evict") /\ UNCHANGED map /\ pc'[t] = "drop"
  <2>1. Taken' = Taken
    BY <1>1, <1>6, <1>7, <1>24, SMTT(30) DEF At
  <2> QED
    BY <1>4, <1>5, <1>7, <1>10, <1>24, <2>1, ZenonT(30)
<1>25. CASE At(t, "evict") /\ UNCHANGED <<map, lru>> /\ lru = <<>> /\ pc'[t] = "put"
  <2>1. \A k \in Indexed : \/ pc[u] = "touch" /\ k = ku
                           \/ pc[u] = "drop" /\ k = call[u].victim
    <3>1. Range(lru) = {}
      BY <1>25 DEF Range
    <3>2. \A k \in Keys : Reachable(k)
      BY DEF IndexInv, Evictable
    <3> QED
      BY <1>4, <1>25, <3>1, <3>2, SMTT(30) DEF Reachable, At, ku
  <2>2. \E x \in Keys : Taken' \subseteq {kt} \cup {x} /\ (pc[u] = "len" => Taken' \subseteq {kt})
    <3>1. CASE pc[u] \in {"touch", "drop"}
      <4> DEFINE x == IF pc[u] = "touch" THEN ku ELSE call[u].victim
      <4>1. x \in Keys
        BY <3>1, SMTT(30) DEF IndexInv, InsertLocals, At, ku
      <4>2. Taken' \subseteq {kt} \cup {x} /\ pc[u] # "len"
        BY <1>1, <1>6, <1>7, <1>25, <2>1, <3>1, SMTT(30)
      <4> QED
        BY <4>1, <4>2, ZenonT(30)
    <3>2. CASE pc[u] \notin {"touch", "drop"}
      <4>1. Indexed = {}
        BY <2>1, <3>2
      <4>2. CASE pc[u] = "put"
        BY <1>1, <1>6, <1>7, <1>11, <1>25, <4>1, <4>2, Zenon
      <4>3. CASE pc[u] # "put"
        <5>1. Taken' = {kt} /\ kt \in Keys
          BY <1>1, <1>6, <1>7, <1>11, <1>25, <4>1, <4>3, ZenonT(30) DEF At
        <5> QED
          BY <5>1, SMTT(30)
      <4> QED
        BY <4>2, <4>3
    <3> QED
      BY <3>1, <3>2
  <2>3. kt \in Keys
    BY <1>11, <1>25 DEF At
  <2>4. Cardinality({kt}) = 1 /\ Cardinality({kt}) \in Nat
    <3>1. Cardinality({kt}) = 1
      BY FS_Singleton, ZenonT(30)
    <3> QED
      BY <3>1
  <2>5. n' <= 2 /\ (pc[u] = "len" => n' <= 1)
    <3>1. PICK x \in Keys : Taken' \subseteq {kt} \cup {x} /\ (pc[u] = "len" => Taken' \subseteq {kt})
      BY <2>2
    <3>2. Cardinality({kt} \cup {x}) <= 2 /\ Cardinality({kt} \cup {x}) \in Nat
      <4>1. {kt} \in SUBSET Keys /\ {kt} \cup {x} \in SUBSET Keys
        BY <2>3
      <4>2. Cardinality({kt} \cup {x}) \in Nat
        BY <4>1, KeysCounted, Zenon
      <4>3. Cardinality({kt} \cup {x}) <= Cardinality({kt}) + 1
        BY <4>1, CountingKeys, Zenon
      <4> QED
        BY <2>4, <4>2, <4>3, SMTT(30)
    <3>3. Cardinality(Taken') <= Cardinality({kt} \cup {x})
      BY <1>4, <2>3, <3>1, CountingKeys, ZenonT(30)
    <3>4. pc[u] = "len" => Cardinality(Taken') <= Cardinality({kt})
      BY <1>4, <2>3, <3>1, CountingKeys, ZenonT(30)
    <3>5. n' = Cardinality(Taken')
      BY SMTT(30) DEF n
    <3> QED
      BY <1>4, <2>4, <3>2, <3>3, <3>4, <3>5, SMTT(30)
  <2> QED
    BY <1>4, <1>25, <2>5, SMTT(30)
<1>26. CASE /\ At(t, "drop") /\ map' = [map EXCEPT ![call[t].victim] = None]
            /\ pc'[t] = "len" /\ call'[t].shard = 1 /\ call'[t].count = call[t].count
  <2> DEFINE v == call[t].victim
  <2>1. v \in Keys /\ call[t].count = 0
    BY <1>26 DEF IndexInv, InsertLocals, At
  <2> HIDE DEF v
  <2>2. Indexed' = Indexed \ {v}
    BY <1>26, <2>1 DEF Indexed, v, IndexInv, IndexTypeOK
  <2>3. n' <= View(t)' + 1 /\ (pc[u] # "put" => n' <= View(t)')
    BY <1>8, <1>26, <2>1
  <2>4. Taken' \subseteq Taken
    BY <1>1, <1>6, <1>26, <2>2 DEF At
  <2>5. n' <= n
    BY <1>4, <2>1, <2>4, CountingKeys, Zenon DEF n
  <2>6. ASSUME pc[u] = "len"  PROVE n' <= View(u)' + 1 \/ n' <= Capacity
    <3>1. Taken = Indexed /\ Taken' = Indexed'
      BY <1>1, <1>6, <1>26, <2>6 DEF At
    <3>2. CASE v \notin Indexed
      <4>1. Indexed' = Indexed
        BY <2>2, <3>2
      <4>2. View(u)' = View(u) /\ n' = n
        BY <1>1, <3>1, <4>1 DEF View, n
      <4> QED
        BY <1>4, <1>5, <2>6, <4>2
    <3>3. CASE v \in Indexed
      <4>1. n' = n - 1
        BY <1>4, <2>1, <2>2, <3>1, <3>3, CountingKeys, Zenon DEF n
      <4>2. View(u) <= View(u)' + 1
        <5> DEFINE A == {k \in Indexed : ShardOf[k] >= call[u].shard}
        <5>1. {k \in Indexed' : ShardOf[k] >= call'[u].shard} = A \ {v}
          BY <1>1, <2>2, SMTT(30)
        <5>2. /\ Cardinality(A) \in Nat /\ Cardinality(A \ {v}) \in Nat
              /\ Cardinality(A) <= Cardinality(A \ {v}) + 1
          BY <1>4, <2>1, CountingKeys, ZenonT(30)
        <5>3. View(u) = call[u].count + Cardinality(A)
          BY DEF View
        <5>4. View(u)' = call[u].count + Cardinality(A \ {v})
          BY <1>1, <5>1 DEF View
        <5>5. call[u].count \in Nat
          BY DEF IndexInv, IndexTypeOK
        <5> HIDE DEF A
        <5> QED
          BY <5>2, <5>3, <5>4, <5>5, SMTT(30)
      <4> QED
        BY <1>4, <1>5, <2>6, <4>1, <4>2, SMTT(30)
    <3> QED
      BY <3>2, <3>3
  <2> QED
    BY <1>4, <1>5, <2>3, <2>5, <2>6, SMTT(30)
<1>27. CASE /\ At(t, "put") /\ map' = [map EXCEPT ![call[t].key] = call[t].entry]
            /\ pc'[t] = "touch"
  <2>1. kt \in Keys /\ call[t].entry \in Entries
    BY <1>27 DEF IndexInv, InsertLocals, At, kt
  <2>2. Indexed' = Indexed \cup {kt}
    <3>1. map \in [Keys -> Entries \cup {None}] /\ None \notin Entries
      BY IndexAssumption, Zenon DEF IndexInv, IndexTypeOK
    <3>2. map' = [map EXCEPT ![kt] = call[t].entry]
      BY <1>27, Zenon DEF kt
    <3> HIDE DEF kt
    <3> QED
      BY <2>1, <3>1, <3>2 DEF Indexed
  <2>3. Taken' = Taken
    BY <1>1, <1>6, <1>27, <2>2 DEF At
  <2>4. View(u) <= View(u)'
    <3> DEFINE A == {k \in Indexed : ShardOf[k] >= call[u].shard}
               B == {k \in Indexed' : ShardOf[k] >= call[u].shard}
    <3>1. A \subseteq B /\ A \in SUBSET Keys /\ B \in SUBSET Keys
      BY <1>4, <2>2
    <3>2. View(u) = call[u].count + Cardinality(A)
      BY DEF View
    <3>3. View(u)' = call[u].count + Cardinality(B)
      BY <1>1 DEF View
    <3>4. call[u].count \in Nat
      BY DEF IndexInv, IndexTypeOK
    <3> HIDE DEF A, B
    <3>5. Cardinality(A) \in Nat /\ Cardinality(B) \in Nat /\ Cardinality(A) <= Cardinality(B)
      BY <2>1, <3>1, CountingKeys, ZenonT(30)
    <3> QED
      BY <3>2, <3>3, <3>4, <3>5, SMTT(30)
  <2> QED
    BY <1>4, <1>5, <1>10, <1>27, <2>3, <2>4
<1>28. CASE At(t, "touch") /\ UNCHANGED map /\ pc'[t] = "inserted"
  <2>1. Taken' = Taken
    BY <1>1, <1>6, <1>7, <1>28 DEF At
  <2> QED
    BY <1>4, <1>5, <1>7, <1>10, <1>28, <2>1, Zenon
<1>29. \/ /\ At(t, "contains") /\ UNCHANGED <<map, lru>>
          /\ \/ map[kt] = None /\ pc'[t] = "len"
                /\ call'[t].shard = 1 /\ call'[t].count = 0
             \/ map[kt] # None /\ pc'[t] = "put"
       \/ /\ At(t, "len") /\ UNCHANGED <<map, lru>>
          /\ \/ /\ call[t].shard < NumShards /\ pc'[t] = "len"
                /\ call'[t].shard = call[t].shard + 1
                /\ call'[t].count = call[t].count + ShardLen(call[t].shard)
             \/ /\ call[t].shard = NumShards
                /\ pc'[t] = IF call[t].count + ShardLen(call[t].shard) >= Capacity
                            THEN "evict" ELSE "put"
       \/ At(t, "evict") /\ UNCHANGED map /\ pc'[t] = "drop"
       \/ At(t, "evict") /\ UNCHANGED <<map, lru>> /\ lru = <<>> /\ pc'[t] = "put"
       \/ /\ At(t, "drop") /\ map' = [map EXCEPT ![call[t].victim] = None]
          /\ pc'[t] = "len" /\ call'[t].shard = 1 /\ call'[t].count = call[t].count
       \/ /\ At(t, "put") /\ map' = [map EXCEPT ![call[t].key] = call[t].entry]
          /\ pc'[t] = "touch"
       \/ At(t, "touch") /\ UNCHANGED map /\ pc'[t] = "inserted"
  BY InsertShapes, ZenonT(30) DEF kt
<1> QED
  BY <1>20, <1>21, <1>22, <1>23, <1>24, <1>25, <1>26, <1>27, <1>28, <1>29, ZenonT(30)

(* The other steps of the index put and count nothing.                     *)
LEMMA CrowdingKept ==
  ASSUME IndexInv, Crowding,
         \/ \E k \in Keys : CallLookup(k)
         \/ \E t \in Tasks : Return(t) \/ \E k \in Keys, e \in Entries : CallInsert(t, k, e)
         \/ UNCHANGED indexVars
  PROVE  Crowding'
<1>1. /\ UNCHANGED map
      /\ \A t \in Tasks : /\ At(t, "put")' <=> At(t, "put")
                          /\ At(t, "len")' <=> At(t, "len")
                          /\ pc[t] \in {"put", "len"} => call'[t] = call[t]
  <2> USE DEF At
  <2>1. CASE \E k \in Keys : CallLookup(k)
    BY <2>1 DEF CallLookup, LookupHit
  <2>2. CASE UNCHANGED indexVars
    BY <2>2 DEF indexVars
  <2>3. pc \in [Tasks -> IndexPc \cup {"idle"}] /\ DOMAIN call = Tasks
    BY DEF IndexInv, IndexTypeOK
  <2>4. ASSUME NEW t \in Tasks, Return(t)
        PROVE  /\ UNCHANGED map /\ pc[t] = "inserted" /\ pc'[t] = "idle"
               /\ \A w \in Tasks \ {t} : pc'[w] = pc[w] /\ call'[w] = call[w]
    BY <2>3, <2>4, SMTT(30) DEF Return, Goto, Set
  <2>5. ASSUME NEW t \in Tasks, NEW k \in Keys, NEW e \in Entries, CallInsert(t, k, e)
        PROVE  /\ UNCHANGED map /\ pc[t] = "idle" /\ pc'[t] = "contains"
               /\ \A w \in Tasks \ {t} : pc'[w] = pc[w] /\ call'[w] = call[w]
    BY <2>3, <2>5, Zenon DEF CallInsert, Goto, Set
  <2>6. CASE \E t \in Tasks : Return(t) \/ \E k \in Keys, e \in Entries : CallInsert(t, k, e)
    BY <2>4, <2>5, <2>6, Zenon
  <2> QED
    BY <2>1, <2>2, <2>6
<1>2. Indexed' = Indexed /\ PutKeys' = PutKeys
  BY <1>1 DEF Indexed, PutKeys, At
<1>3. Taken' = Taken /\ \A t \in Tasks : At(t, "len") => View(t)' = View(t)
  BY <1>1, <1>2, Zenon DEF Taken, View, At
<1> QED
  BY <1>1, <1>3 DEF Crowding

(* With two tasks, Crowding is an invariant of the index without remove.   *)
THEOREM CrowdingInvariant == GrowLive => [](Cardinality(Tasks) = 2 => Crowding)
<1>1. IndexInit /\ IndexInv => Crowding
  <2> SUFFICES ASSUME IndexInit, IndexInv
               PROVE  Crowding
    OBVIOUS
  <2>1. Taken = {} /\ \A t \in Tasks : pc[t] = "idle"
    BY DEF IndexInit, Taken, PutKeys, Indexed, At
  <2>2. Cardinality(Taken) = 0
    BY <2>1, FS_EmptySet
  <2> QED
    BY <2>1, <2>2, IndexAssumption DEF Crowding, At
<1>2. ASSUME NEW t \in Tasks, Cardinality(Tasks) = 2
      PROVE  \E u \in Tasks : t # u /\ Tasks = {t, u}
  <2>1. IsFiniteSet(Tasks \ {t}) /\ Cardinality(Tasks \ {t}) = 1
    <3>1. IsFiniteSet(Tasks \ {t}) /\ Cardinality(Tasks \ {t}) = Cardinality(Tasks) - 1
      BY IndexAssumption, FS_RemoveElement
    <3> QED
      BY <1>2, <3>1
  <2>2. PICK u : Tasks \ {t} = {u}
    BY <2>1, FS_Singleton, Zenon
  <2> QED
    BY <2>2
<1>3. IndexInv /\ IndexInv' /\ [GrowNext]_indexVars /\ (Cardinality(Tasks) = 2 => Crowding)
        => (Cardinality(Tasks) = 2 => Crowding)'
  <2> SUFFICES ASSUME IndexInv, IndexInv', [GrowNext]_indexVars, Cardinality(Tasks) = 2, Crowding
               PROVE  Crowding'
    OBVIOUS
  <2>1. ASSUME NEW t \in Tasks, InsertStep(t)  PROVE Crowding'
    <3>1. PICK u \in Tasks : t # u /\ Tasks = {t, u}
      BY <1>2
    <3> QED
      BY <2>1, <3>1, CrowdingStep
  <2> QED
    BY <2>1, CrowdingKept, Zenon DEF GrowNext
<1> QED
  BY <1>1, <1>3, IndexInvariant, PTL DEF GrowLive

(* Two tasks that insert at the same time exceed the capacity of the index *)
(* by one entry at most, for any capacity, keys and number of shards:      *)
(* DashMap::len counts shard by shard, and what the count misses is at     *)
(* most the entry that the other task puts meanwhile.                      *)
THEOREM OvershootIsOne == GrowLive => []OvershootBounded
<1>1. IndexInv /\ (Cardinality(Tasks) = 2 => Crowding) => OvershootBounded
  <2> SUFFICES ASSUME IndexInv, Crowding
               PROVE  Cardinality(Indexed) <= Capacity + 1
    BY DEF OvershootBounded
  <2>1. Indexed \subseteq Taken /\ Indexed \subseteq Keys /\ Taken \subseteq Keys
    BY TakenAreKeys DEF Countable, Taken
  <2>2. IsFiniteSet(Taken) /\ Cardinality(Taken) \in Nat /\ Cardinality(Indexed) \in Nat
    BY <2>1, KeysCounted
  <2>3. Cardinality(Indexed) <= Cardinality(Taken)
    BY <2>1, <2>2, FS_Subset
  <2> QED
    BY <2>2, <2>3, IndexAssumption DEF Crowding
<1> QED
  BY <1>1, IndexInvariant, CrowdingInvariant, PTL
=============================================================================
