--------------------------- MODULE LruPolicyProofs ---------------------------
(***************************************************************************)
(* Theorems about LruPolicy, for any number of keys and calls: the slab of *)
(* linked nodes stays one list, and implements the recency order.          *)
(***************************************************************************)
EXTENDS LruPolicy, FiniteSetTheorems, TLAPS

----------------------------------------------------------------------------
(* The inductive invariant *)

(* Element i of list p, None beyond its ends.                              *)
At(p, i) == IF i \in DOMAIN p THEN p[i] ELSE None

Entry == [prefix_hash : Keys, prev : Nat \cup {None}, next : Nat \cup {None}]

Inner == [entries : Seq(Entry), free_indices : Seq(Nat),
          index : [Keys -> Nat \cup {None}], head : Nat \cup {None}, tail : Nat \cup {None}]

Distinct(p) == \A i, j \in DOMAIN p : p[i] = p[j] => i = j

(* The links of l make one list of the slots p.                            *)
Linked(l, p) ==
  /\ p \in Seq(DOMAIN l.entries) /\ Distinct(p)
  /\ l.head = At(p, 1) /\ l.tail = At(p, Len(p))
  /\ \A i \in DOMAIN p : /\ l.entries[p[i]].prev = At(p, i - 1)
                         /\ l.entries[p[i]].next = At(p, i + 1)

Has(p, x) == \E i \in DOMAIN p : p[i] = x

(* The other slots are free, each once.                                    *)
FreeOK(l, p) ==
  /\ Distinct(l.free_indices)
  /\ \A x : Has(l.free_indices, x) <=> x \in DOMAIN l.entries /\ ~ Has(p, x)

(* The map names the slots of the list by their keys.                      *)
IndexOK(l, p) ==
  /\ \A k \in Keys : l.index[k] # None =>
       Has(p, l.index[k]) /\ l.entries[l.index[k]].prefix_hash = k
  /\ \A x \in DOMAIN l.entries : Has(p, x) => l.index[l.entries[x].prefix_hash] = x

Slab(l, p) ==
  /\ l \in Inner /\ Linked(l, p) /\ FreeOK(l, p) /\ IndexOK(l, p)
  /\ Len(l.entries) <= Cardinality(Keys)

PolicyInv == \E p \in Seq(Nat) : Slab(inner, p)

----------------------------------------------------------------------------
(* Walking along the links *)

(* A nonempty set of numbers has a least one.                              *)
LEMMA LeastNumber ==
  ASSUME NEW S, S \subseteq Nat, S # {}
  PROVE  \E x \in S : \A y \in S : ~ (y < x)
<1>1. PICK x \in S : \A y \in S : ~(<<y, x>> \in OpToRel(<, Nat))
  <2>1. IsWellFoundedOn(OpToRel(<, Nat), Nat)
    BY NatLessThanWellFounded, Zenon
  <2> QED
    BY <2>1, WFMin, Zenon
<1>2. \A y \in S : <<y, x>> \in OpToRel(<, Nat) <=> y < x
  BY Zenon DEF OpToRel
<1> QED
  BY <1>1, <1>2, Zenon

(* A walk that starts at the first slot of q and leads from each slot to   *)
(* the next one visits q.                                                  *)
LEMMA WalkOf ==
  ASSUME NEW l \in Inner, NEW q \in Seq(DOMAIN l.entries), Distinct(q),
         NEW field, \A i \in DOMAIN q : l.entries[q[i]][field] = At(q, i + 1)
  PROVE  Path(l, At(q, 1), field) = q
<1> DEFINE N == Len(l.entries)
           D == DOMAIN l.entries
           start == At(q, 1)
           step(f, n) == IF n = 1 THEN start
                         ELSE IF f[n-1] = None THEN None ELSE l.entries[f[n-1]][field]
           nth == CHOOSE f : f = [n \in D |-> step(f, n)]
           g == [n \in D |-> At(q, n)]
<1>0. /\ N \in Nat /\ D = 1..N /\ Len(q) \in Nat /\ DOMAIN q = 1..Len(q)
      /\ \A i \in DOMAIN q : q[i] \in D /\ q[i] \in Nat
  BY DEF Inner
<1>1. Len(q) <= N
  <2> HIDE DEF N, D
  <2>1. q \in Injection(1..Len(q), 1..N)
    <3>1. q \in [1..Len(q) -> 1..N]
      BY <1>0
    <3>2. IsInjective(q)
      BY Zenon DEF IsInjective, Distinct
    <3> QED
      BY <3>1, <3>2, Zenon DEF Injection
  <2>2. \A n \in Nat : IsFiniteSet(1..n) /\ Cardinality(1..n) = n
    <3> SUFFICES ASSUME NEW n \in Nat  PROVE IsFiniteSet(1..n) /\ Cardinality(1..n) = n
      OBVIOUS
    <3>1. 1 \in Int /\ n \in Int
      OBVIOUS
    <3>2. IsFiniteSet(1..n) /\ Cardinality(1..n) = IF 1 > n THEN 0 ELSE n - 1 + 1
      BY <3>1, FS_Interval, Zenon
    <3> QED
      BY <3>2
  <2>3. Cardinality(1..Len(q)) <= Cardinality(1..N)
    BY <1>0, <2>1, <2>2, FS_Injection, Zenon
  <2> QED
    BY <1>0, <2>2, <2>3
<1>2. \A n \in D : g[n] = step(g, n)
  <2> SUFFICES ASSUME NEW n \in D  PROVE At(q, n) = step(g, n)
    BY Zenon
  <2>1. CASE n = 1
    BY <2>1
  <2>2. CASE n # 1
    <3>1. n - 1 \in D /\ g[n-1] = At(q, n - 1)
      BY <1>0, <2>2
    <3>2. CASE n - 1 \in DOMAIN q
      <4>1. g[n-1] = q[n-1] /\ g[n-1] # None
        BY <1>0, <3>1, <3>2, PolicyAssumption DEF At
      <4>2. l.entries[q[n-1]][field] = At(q, n)
        BY <1>0, <3>2
      <4> QED
        BY <2>2, <4>1, <4>2
    <3>3. CASE n - 1 \notin DOMAIN q
      <4>1. g[n-1] = None
        BY <3>1, <3>3 DEF At
      <4>2. At(q, n) = None
        BY <1>0, <3>3, <2>2 DEF At
      <4> QED
        BY <2>2, <4>1, <4>2
    <3> QED
      BY <3>2, <3>3
  <2> QED
    BY <2>1, <2>2
<1>3. nth = [n \in D |-> step(nth, n)]
  <2>1. g = [n \in D |-> step(g, n)]
    BY <1>2, Zenon
  <2>2. \E f : f = [n \in D |-> step(f, n)]
    BY <2>1, Zenon
  <2> QED
    BY <2>2, Zenon
<1>4. Path(l, start, field) = [n \in 1..Cardinality({n \in D : nth[n] # None}) |-> nth[n]]
  BY Zenon DEF Path
<1>5. \A n \in D : nth[n] = step(nth, n)
  BY <1>3, Zenon
<1> HIDE DEF nth
<1>6. \A n \in D : nth[n] = g[n]
  <2> DEFINE T == {n \in D : nth[n] # g[n]}
  <2> SUFFICES ASSUME T # {}  PROVE FALSE
    OBVIOUS
  <2>1. T \subseteq Nat
    BY <1>0
  <2>2. PICK x \in T : \A y \in T : ~ (y < x)
    <3> HIDE DEF T
    <3> QED
      BY <2>1, LeastNumber, Zenon
  <2>3. x # 1
    BY <1>2, <1>5, <2>2
  <2>4. x - 1 \in D /\ x - 1 < x
    BY <1>0, <2>2, <2>3
  <2>5. nth[x-1] = g[x-1]
    BY <2>2, <2>4, Zenon
  <2>6. step(nth, x) = step(g, x)
    BY <2>5
  <2> QED
    BY <1>2, <1>5, <2>2, <2>6, Zenon
<1>7. {n \in D : nth[n] # None} = 1..Len(q)
  <2>1. \A n \in D : nth[n] # None <=> n \in 1..Len(q)
    <3>1. \A n \in D : At(q, n) # None <=> n \in 1..Len(q)
      BY <1>0, PolicyAssumption DEF At
    <3>2. \A n \in D : nth[n] = At(q, n)
      BY <1>6, Zenon
    <3> QED
      BY <3>1, <3>2, Zenon
  <2> QED
    BY <1>0, <1>1, <2>1
<1>8. Cardinality(1..Len(q)) = Len(q)
  <2>1. 1 \in Int /\ Len(q) \in Int
    BY <1>0
  <2>2. Cardinality(1..Len(q)) = IF 1 > Len(q) THEN 0 ELSE Len(q) - 1 + 1
    BY <2>1, FS_Interval, Zenon
  <2> QED
    BY <1>0, <2>2
<1>9. Path(l, start, field) = [n \in 1..Len(q) |-> nth[n]]
  BY <1>4, <1>7, <1>8, Zenon
<1>10. \A n \in 1..Len(q) : nth[n] = q[n]
  <2>1. \A n \in 1..Len(q) : n \in D /\ g[n] = q[n]
    BY <1>0, <1>1 DEF At
  <2> QED
    BY <1>6, <2>1, Zenon
<1>11. q = [n \in 1..Len(q) |-> q[n]]
  BY <1>0
<1> HIDE DEF start
<1> QED
  BY <1>9, <1>10, <1>11, Zenon DEF start
----------------------------------------------------------------------------
(* One link is set *)

(* List a has the nodes of l, but for links.                               *)
SameNodes(l, a) ==
  /\ a \in Inner /\ DOMAIN a.entries = DOMAIN l.entries
  /\ Len(a.entries) = Len(l.entries)
  /\ a.free_indices = l.free_indices /\ a.index = l.index
  /\ \A x \in DOMAIN l.entries : a.entries[x].prefix_hash = l.entries[x].prefix_hash

SameEnds(l, a) == a.head = l.head /\ a.tail = l.tail

NextSet(l, j, v, a) ==
  /\ SameNodes(l, a) /\ SameEnds(l, a)
  /\ \A x \in DOMAIN l.entries :
       /\ a.entries[x].prev = l.entries[x].prev
       /\ a.entries[x].next = IF x = j THEN v ELSE l.entries[x].next

LEMMA SetNext ==
  ASSUME NEW l \in Inner, NEW j \in DOMAIN l.entries, NEW v \in Nat \cup {None}
  PROVE  NextSet(l, j, v, [l EXCEPT !.entries[j].next = v])
<1> DEFINE a == [l EXCEPT !.entries[j].next = v]
           E == l.entries
           e == [E[j] EXCEPT !.next = v]
           F == [E EXCEPT ![j] = e]
<1>1. E \in Seq(Entry) /\ E[j] \in Entry /\ DOMAIN E = 1..Len(E) /\ Len(E) \in Nat
  BY DEF Inner
<1>2. a = [l EXCEPT !.entries = F]
  BY Zenon DEF Inner
<1>3. /\ e \in Entry /\ e.prefix_hash = E[j].prefix_hash /\ e.prev = E[j].prev /\ e.next = v
  BY <1>1 DEF Entry
<1> HIDE DEF e
<1>4. /\ F \in Seq(Entry) /\ DOMAIN F = DOMAIN E /\ Len(F) = Len(E)
      /\ \A x \in DOMAIN E : F[x] = IF x = j THEN e ELSE E[x]
  BY <1>1, <1>3
<1> HIDE DEF F
<1>5. /\ a \in Inner /\ a.entries = F /\ a.free_indices = l.free_indices /\ a.index = l.index
      /\ a.head = l.head /\ a.tail = l.tail
  <2>1. a \in Inner
    BY <1>2, <1>4, Zenon DEF Inner
  <2> QED
    BY <1>2, <1>4 DEF Inner
<1> HIDE DEF a
<1>6. \A x \in DOMAIN E : /\ F[x].prefix_hash = E[x].prefix_hash /\ F[x].prev = E[x].prev
                          /\ F[x].next = IF x = j THEN v ELSE E[x].next
  BY <1>3, <1>4
<1>7. SameNodes(l, a) /\ SameEnds(l, a)
  BY <1>4, <1>5, <1>6, Zenon DEF SameNodes, SameEnds
<1>8. \A x \in DOMAIN l.entries :
        /\ a.entries[x].prev = l.entries[x].prev
        /\ a.entries[x].next = IF x = j THEN v ELSE l.entries[x].next
  BY <1>5, <1>6, Zenon
<1> QED
  BY <1>7, <1>8, Zenon DEF NextSet, a

PrevSet(l, j, v, a) ==
  /\ SameNodes(l, a) /\ SameEnds(l, a)
  /\ \A x \in DOMAIN l.entries :
       /\ a.entries[x].next = l.entries[x].next
       /\ a.entries[x].prev = IF x = j THEN v ELSE l.entries[x].prev

LEMMA SetPrev ==
  ASSUME NEW l \in Inner, NEW j \in DOMAIN l.entries, NEW v \in Nat \cup {None}
  PROVE  PrevSet(l, j, v, [l EXCEPT !.entries[j].prev = v])
<1> DEFINE a == [l EXCEPT !.entries[j].prev = v]
           E == l.entries
           e == [E[j] EXCEPT !.prev = v]
           F == [E EXCEPT ![j] = e]
<1>1. E \in Seq(Entry) /\ E[j] \in Entry /\ DOMAIN E = 1..Len(E) /\ Len(E) \in Nat
  BY DEF Inner
<1>2. a = [l EXCEPT !.entries = F]
  BY Zenon DEF Inner
<1>3. /\ e \in Entry /\ e.prefix_hash = E[j].prefix_hash /\ e.next = E[j].next /\ e.prev = v
  BY <1>1 DEF Entry
<1> HIDE DEF e
<1>4. /\ F \in Seq(Entry) /\ DOMAIN F = DOMAIN E /\ Len(F) = Len(E)
      /\ \A x \in DOMAIN E : F[x] = IF x = j THEN e ELSE E[x]
  BY <1>1, <1>3
<1> HIDE DEF F
<1>5. /\ a \in Inner /\ a.entries = F /\ a.free_indices = l.free_indices /\ a.index = l.index
      /\ a.head = l.head /\ a.tail = l.tail
  <2>1. a \in Inner
    BY <1>2, <1>4, Zenon DEF Inner
  <2> QED
    BY <1>2, <1>4 DEF Inner
<1> HIDE DEF a
<1>6. \A x \in DOMAIN E : /\ F[x].prefix_hash = E[x].prefix_hash /\ F[x].next = E[x].next
                          /\ F[x].prev = IF x = j THEN v ELSE E[x].prev
  BY <1>3, <1>4
<1>7. SameNodes(l, a) /\ SameEnds(l, a)
  BY <1>4, <1>5, <1>6, Zenon DEF SameNodes, SameEnds
<1>8. \A x \in DOMAIN l.entries :
        /\ a.entries[x].next = l.entries[x].next
        /\ a.entries[x].prev = IF x = j THEN v ELSE l.entries[x].prev
  BY <1>5, <1>6, Zenon
<1> QED
  BY <1>7, <1>8, Zenon DEF PrevSet, a

EndsSet(l, h, t, a) ==
  SameNodes(l, a) /\ a.entries = l.entries /\ a.head = h /\ a.tail = t

LEMMA SetEnds ==
  ASSUME NEW l \in Inner, NEW h \in Nat \cup {None}, NEW t \in Nat \cup {None}
  PROVE  EndsSet(l, h, t, [l EXCEPT !.head = h, !.tail = t])
BY Zenon DEF Inner, SameNodes, EndsSet
----------------------------------------------------------------------------
(* unlink and push_front *)

LEMMA SameTwice ==
  ASSUME NEW l, NEW a, NEW b, SameNodes(l, a), SameNodes(a, b)
  PROVE  SameNodes(l, b)
BY DEF SameNodes

(* unlink takes slot i out from between its neighbours.                    *)
UnlinkEffect(l, i, u) ==
  LET p == l.entries[i].prev
      n == l.entries[i].next
  IN  /\ SameNodes(l, u)
      /\ u.head = IF p = None THEN n ELSE l.head
      /\ u.tail = IF n = None THEN p ELSE l.tail
      /\ \A x \in DOMAIN l.entries : x # i =>
           /\ u.entries[x].next = IF x = p THEN n ELSE l.entries[x].next
           /\ u.entries[x].prev = IF x = n THEN p ELSE l.entries[x].prev

LEMMA UnlinkDoes ==
  ASSUME NEW l \in Inner, NEW i \in DOMAIN l.entries,
         l.entries[i].prev \in DOMAIN l.entries \cup {None},
         l.entries[i].next \in DOMAIN l.entries \cup {None}
  PROVE  UnlinkEffect(l, i, unlink(l, i))
<1> DEFINE D == DOMAIN l.entries
           p == l.entries[i].prev
           n == l.entries[i].next
           a == IF p # None THEN [l EXCEPT !.entries[p].next = n] ELSE [l EXCEPT !.head = n]
           b == IF n # None THEN [a EXCEPT !.entries[n].prev = p] ELSE [a EXCEPT !.tail = p]
           c == [b EXCEPT !.entries[i].prev = None]
           u == [c EXCEPT !.entries[i].next = None]
<1>0. D \subseteq Nat /\ None \notin D /\ p \in Nat \cup {None} /\ n \in Nat \cup {None}
  <2>1. D \subseteq Nat
    BY DEF Inner
  <2> QED
    BY <2>1, PolicyAssumption
<1>1. unlink(l, i) = u
  BY Zenon DEF unlink
<1>2. /\ SameNodes(l, a) /\ a.head = (IF p = None THEN n ELSE l.head) /\ a.tail = l.tail
      /\ \A x \in D : /\ a.entries[x].prev = l.entries[x].prev
                      /\ a.entries[x].next = IF x = p THEN n ELSE l.entries[x].next
  <2>1. CASE p # None
    <3>1. a = [l EXCEPT !.entries[p].next = n] /\ p \in D
      BY <2>1, Zenon
    <3> HIDE DEF a, p, n
    <3>2. NextSet(l, p, n, a)
      BY <1>0, <3>1, SetNext
    <3> QED
      BY <2>1, <3>2, Zenon DEF NextSet, SameEnds
  <2>2. CASE p = None
    <3>1. a = [l EXCEPT !.head = n]
      BY <2>2, Zenon
    <3>2. \A x \in D : x # p
      BY <1>0, <2>2
    <3> HIDE DEF a, p, n
    <3>3. SameNodes(l, a) /\ a.entries = l.entries /\ a.head = n /\ a.tail = l.tail
      BY <1>0, <3>1, Zenon DEF Inner, SameNodes
    <3> QED
      BY <2>2, <3>2, <3>3
  <2> QED
    BY <2>1, <2>2
<1> HIDE DEF a
<1>3. a \in Inner /\ DOMAIN a.entries = D
  BY <1>2, Zenon DEF SameNodes
<1>4. /\ SameNodes(a, b) /\ b.head = a.head /\ b.tail = (IF n = None THEN p ELSE a.tail)
      /\ \A x \in D : /\ b.entries[x].next = a.entries[x].next
                      /\ b.entries[x].prev = IF x = n THEN p ELSE a.entries[x].prev
  <2>1. CASE n # None
    <3>1. b = [a EXCEPT !.entries[n].prev = p] /\ n \in DOMAIN a.entries
      BY <1>3, <2>1, Zenon
    <3> HIDE DEF b, p, n
    <3>2. PrevSet(a, n, p, b)
      BY <1>0, <1>3, <3>1, SetPrev
    <3> QED
      BY <1>3, <2>1, <3>2, Zenon DEF PrevSet, SameEnds
  <2>2. CASE n = None
    <3>1. b = [a EXCEPT !.tail = p]
      BY <2>2, Zenon
    <3>2. \A x \in D : x # n
      BY <1>0, <2>2
    <3> HIDE DEF b, p, n
    <3>3. SameNodes(a, b) /\ b.entries = a.entries /\ b.head = a.head /\ b.tail = p
      BY <1>0, <1>3, <3>1, Zenon DEF Inner, SameNodes
    <3> QED
      BY <2>2, <3>2, <3>3
  <2> QED
    BY <2>1, <2>2, Zenon
<1> HIDE DEF b
<1>5. b \in Inner /\ DOMAIN b.entries = D /\ None \in Nat \cup {None}
  BY <1>3, <1>4, Zenon DEF SameNodes
<1>6. /\ SameNodes(b, c) /\ SameEnds(b, c)
      /\ \A x \in D : /\ c.entries[x].next = b.entries[x].next
                      /\ c.entries[x].prev = IF x = i THEN None ELSE b.entries[x].prev
  <2>1. PrevSet(b, i, None, c)
    BY <1>5, SetPrev
  <2> HIDE DEF c
  <2> QED
    BY <1>5, <2>1, Zenon DEF PrevSet
<1> HIDE DEF c
<1>7. c \in Inner /\ DOMAIN c.entries = D
  BY <1>5, <1>6, Zenon DEF SameNodes
<1>8. /\ SameNodes(c, u) /\ SameEnds(c, u)
      /\ \A x \in D : /\ u.entries[x].prev = c.entries[x].prev
                      /\ u.entries[x].next = IF x = i THEN None ELSE c.entries[x].next
  <2>1. NextSet(c, i, None, u)
    BY <1>5, <1>7, SetNext
  <2> HIDE DEF u
  <2> QED
    BY <1>7, <2>1, Zenon DEF NextSet
<1> HIDE DEF u, p, n
<1>9. SameNodes(l, u)
  BY <1>2, <1>4, <1>6, <1>8, SameTwice, Zenon
<1>10. /\ u.head = IF p = None THEN n ELSE l.head
       /\ u.tail = IF n = None THEN p ELSE l.tail
  BY <1>2, <1>4, <1>6, <1>8 DEF SameEnds
<1>11. \A x \in D : x # i =>
         /\ u.entries[x].next = IF x = p THEN n ELSE l.entries[x].next
         /\ u.entries[x].prev = IF x = n THEN p ELSE l.entries[x].prev
  BY <1>2, <1>4, <1>6, <1>8
<1> QED
  BY <1>1, <1>9, <1>10, <1>11, Zenon DEF UnlinkEffect, p, n

(* push_front puts slot i before the head.                                 *)
PushEffect(l, i, u) ==
  /\ SameNodes(l, u)
  /\ u.head = i /\ u.tail = IF l.tail = None THEN i ELSE l.tail
  /\ u.entries[i].prev = None /\ u.entries[i].next = l.head
  /\ \A x \in DOMAIN l.entries : x # i =>
       /\ u.entries[x].next = l.entries[x].next
       /\ u.entries[x].prev = IF x = l.head THEN i ELSE l.entries[x].prev

LEMMA PushDoes ==
  ASSUME NEW l \in Inner, NEW i \in DOMAIN l.entries,
         l.head \in (DOMAIN l.entries \ {i}) \cup {None}
  PROVE  PushEffect(l, i, push_front(l, i))
<1> DEFINE D == DOMAIN l.entries
           h == l.head
           z == [l EXCEPT !.entries[i].prev = None]
           a == [z EXCEPT !.entries[i].next = h]
           b == IF h # None THEN [a EXCEPT !.entries[h].prev = i] ELSE a
           t == IF b.tail = None THEN i ELSE b.tail
           u == [b EXCEPT !.head = i, !.tail = t]
<1>0. /\ D \subseteq Nat /\ None \notin D /\ i \in Nat \cup {None} /\ None \in Nat \cup {None}
      /\ h \in Nat \cup {None}
  <2>1. D \subseteq Nat
    BY DEF Inner
  <2> QED
    BY <2>1, PolicyAssumption
<1>1. push_front(l, i) = u
  BY Zenon DEF push_front
<1>2. /\ SameNodes(l, z) /\ SameEnds(l, z)
      /\ \A x \in D : /\ z.entries[x].next = l.entries[x].next
                      /\ z.entries[x].prev = IF x = i THEN None ELSE l.entries[x].prev
  <2>1. PrevSet(l, i, None, z)
    BY <1>0, SetPrev
  <2> HIDE DEF z
  <2> QED
    BY <2>1, Zenon DEF PrevSet
<1> HIDE DEF z
<1>3. z \in Inner /\ DOMAIN z.entries = D
  BY <1>2, Zenon DEF SameNodes
<1>4. /\ SameNodes(z, a) /\ SameEnds(z, a)
      /\ \A x \in D : /\ a.entries[x].prev = z.entries[x].prev
                      /\ a.entries[x].next = IF x = i THEN h ELSE z.entries[x].next
  <2> HIDE DEF h
  <2>1. NextSet(z, i, h, a)
    BY <1>0, <1>3, SetNext
  <2> HIDE DEF a
  <2> QED
    BY <1>3, <2>1, Zenon DEF NextSet
<1> HIDE DEF a
<1>5. a \in Inner /\ DOMAIN a.entries = D
  BY <1>3, <1>4, Zenon DEF SameNodes
<1>6. /\ SameNodes(a, b) /\ SameEnds(a, b)
      /\ \A x \in D : /\ b.entries[x].next = a.entries[x].next
                      /\ b.entries[x].prev = IF x = h THEN i ELSE a.entries[x].prev
  <2>1. CASE h # None
    <3>1. b = [a EXCEPT !.entries[h].prev = i] /\ h \in DOMAIN a.entries
      BY <1>5, <2>1, Zenon
    <3> HIDE DEF b, h
    <3>2. PrevSet(a, h, i, b)
      BY <1>0, <1>5, <3>1, SetPrev
    <3> QED
      BY <1>5, <3>2, Zenon DEF PrevSet
  <2>2. CASE h = None
    <3>1. b = a /\ \A x \in D : x # h
      BY <1>0, <2>2
    <3> HIDE DEF b, h
    <3> QED
      BY <1>5, <3>1 DEF SameNodes, SameEnds
  <2> QED
    BY <2>1, <2>2
<1> HIDE DEF b
<1>7. b \in Inner /\ DOMAIN b.entries = D
  BY <1>5, <1>6, Zenon DEF SameNodes
<1>8. t \in Nat \cup {None}
  BY <1>0, <1>7 DEF Inner
<1>9. SameNodes(b, u) /\ u.entries = b.entries /\ u.head = i /\ u.tail = t
  <2> HIDE DEF t
  <2>1. EndsSet(b, i, t, u)
    BY <1>0, <1>7, <1>8, SetEnds, Zenon
  <2> HIDE DEF u
  <2> QED
    BY <2>1, Zenon DEF EndsSet
<1> HIDE DEF u
<1>10. SameNodes(l, u)
  BY <1>2, <1>4, <1>6, <1>9, SameTwice, Zenon
<1>11. u.head = i /\ u.tail = IF l.tail = None THEN i ELSE l.tail
  BY <1>2, <1>4, <1>6, <1>9 DEF SameEnds
<1>12. i # h
  BY <1>0
<1> HIDE DEF h
<1>13. u.entries[i].prev = None /\ u.entries[i].next = h
  BY <1>2, <1>4, <1>6, <1>9, <1>12
<1>14. \A x \in D : x # i =>
         /\ u.entries[x].next = l.entries[x].next
         /\ u.entries[x].prev = IF x = h THEN i ELSE l.entries[x].prev
  BY <1>2, <1>4, <1>6, <1>9
<1> QED
  BY <1>1, <1>10, <1>11, <1>13, <1>14, Zenon DEF PushEffect, h
----------------------------------------------------------------------------
(* Lists without a slot, and with one more *)

Cut(s, a) == SubSeq(s, 1, a - 1) \o SubSeq(s, a + 1, Len(s))

LEMMA CutOf ==
  ASSUME NEW S, NEW s \in Seq(S), NEW a \in DOMAIN s
  PROVE  /\ Len(s) \in Nat /\ DOMAIN s = 1..Len(s) /\ a \in 1..Len(s)
         /\ Cut(s, a) \in Seq(S) /\ Len(Cut(s, a)) = Len(s) - 1
         /\ DOMAIN Cut(s, a) = 1..Len(s) - 1
         /\ \A j \in 1..Len(s) - 1 : Cut(s, a)[j] = IF j < a THEN s[j] ELSE s[j + 1]
<1> DEFINE u == SubSeq(s, 1, a - 1)
           v == SubSeq(s, a + 1, Len(s))
<1>1. Len(s) \in Nat /\ a \in 1..Len(s) /\ DOMAIN s = 1..Len(s)
  OBVIOUS
<1>2. u \in Seq(S) /\ Len(u) = a - 1 /\ \A j \in 1..a - 1 : u[j] = s[j]
  BY <1>1
<1>3. v \in Seq(S) /\ Len(v) = Len(s) - a /\ \A j \in 1..Len(s) - a : v[j] = s[a + j]
  BY <1>1
<1> HIDE DEF u, v
<1>4. /\ u \o v \in Seq(S) /\ Len(u \o v) = Len(s) - 1
      /\ \A j \in 1..Len(s) - 1 : (u \o v)[j] = IF j < a THEN u[j] ELSE v[j - (a - 1)]
  <2>1. /\ u \o v \in Seq(S) /\ Len(u \o v) = Len(u) + Len(v)
        /\ \A j \in 1..Len(u) + Len(v) :
             (u \o v)[j] = IF j <= Len(u) THEN u[j] ELSE v[j - Len(u)]
    <3>1. u \in Seq(S) /\ v \in Seq(S)
      BY <1>2, <1>3
    <3>2. u \o v \in Seq(S)
      BY <3>1
    <3>3. Len(u \o v) = Len(u) + Len(v)
      BY <3>1
    <3>4. \A j \in 1..Len(u) + Len(v) :
            (u \o v)[j] = IF j <= Len(u) THEN u[j] ELSE v[j - Len(u)]
      BY <3>1
    <3> QED
      BY <3>2, <3>3, <3>4, Zenon
  <2>2. Len(u) + Len(v) = Len(s) - 1
    BY <1>1, <1>2, <1>3
  <2>3. \A j \in 1..Len(s) - 1 : j <= Len(u) <=> j < a
    BY <1>1, <1>2
  <2> QED
    BY <1>2, <2>1, <2>2, <2>3
<1>5. \A j \in 1..Len(s) - 1 : (u \o v)[j] = IF j < a THEN s[j] ELSE s[j + 1]
  <2> SUFFICES ASSUME NEW j \in 1..Len(s) - 1
               PROVE  (u \o v)[j] = IF j < a THEN s[j] ELSE s[j + 1]
    BY Zenon
  <2>1. CASE j < a
    BY <1>1, <1>2, <1>4, <2>1
  <2>2. CASE ~ (j < a)
    <3>1. j - (a - 1) \in 1..Len(s) - a /\ a + (j - (a - 1)) = j + 1
      BY <1>1, <2>2
    <3>2. (u \o v)[j] = v[j - (a - 1)]
      BY <1>4, <2>2
    <3>3. v[j - (a - 1)] = s[a + (j - (a - 1))]
      BY <1>3, <3>1
    <3> QED
      BY <2>2, <3>1, <3>2, <3>3
  <2> QED
    BY <2>1, <2>2, Zenon
<1>6. DOMAIN (u \o v) = 1..Len(s) - 1
  <2> DEFINE w == u \o v
  <2>1. w \in Seq(S) /\ Len(w) = Len(s) - 1
    BY <1>4
  <2> HIDE DEF w
  <2>2. DOMAIN w = 1..Len(s) - 1
    BY <2>1
  <2> QED
    BY <2>2 DEF w
<1>7. Cut(s, a) = u \o v
  BY DEF Cut, u, v
<1> QED
  BY <1>1, <1>4, <1>5, <1>6, <1>7, Zenon

LEMMA ConsOf ==
  ASSUME NEW S, NEW s \in Seq(S), NEW e \in S
  PROVE  /\ Len(s) \in Nat /\ DOMAIN s = 1..Len(s)
         /\ <<e>> \o s \in Seq(S) /\ Len(<<e>> \o s) = Len(s) + 1
         /\ DOMAIN (<<e>> \o s) = 1..Len(s) + 1
         /\ (<<e>> \o s)[1] = e
         /\ \A j \in 1..Len(s) : (<<e>> \o s)[j + 1] = s[j]
OBVIOUS

(* Which slots are in a list.                                              *)
LEMMA CutHas ==
  ASSUME NEW S, NEW s \in Seq(S), NEW a \in DOMAIN s, Distinct(s)
  PROVE  /\ Distinct(Cut(s, a))
         /\ \A x : Has(Cut(s, a), x) <=> Has(s, x) /\ x # s[a]
<1> DEFINE t == Cut(s, a)
<1>1. /\ Len(s) \in Nat /\ DOMAIN s = 1..Len(s) /\ a \in 1..Len(s)
      /\ DOMAIN t = 1..Len(s) - 1
      /\ \A j \in 1..Len(s) - 1 : t[j] = IF j < a THEN s[j] ELSE s[j + 1]
  BY CutOf
<1> HIDE DEF t
<1>2. Distinct(t)
  BY <1>1 DEF Distinct
<1>3. ASSUME NEW j \in DOMAIN t  PROVE Has(s, t[j]) /\ t[j] # s[a]
  <2>1. CASE j < a
    BY <1>1, <2>1 DEF Has, Distinct
  <2>2. CASE ~ (j < a)
    <3>1. t[j] = s[j + 1] /\ j + 1 \in DOMAIN s /\ j + 1 # a
      BY <1>1, <2>2
    <3> QED
      BY <3>1 DEF Has, Distinct
  <2> QED
    BY <2>1, <2>2
<1>4. ASSUME NEW i \in DOMAIN s, s[i] # s[a]  PROVE Has(t, s[i])
  <2>1. CASE i < a
    <3>1. i \in DOMAIN t /\ t[i] = s[i]
      BY <1>1, <2>1
    <3> QED
      BY <3>1 DEF Has
  <2>2. CASE ~ (i < a)
    <3>1. i - 1 \in DOMAIN t /\ t[i - 1] = s[i]
      <4>1. i # a
        BY <1>4
      <4>2. i - 1 \in 1..Len(s) - 1 /\ ~ (i - 1 < a) /\ (i - 1) + 1 = i
        BY <1>1, <2>2, <4>1
      <4> QED
        BY <1>1, <4>2
    <3> QED
      BY <3>1 DEF Has
  <2> QED
    BY <2>1, <2>2
<1>5. \A x : Has(t, x) <=> Has(s, x) /\ x # s[a]
  BY <1>3, <1>4 DEF Has
<1> QED
  BY <1>2, <1>5 DEF t

LEMMA ConsHas ==
  ASSUME NEW S, NEW s \in Seq(S), NEW e \in S, Distinct(s), ~ Has(s, e)
  PROVE  /\ Distinct(<<e>> \o s)
         /\ \A x : Has(<<e>> \o s, x) <=> Has(s, x) \/ x = e
<1> DEFINE t == <<e>> \o s
<1>1. /\ Len(s) \in Nat /\ DOMAIN s = 1..Len(s)
      /\ DOMAIN t = 1..Len(s) + 1 /\ t[1] = e
      /\ \A j \in 1..Len(s) : t[j + 1] = s[j]
  BY ConsOf
<1> HIDE DEF t
<1>2. \A j \in DOMAIN t : j = 1 \/ (j - 1 \in DOMAIN s /\ t[j] = s[j - 1])
  <2> SUFFICES ASSUME NEW j \in DOMAIN t, j # 1
               PROVE  j - 1 \in DOMAIN s /\ t[j] = s[j - 1]
    OBVIOUS
  <2>1. j - 1 \in 1..Len(s) /\ (j - 1) + 1 = j
    BY <1>1
  <2> QED
    BY <1>1, <2>1
<1>3. Distinct(t)
  <2> SUFFICES ASSUME NEW i \in DOMAIN t, NEW j \in DOMAIN t, t[i] = t[j]
               PROVE  i = j
    BY DEF Distinct
  <2>1. CASE i = 1 \/ j = 1
    BY <1>1, <1>2, <2>1 DEF Has
  <2>2. CASE i # 1 /\ j # 1
    <3>1. i - 1 = j - 1
      BY <1>2, <2>2 DEF Distinct
    <3> QED
      BY <1>1, <3>1
  <2> QED
    BY <2>1, <2>2
<1>4. \A i \in DOMAIN s : i + 1 \in DOMAIN t /\ t[i + 1] = s[i]
  BY <1>1
<1>5. 1 \in DOMAIN t
  BY <1>1
<1>6. \A x : Has(t, x) <=> Has(s, x) \/ x = e
  <2>1. ASSUME NEW x, Has(t, x)  PROVE Has(s, x) \/ x = e
    BY <1>1, <1>2, <2>1 DEF Has
  <2>2. ASSUME NEW x, Has(s, x) \/ x = e  PROVE Has(t, x)
    BY <1>1, <1>4, <1>5, <2>2, Zenon DEF Has
  <2> QED
    BY <2>1, <2>2, Zenon
<1> QED
  BY <1>3, <1>6 DEF t

(* Which slots are on a stack after a push.                               *)
LEMMA AppendHas ==
  ASSUME NEW S, NEW s \in Seq(S), NEW e \in S, Distinct(s), ~ Has(s, e)
  PROVE  /\ Distinct(Append(s, e))
         /\ \A x : Has(Append(s, e), x) <=> Has(s, x) \/ x = e
<1> DEFINE t == Append(s, e)
<1>1. /\ Len(s) \in Nat /\ DOMAIN s = 1..Len(s)
      /\ DOMAIN t = 1..Len(s) + 1 /\ t[Len(s) + 1] = e
      /\ \A j \in 1..Len(s) : t[j] = s[j]
  OBVIOUS
<1> HIDE DEF t
<1>2. \A j \in DOMAIN t : j = Len(s) + 1 \/ (j \in DOMAIN s /\ t[j] = s[j])
  BY <1>1
<1>3. Len(s) + 1 \in DOMAIN t /\ \A j \in DOMAIN s : j \in DOMAIN t /\ t[j] = s[j]
  BY <1>1
<1>4. Distinct(t)
  BY <1>1, <1>2 DEF Distinct, Has
<1>5. \A x : Has(t, x) <=> Has(s, x) \/ x = e
  BY <1>1, <1>2, <1>3, Zenon DEF Has
<1> QED
  BY <1>4, <1>5 DEF t

(* unlink leaves the list without the slot.                                *)
LEMMA UnlinkLinked ==
  ASSUME NEW l \in Inner, NEW p, Linked(l, p), NEW a \in DOMAIN p, NEW u, UnlinkEffect(l, p[a], u)
  PROVE  Linked(u, Cut(p, a))
<1> DEFINE q == Cut(p, a)
           D == DOMAIN l.entries
           N == Len(p)
<1>0. p \in Seq(D) /\ Distinct(p) /\ D \subseteq Nat
  BY DEF Linked, Inner
<1>1. /\ N \in Nat /\ DOMAIN p = 1..N /\ a \in 1..N
      /\ q \in Seq(D) /\ Len(q) = N - 1 /\ DOMAIN q = 1..N - 1
      /\ \A j \in 1..N - 1 : q[j] = IF j < a THEN p[j] ELSE p[j + 1]
  BY <1>0, CutOf
<1>2. Distinct(q)
  BY <1>0, CutHas
<1>3. \A j \in DOMAIN p : p[j] \in D /\ p[j] # None /\ (p[j] = p[a] => j = a)
  BY <1>0, <1>1, PolicyAssumption DEF Distinct
<1>4. l.entries[p[a]].prev = At(p, a - 1) /\ l.entries[p[a]].next = At(p, a + 1)
  BY DEF Linked
<1>5. DOMAIN u.entries = D
  BY DEF UnlinkEffect, SameNodes
<1> HIDE DEF q, D, N
<1>6. u.head = At(q, 1)
  <2>1. u.head = IF At(p, a - 1) = None THEN At(p, a + 1) ELSE At(p, 1)
    BY <1>4 DEF UnlinkEffect, Linked
  <2>2. CASE a = 1
    <3>1. At(p, 0) = None
      BY <1>1 DEF At
    <3>2. At(q, 1) = At(p, 2)
      BY <1>1, <2>2 DEF At
    <3> QED
      BY <2>1, <2>2, <3>1, <3>2
  <2>3. CASE a # 1
    <3>1. a - 1 \in DOMAIN p
      BY <1>1, <2>3
    <3>2. At(p, a - 1) # None
      BY <1>3, <3>1 DEF At
    <3>3. At(q, 1) = At(p, 1)
      BY <1>1, <2>3 DEF At
    <3> QED
      BY <2>1, <3>2, <3>3
  <2> QED
    BY <2>2, <2>3
<1>7. u.tail = At(q, Len(q))
  <2>1. u.tail = IF At(p, a + 1) = None THEN At(p, a - 1) ELSE At(p, N)
    BY <1>4 DEF UnlinkEffect, Linked, N
  <2>2. CASE a = N
    <3>1. At(p, a + 1) = None
      BY <1>1, <2>2 DEF At
    <3>2. At(q, N - 1) = At(p, a - 1)
      BY <1>1, <2>2 DEF At
    <3> QED
      BY <1>1, <2>1, <3>1, <3>2
  <2>3. CASE a # N
    <3>1. a + 1 \in DOMAIN p
      BY <1>1, <2>3
    <3>2. At(p, a + 1) # None
      BY <1>3, <3>1 DEF At
    <3>3. At(q, N - 1) = At(p, N)
      BY <1>1, <2>3 DEF At
    <3> QED
      BY <1>1, <2>1, <3>2, <3>3
  <2> QED
    BY <2>2, <2>3
<1>8. ASSUME NEW b \in DOMAIN p, b # a
      PROVE  /\ u.entries[p[b]].next = IF b = a - 1 THEN At(p, a + 1) ELSE At(p, b + 1)
             /\ u.entries[p[b]].prev = IF b = a + 1 THEN At(p, a - 1) ELSE At(p, b - 1)
  <2>1. p[b] \in D /\ p[b] # p[a]
    BY <1>3, <1>8
  <2>2. l.entries[p[b]].prev = At(p, b - 1) /\ l.entries[p[b]].next = At(p, b + 1)
    BY DEF Linked
  <2>3. p[b] = At(p, a - 1) <=> b = a - 1
    <3>1. CASE a - 1 \in DOMAIN p
      BY <1>0, <3>1 DEF At, Distinct
    <3>2. CASE a - 1 \notin DOMAIN p
      BY <1>3, <3>2 DEF At
    <3> QED
      BY <3>1, <3>2
  <2>4. p[b] = At(p, a + 1) <=> b = a + 1
    <3>1. CASE a + 1 \in DOMAIN p
      BY <1>0, <3>1 DEF At, Distinct
    <3>2. CASE a + 1 \notin DOMAIN p
      BY <1>3, <3>2 DEF At
    <3> QED
      BY <3>1, <3>2
  <2>5. /\ u.entries[p[b]].next = IF p[b] = At(p, a - 1) THEN At(p, a + 1) ELSE l.entries[p[b]].next
        /\ u.entries[p[b]].prev = IF p[b] = At(p, a + 1) THEN At(p, a - 1) ELSE l.entries[p[b]].prev
    BY <1>4, <2>1, Zenon DEF UnlinkEffect, D
  <2> QED
    BY <2>2, <2>3, <2>4, <2>5
<1>9. ASSUME NEW j \in DOMAIN q
      PROVE  u.entries[q[j]].prev = At(q, j - 1) /\ u.entries[q[j]].next = At(q, j + 1)
  <2>1. CASE j < a
    <3>1. j \in DOMAIN p /\ j # a /\ q[j] = p[j]
      BY <1>1, <2>1
    <3>2. At(q, j - 1) = At(p, j - 1) /\ j # a + 1
      BY <1>1, <2>1 DEF At
    <3>3. At(q, j + 1) = IF j = a - 1 THEN At(p, a + 1) ELSE At(p, j + 1)
      BY <1>1, <2>1 DEF At
    <3> QED
      BY <1>8, <3>1, <3>2, <3>3
  <2>2. CASE ~ (j < a)
    <3>1. j + 1 \in DOMAIN p /\ j + 1 # a /\ q[j] = p[j + 1] /\ j + 1 # a - 1 /\ (j + 1) - 1 = j
      BY <1>1, <2>2
    <3>2. At(q, j + 1) = At(p, (j + 1) + 1)
      BY <1>1, <2>2 DEF At
    <3>3. At(q, j - 1) = IF j + 1 = a + 1 THEN At(p, a - 1) ELSE At(p, (j + 1) - 1)
      BY <1>1, <2>2 DEF At
    <3> QED
      BY <1>8, <3>1, <3>2, <3>3
  <2> QED
    BY <2>1, <2>2
<1> QED
  BY <1>1, <1>2, <1>5, <1>6, <1>7, <1>9 DEF Linked, q

(* push_front leaves the list with the slot before it.                     *)
LEMMA PushLinked ==
  ASSUME NEW l \in Inner, NEW p, Linked(l, p), NEW i \in DOMAIN l.entries, ~ Has(p, i),
         NEW u, PushEffect(l, i, u)
  PROVE  Linked(u, <<i>> \o p)
<1> DEFINE q == <<i>> \o p
           D == DOMAIN l.entries
           N == Len(p)
<1>0. p \in Seq(D) /\ Distinct(p) /\ D \subseteq Nat
  BY DEF Linked, Inner
<1>1. /\ N \in Nat /\ DOMAIN p = 1..N
      /\ q \in Seq(D) /\ Len(q) = N + 1 /\ DOMAIN q = 1..N + 1
      /\ q[1] = i /\ \A j \in 1..N : q[j + 1] = p[j]
  <2>1. i \in D
    BY DEF D
  <2> HIDE DEF D
  <2> QED
    BY <1>0, <2>1, ConsOf
<1>2. Distinct(q)
  BY <1>0, ConsHas
<1>3. \A j \in DOMAIN p : p[j] \in D /\ p[j] # None /\ p[j] # i
  BY <1>0, <1>1, PolicyAssumption DEF Has
<1>4. DOMAIN u.entries = D /\ l.head = At(p, 1) /\ l.tail = At(p, N)
  BY DEF PushEffect, SameNodes, Linked
<1> HIDE DEF q, D, N
<1>5. u.head = At(q, 1)
  BY <1>1 DEF At, PushEffect
<1>6. u.tail = At(q, Len(q))
  <2>1. u.tail = IF At(p, N) = None THEN i ELSE At(p, N)
    BY <1>4 DEF PushEffect
  <2>2. CASE N = 0
    BY <1>1, <2>1, <2>2 DEF At
  <2>3. CASE N # 0
    <3>1. N \in DOMAIN p /\ N + 1 \in DOMAIN q /\ q[N + 1] = p[N]
      BY <1>1, <2>3
    <3> QED
      BY <1>1, <1>3, <2>1, <3>1 DEF At
  <2> QED
    BY <2>2, <2>3
<1>7. u.entries[i].prev = At(q, 0) /\ u.entries[i].next = At(q, 2)
  <2>1. u.entries[i].prev = None /\ u.entries[i].next = At(p, 1)
    BY <1>4 DEF PushEffect
  <2>2. At(q, 0) = None
    BY <1>1 DEF At
  <2>3. At(q, 2) = At(p, 1)
    <3>1. 1 \in 1..N => q[2] = p[1]
      BY <1>1
    <3>2. 2 \in DOMAIN q <=> 1 \in DOMAIN p
      BY <1>1
    <3> QED
      BY <1>1, <3>1, <3>2 DEF At
  <2> QED
    BY <2>1, <2>2, <2>3
<1>8. ASSUME NEW b \in DOMAIN p
      PROVE  u.entries[p[b]].prev = At(q, b) /\ u.entries[p[b]].next = At(q, b + 2)
  <2>1. l.entries[p[b]].prev = At(p, b - 1) /\ l.entries[p[b]].next = At(p, b + 1)
    BY DEF Linked
  <2>2. /\ u.entries[p[b]].next = l.entries[p[b]].next
        /\ u.entries[p[b]].prev = IF p[b] = At(p, 1) THEN i ELSE l.entries[p[b]].prev
    BY <1>3, <1>4, Zenon DEF PushEffect, D
  <2>3. p[b] = At(p, 1) <=> b = 1
    <3>1. 1 \in DOMAIN p
      BY <1>1
    <3> QED
      BY <1>0, <3>1 DEF At, Distinct
  <2>4. At(q, b + 2) = At(p, b + 1)
    <3>1. b + 1 \in 1..N => q[(b + 1) + 1] = p[b + 1]
      BY <1>1
    <3>2. (b + 1) + 1 = b + 2 /\ (b + 2 \in DOMAIN q <=> b + 1 \in DOMAIN p)
      BY <1>1
    <3> QED
      BY <1>1, <3>1, <3>2 DEF At
  <2>5. At(q, b) = IF b = 1 THEN i ELSE At(p, b - 1)
    <3>1. b - 1 \in 1..N => q[(b - 1) + 1] = p[b - 1]
      BY <1>1
    <3>2. (b - 1) + 1 = b /\ b \in DOMAIN q /\ (b # 1 => b - 1 \in DOMAIN p)
      BY <1>1
    <3> QED
      BY <1>1, <3>1, <3>2 DEF At
  <2> QED
    BY <2>1, <2>2, <2>3, <2>4, <2>5
<1>9. ASSUME NEW j \in DOMAIN q
      PROVE  u.entries[q[j]].prev = At(q, j - 1) /\ u.entries[q[j]].next = At(q, j + 1)
  <2>1. CASE j = 1
    BY <1>1, <1>7, <2>1
  <2>2. CASE j # 1
    <3>1. j - 1 \in DOMAIN p /\ (j - 1) + 2 = j + 1 /\ q[j] = p[j - 1]
      <4>1. j - 1 \in 1..N /\ (j - 1) + 1 = j /\ (j - 1) + 2 = j + 1
        BY <1>1, <2>2
      <4> QED
        BY <1>1, <4>1
    <3> QED
      BY <1>8, <3>1
  <2> QED
    BY <2>1, <2>2
<1> QED
  BY <1>1, <1>2, <1>4, <1>5, <1>6, <1>9 DEF Linked, q
----------------------------------------------------------------------------
(* The methods *)

Reversed(p) == [n \in 1..Len(p) |-> p[Len(p) - n + 1]]

(* The walks of a consistent slab visit its list, from either end.         *)
LEMMA SlabWalk ==
  ASSUME NEW l, NEW p, Slab(l, p)
  PROVE  Forward(l) = p /\ Backward(l) = Reversed(p)
<1> DEFINE r == Reversed(p)
           D == DOMAIN l.entries
<1>1. l \in Inner /\ p \in Seq(D) /\ Distinct(p)
  BY DEF Slab, Linked
<1>2. Forward(l) = p
  <2>1. l.head = At(p, 1) /\ \A i \in DOMAIN p : l.entries[p[i]]["next"] = At(p, i + 1)
    BY DEF Slab, Linked
  <2> QED
    BY <1>1, <2>1, WalkOf, Zenon DEF Forward
<1>3. /\ Len(p) \in Nat /\ DOMAIN p = 1..Len(p) /\ DOMAIN r = 1..Len(p)
      /\ \A i \in 1..Len(p) : r[i] = p[Len(p) - i + 1] /\ Len(p) - i + 1 \in DOMAIN p
  BY <1>1 DEF Reversed
<1>4. r \in Seq(D) /\ Len(r) = Len(p)
  BY <1>1, <1>3 DEF Reversed
<1> HIDE DEF r, D
<1>5. Distinct(r)
  <2> SUFFICES ASSUME NEW i \in DOMAIN r, NEW j \in DOMAIN r, r[i] = r[j]
               PROVE  i = j
    BY DEF Distinct
  <2>1. Len(p) - i + 1 = Len(p) - j + 1
    BY <1>1, <1>3 DEF Distinct
  <2> QED
    BY <1>3, <2>1
<1>6. l.tail = At(r, 1)
  <2>1. l.tail = At(p, Len(p))
    BY DEF Slab, Linked
  <2>2. 1 \in 1..Len(p) => r[1] = p[Len(p)]
    BY <1>3
  <2>3. 1 \in DOMAIN r <=> Len(p) \in DOMAIN p
    BY <1>3
  <2> QED
    BY <1>3, <2>1, <2>2, <2>3 DEF At
<1>7. ASSUME NEW i \in DOMAIN r  PROVE l.entries[r[i]]["prev"] = At(r, i + 1)
  <2> DEFINE n == Len(p) - i + 1
  <2>1. r[i] = p[n] /\ n \in DOMAIN p /\ n - 1 = Len(p) - (i + 1) + 1
    BY <1>3
  <2>2. l.entries[p[n]]["prev"] = At(p, n - 1)
    BY <2>1 DEF Slab, Linked
  <2>3. At(r, i + 1) = At(p, n - 1)
    <3>1. i + 1 \in DOMAIN r <=> n - 1 \in DOMAIN p
      BY <1>3
    <3>2. i + 1 \in DOMAIN r => r[i + 1] = p[n - 1]
      BY <1>3, <2>1
    <3> QED
      BY <3>1, <3>2 DEF At
  <2> QED
    BY <2>1, <2>2, <2>3
<1>8. Path(l, l.tail, "prev") = r
  BY <1>1, <1>4, <1>5, <1>6, <1>7, WalkOf, Zenon DEF D
<1> QED
  BY <1>2, <1>8 DEF Backward, r

(* What a slot of the list is linked to.                                   *)
LEMMA Neighbours ==
  ASSUME NEW l \in Inner, NEW p, Linked(l, p), NEW a \in DOMAIN p
  PROVE  /\ p[a] \in DOMAIN l.entries
         /\ l.entries[p[a]].prev \in DOMAIN l.entries \cup {None}
         /\ l.entries[p[a]].next \in DOMAIN l.entries \cup {None}
<1>0. \A j \in DOMAIN p : p[j] \in DOMAIN l.entries
  <2>1. p \in Seq(DOMAIN l.entries)
    BY Zenon DEF Linked
  <2> QED
    BY <2>1
<1>1. \A j : At(p, j) \in DOMAIN l.entries \cup {None}
  BY <1>0, Zenon DEF At
<1>2. l.entries[p[a]].prev = At(p, a - 1) /\ l.entries[p[a]].next = At(p, a + 1)
  BY Zenon DEF Linked
<1> QED
  BY <1>0, <1>1, <1>2, Zenon

(* Only the entries and the ends of the list matter to its links.          *)
LEMMA LinkedSame ==
  ASSUME NEW l, NEW m, NEW p, Linked(l, p),
         m.entries = l.entries, m.head = l.head, m.tail = l.tail
  PROVE  Linked(m, p)
BY Zenon DEF Linked

LEMMA EntryKey ==
  ASSUME NEW l \in Inner, NEW x \in DOMAIN l.entries
  PROVE  l.entries[x] \in Entry /\ l.entries[x].prefix_hash \in Keys
<1>1. l.entries \in Seq(Entry)
  BY DEF Inner
<1>2. l.entries[x] \in Entry
  BY <1>1
<1> QED
  BY <1>2 DEF Entry

(* The keys of the list as a sequence.                                     *)
LEMMA KeysSeq ==
  ASSUME NEW l \in Inner, NEW p \in Seq(DOMAIN l.entries)
  PROVE  /\ KeysOf(l, p) \in Seq(Keys) /\ Len(KeysOf(l, p)) = Len(p)
         /\ DOMAIN KeysOf(l, p) = DOMAIN p
         /\ \A j \in DOMAIN p : KeysOf(l, p)[j] = l.entries[p[j]].prefix_hash
<1>1. \A j \in DOMAIN p : l.entries[p[j]].prefix_hash \in Keys
  <2>1. \A j \in DOMAIN p : p[j] \in DOMAIN l.entries
    OBVIOUS
  <2> QED
    BY <2>1, EntryKey
<1> QED
  BY <1>1 DEF KeysOf

LEMMA KeysCut ==
  ASSUME NEW l \in Inner, NEW p \in Seq(DOMAIN l.entries), NEW a \in DOMAIN p,
         NEW u, SameNodes(l, u)
  PROVE  KeysOf(u, Cut(p, a)) = Cut(KeysOf(l, p), a)
<1> DEFINE s == KeysOf(l, p)
           q == Cut(p, a)
           t == KeysOf(u, q)
           c == Cut(s, a)
<1>1. /\ Len(p) \in Nat /\ DOMAIN p = 1..Len(p) /\ a \in 1..Len(p)
      /\ q \in Seq(DOMAIN l.entries) /\ DOMAIN q = 1..Len(p) - 1
      /\ \A j \in 1..Len(p) - 1 : q[j] = IF j < a THEN p[j] ELSE p[j + 1]
  <2> DEFINE D == DOMAIN l.entries
  <2>1. p \in Seq(D)
    BY Zenon
  <2> HIDE DEF D
  <2>2. /\ Len(p) \in Nat /\ DOMAIN p = 1..Len(p) /\ a \in 1..Len(p)
        /\ q \in Seq(D) /\ DOMAIN q = 1..Len(p) - 1
        /\ \A j \in 1..Len(p) - 1 : q[j] = IF j < a THEN p[j] ELSE p[j + 1]
    BY <2>1, CutOf
  <2> QED
    BY <2>2, Zenon DEF D
<1>2. /\ s \in Seq(Keys) /\ Len(s) = Len(p) /\ a \in DOMAIN s
      /\ \A j \in DOMAIN p : s[j] = l.entries[p[j]].prefix_hash
  BY KeysSeq
<1>3. u \in Inner /\ DOMAIN u.entries = DOMAIN l.entries
  BY DEF SameNodes
<1>4. /\ t \in Seq(Keys) /\ DOMAIN t = 1..Len(p) - 1
      /\ \A j \in DOMAIN q : t[j] = u.entries[q[j]].prefix_hash
  BY <1>1, <1>3, KeysSeq
<1> HIDE DEF s, q, t
<1>5. /\ c \in Seq(Keys) /\ DOMAIN c = 1..Len(p) - 1
      /\ \A j \in 1..Len(p) - 1 : c[j] = IF j < a THEN s[j] ELSE s[j + 1]
  <2>1. /\ c \in Seq(Keys) /\ DOMAIN c = 1..Len(s) - 1
        /\ \A j \in 1..Len(s) - 1 : c[j] = IF j < a THEN s[j] ELSE s[j + 1]
    BY <1>2, CutOf, Zenon
  <2> QED
    BY <1>2, <2>1, Zenon
<1> HIDE DEF c
<1>6. ASSUME NEW j \in 1..Len(p) - 1  PROVE t[j] = c[j]
  <2>1. q[j] \in DOMAIN l.entries /\ t[j] = l.entries[q[j]].prefix_hash
    <3>1. q[j] \in DOMAIN l.entries
      BY <1>1
    <3>2. t[j] = u.entries[q[j]].prefix_hash
      BY <1>1, <1>4, Zenon
    <3> QED
      BY <3>1, <3>2, Zenon DEF SameNodes
  <2>2. CASE j < a
    BY <1>1, <1>2, <1>5, <2>1, <2>2
  <2>3. CASE ~ (j < a)
    <3>1. q[j] = p[j + 1] /\ c[j] = s[j + 1] /\ j + 1 \in DOMAIN p
      BY <1>1, <1>5, <2>3
    <3> QED
      BY <1>2, <2>1, <3>1
  <2> QED
    BY <2>2, <2>3
<1>7. t = c
  BY <1>4, <1>5, <1>6
<1> QED
  BY <1>7 DEF s, q, t, c

LEMMA KeysCons ==
  ASSUME NEW l \in Inner, NEW p \in Seq(DOMAIN l.entries), NEW u \in Inner,
         DOMAIN l.entries \subseteq DOMAIN u.entries, NEW i \in DOMAIN u.entries,
         \A j \in DOMAIN p : u.entries[p[j]].prefix_hash = l.entries[p[j]].prefix_hash
  PROVE  KeysOf(u, <<i>> \o p) = <<u.entries[i].prefix_hash>> \o KeysOf(l, p)
<1> DEFINE s == KeysOf(l, p)
           q == <<i>> \o p
           t == KeysOf(u, q)
           k == u.entries[i].prefix_hash
           c == <<k>> \o s
           D == DOMAIN u.entries
<1>0. p \in Seq(D) /\ i \in D /\ k \in Keys
  <2>1. p \in Seq(D)
    OBVIOUS
  <2> QED
    BY <2>1, EntryKey, Zenon
<1>1. /\ Len(p) \in Nat /\ DOMAIN p = 1..Len(p)
      /\ q \in Seq(D) /\ DOMAIN q = 1..Len(p) + 1
      /\ q[1] = i /\ \A j \in 1..Len(p) : q[j + 1] = p[j]
  <2> HIDE DEF D
  <2> QED
    BY <1>0, ConsOf
<1>2. /\ s \in Seq(Keys) /\ Len(s) = Len(p)
      /\ \A j \in DOMAIN p : s[j] = l.entries[p[j]].prefix_hash
  BY KeysSeq
<1>4. /\ t \in Seq(Keys) /\ DOMAIN t = 1..Len(p) + 1
      /\ \A j \in DOMAIN q : t[j] = u.entries[q[j]].prefix_hash
  BY <1>1, KeysSeq, Zenon
<1> HIDE DEF s, q, t, D
<1>5. /\ c \in Seq(Keys) /\ DOMAIN c = 1..Len(p) + 1 /\ c[1] = k
      /\ \A j \in 1..Len(p) : c[j + 1] = s[j]
  <2> HIDE DEF k
  <2> QED
    BY <1>0, <1>2, ConsOf
<1>6. ASSUME NEW j \in 1..Len(p) + 1  PROVE t[j] = c[j]
  <2>2. CASE j = 1
    BY <1>1, <1>4, <1>5, <2>2
  <2>3. CASE j # 1
    <3>1. j - 1 \in 1..Len(p) /\ (j - 1) + 1 = j /\ j \in DOMAIN q
      BY <1>1, <2>3
    <3>2. q[j] = p[j - 1] /\ c[j] = s[j - 1]
      BY <1>1, <1>5, <3>1
    <3> QED
      BY <1>1, <1>2, <1>4, <3>1, <3>2, ZenonT(30)
  <2> QED
    BY <2>2, <2>3, Zenon
<1> HIDE DEF c
<1>7. t = c
  BY <1>4, <1>5, <1>6
<1> QED
  BY <1>7 DEF s, q, t, c, k

(* remove and evict_lru: the slot of key k leaves the list and is free.    *)
Released(l, i, k) ==
  [unlink([l EXCEPT !.index[k] = None], i) EXCEPT !.free_indices = Append(@, i)]

LEMMA ReleaseSlab ==
  ASSUME NEW l, NEW p, Slab(l, p), NEW k \in Keys, NEW a \in DOMAIN p,
         l.entries[p[a]].prefix_hash = k
  PROVE  /\ Slab(Released(l, p[a], k), Cut(p, a))
         /\ KeysOf(Released(l, p[a], k), Cut(p, a)) = Cut(KeysOf(l, p), a)
<1> DEFINE i == p[a]
           q == Cut(p, a)
           D == DOMAIN l.entries
           f == l.free_indices
           m == [l EXCEPT !.index[k] = None]
           u == unlink(m, i)
           w == [u EXCEPT !.free_indices = Append(@, i)]
<1>1. /\ l \in Inner /\ Linked(l, p) /\ FreeOK(l, p) /\ IndexOK(l, p)
      /\ p \in Seq(D) /\ Distinct(p)
  BY DEF Slab, Linked
<1>2. /\ m \in Inner /\ m.entries = l.entries /\ m.head = l.head /\ m.tail = l.tail
      /\ m.free_indices = f /\ \A h \in Keys : m.index[h] = IF h = k THEN None ELSE l.index[h]
  BY <1>1, Zenon DEF Inner
<1> HIDE DEF m
<1>3. Linked(m, p)
  BY <1>1, <1>2, LinkedSame, Zenon
<1>4. UnlinkEffect(m, i, u)
  BY <1>2, <1>3, Neighbours, UnlinkDoes, Zenon
<1>5. Linked(u, q)
  BY <1>2, <1>3, <1>4, UnlinkLinked, Zenon
<1>6. SameNodes(m, u)
  BY <1>4, Zenon DEF UnlinkEffect
<1> HIDE DEF u
<1>7. i \in D /\ i \in Nat /\ Has(p, i)
  <2>1. i \in D
    BY <1>1, Neighbours, Zenon
  <2>2. D \subseteq Nat
    BY <1>1 DEF Inner
  <2> QED
    BY <2>1, <2>2, Zenon DEF Has
<1>8. /\ w \in Inner /\ w.entries = u.entries /\ w.head = u.head /\ w.tail = u.tail
      /\ w.index = u.index /\ w.free_indices = Append(u.free_indices, i)
  <2>1. u \in Inner
    BY <1>6 DEF SameNodes
  <2>2. u.free_indices \in Seq(Nat)
    BY <2>1 DEF Inner
  <2> DEFINE g == Append(u.free_indices, i)
  <2>3. g \in Seq(Nat)
    <3> HIDE DEF i
    <3> QED
      BY <1>7, <2>2
  <2>4. w = [u EXCEPT !.free_indices = g]
    OBVIOUS
  <2> HIDE DEF i, g, w
  <2>5. /\ w \in Inner /\ w.entries = u.entries /\ w.head = u.head /\ w.tail = u.tail
        /\ w.index = u.index /\ w.free_indices = g
    BY <2>1, <2>3, <2>4, Zenon DEF Inner
  <2> QED
    BY <2>5 DEF g
<1> HIDE DEF w
<1>9. /\ DOMAIN w.entries = D /\ Len(w.entries) = Len(l.entries)
      /\ \A x \in D : w.entries[x].prefix_hash = l.entries[x].prefix_hash
      /\ w.free_indices = Append(f, i)
      /\ \A h \in Keys : w.index[h] = IF h = k THEN None ELSE l.index[h]
  <2>1. /\ DOMAIN u.entries = DOMAIN m.entries /\ Len(u.entries) = Len(m.entries)
        /\ u.free_indices = m.free_indices /\ u.index = m.index
        /\ \A x \in DOMAIN m.entries : u.entries[x].prefix_hash = m.entries[x].prefix_hash
    BY <1>6, Zenon DEF SameNodes
  <2> HIDE DEF i, f
  <2> QED
    BY <1>2, <1>8, <2>1
<1>10. Linked(w, q)
  BY <1>5, <1>8, LinkedSame, Zenon
<1>11. \A x : Has(q, x) <=> Has(p, x) /\ x # i
  BY <1>1, CutHas, Zenon
<1>12. FreeOK(w, q)
  <2>1. Distinct(f) /\ ~ Has(f, i) /\ f \in Seq(Nat)
    BY <1>1, <1>7 DEF FreeOK, Inner
  <2>2. Distinct(Append(f, i)) /\ \A x : Has(Append(f, i), x) <=> Has(f, x) \/ x = i
    BY <1>7, <2>1, AppendHas, Zenon
  <2>3. \A x : Has(f, x) <=> x \in D /\ ~ Has(p, x)
    BY <1>1 DEF FreeOK
  <2> HIDE DEF i, q, f, D
  <2> QED
    BY <1>7, <1>9, <1>11, <2>2, <2>3, Zenon DEF FreeOK
<1>13. IndexOK(w, q)
  <2>1. /\ \A h \in Keys : l.index[h] # None =>
             Has(p, l.index[h]) /\ l.entries[l.index[h]].prefix_hash = h
        /\ \A x \in D : Has(p, x) => l.index[l.entries[x].prefix_hash] = x
    BY <1>1, Zenon DEF IndexOK
  <2>2. \A x \in D : l.entries[x].prefix_hash \in Keys
    BY <1>1, EntryKey, Zenon
  <2>3. \A x : Has(p, x) => x \in D
    BY <1>1 DEF Has
  <2>4. l.entries[i].prefix_hash = k
    OBVIOUS
  <2> HIDE DEF i, q, f, D
  <2>5. l.index[k] = i
    BY <1>7, <2>1, <2>4
  <2>6. ASSUME NEW h \in Keys, w.index[h] # None
        PROVE  Has(q, w.index[h]) /\ w.entries[w.index[h]].prefix_hash = h
    <3>1. h # k /\ w.index[h] = l.index[h]
      BY <1>9, <2>6
    <3>2. Has(p, l.index[h]) /\ l.entries[l.index[h]].prefix_hash = h
      BY <2>1, <2>6, <3>1
    <3> QED
      BY <1>9, <1>11, <2>3, <2>4, <3>1, <3>2
  <2>7. ASSUME NEW x \in D, Has(q, x)
        PROVE  w.index[w.entries[x].prefix_hash] = x
    <3>1. Has(p, x) /\ x # i
      BY <1>11, <2>7
    <3> QED
      BY <1>9, <2>1, <2>2, <2>5, <3>1
  <2> QED
    BY <1>9, <2>6, <2>7, Zenon DEF IndexOK
<1>14. Slab(w, q)
  BY <1>8, <1>9, <1>10, <1>12, <1>13, Zenon DEF Slab
<1>15. KeysOf(w, q) = Cut(KeysOf(l, p), a)
  <2>1. KeysOf(u, q) = Cut(KeysOf(m, p), a)
    <3>1. p \in Seq(DOMAIN m.entries)
      BY <1>1, <1>2, Zenon
    <3> QED
      BY <1>2, <1>6, <3>1, KeysCut, Zenon
  <2>2. KeysOf(w, q) = KeysOf(u, q) /\ KeysOf(m, p) = KeysOf(l, p)
    BY <1>2, <1>8, Zenon DEF KeysOf
  <2> QED
    BY <2>1, <2>2, Zenon
<1>16. w = Released(l, i, k)
  BY DEF w, u, m, Released
<1> QED
  BY <1>14, <1>15, <1>16, Zenon

(* touch of a tracked key: its slot moves to the front.                    *)
Moved(l, i) == push_front(unlink(l, i), i)

LEMMA MoveSlab ==
  ASSUME NEW l, NEW p, Slab(l, p), NEW a \in DOMAIN p
  PROVE  /\ Slab(Moved(l, p[a]), <<p[a]>> \o Cut(p, a))
         /\ KeysOf(Moved(l, p[a]), <<p[a]>> \o Cut(p, a))
              = <<l.entries[p[a]].prefix_hash>> \o Cut(KeysOf(l, p), a)
<1> DEFINE i == p[a]
           q == Cut(p, a)
           D == DOMAIN l.entries
           u == unlink(l, i)
           w == push_front(u, i)
<1>1. /\ l \in Inner /\ Linked(l, p) /\ FreeOK(l, p) /\ IndexOK(l, p)
      /\ p \in Seq(D) /\ Distinct(p)
  BY DEF Slab, Linked
<1>2. UnlinkEffect(l, i, u)
  BY <1>1, Neighbours, UnlinkDoes, Zenon
<1>3. Linked(u, q)
  BY <1>1, <1>2, UnlinkLinked, Zenon
<1>4. SameNodes(l, u)
  BY <1>2, Zenon DEF UnlinkEffect
<1> HIDE DEF u
<1>5. i \in D /\ Has(p, i)
  BY <1>1, Neighbours, Zenon DEF Has
<1>6. \A x : Has(q, x) <=> Has(p, x) /\ x # i
  BY <1>1, CutHas, Zenon
<1>7. u \in Inner /\ DOMAIN u.entries = D /\ i \in DOMAIN u.entries
  BY <1>4, <1>5, Zenon DEF SameNodes
<1>8. PushEffect(u, i, w)
  <2>1. u.head \in (D \ {i}) \cup {None}
    <3>1. u.head = At(q, 1) /\ q \in Seq(D)
      BY <1>3, <1>7, Zenon DEF Linked
    <3> HIDE DEF q, D, i
    <3>2. CASE 1 \in DOMAIN q
      <4>1. q[1] \in D /\ Has(q, q[1])
        BY <3>1, <3>2 DEF Has
      <4> QED
        BY <1>6, <3>1, <3>2, <4>1 DEF At
    <3>3. CASE 1 \notin DOMAIN q
      BY <3>1, <3>3 DEF At
    <3> QED
      BY <3>2, <3>3
  <2> HIDE DEF i
  <2> QED
    BY <1>7, <2>1, PushDoes, Zenon
<1> HIDE DEF w
<1>9. Linked(w, <<i>> \o q)
  <2> HIDE DEF i, q
  <2> QED
    BY <1>3, <1>6, <1>7, <1>8, PushLinked, Zenon
<1>10. SameNodes(u, w)
  BY <1>8, Zenon DEF PushEffect
<1>11. SameNodes(l, w)
  BY <1>4, <1>10, SameTwice, Zenon
<1>12. \A x : Has(<<i>> \o q, x) <=> Has(p, x)
  <2>1. q \in Seq(D) /\ Distinct(q)
    BY <1>3, <1>7, Zenon DEF Linked
  <2> HIDE DEF i, q, D
  <2>2. \A x : Has(<<i>> \o q, x) <=> Has(q, x) \/ x = i
    BY <1>5, <1>6, <2>1, ConsHas, Zenon
  <2> QED
    BY <1>5, <1>6, <2>2, Zenon
<1>13. FreeOK(w, <<i>> \o q)
  BY <1>1, <1>11, <1>12, Zenon DEF FreeOK, SameNodes
<1>14. IndexOK(w, <<i>> \o q)
  <2>1. \A x : Has(p, x) => x \in D
    BY <1>1 DEF Has
  <2> HIDE DEF i, q
  <2> DEFINE r == <<i>> \o q
  <2>2. \A x : Has(r, x) <=> Has(p, x)
    BY <1>12
  <2>3. /\ w.index = l.index /\ DOMAIN w.entries = D
        /\ \A x \in D : w.entries[x].prefix_hash = l.entries[x].prefix_hash
    BY <1>11, Zenon DEF SameNodes
  <2> HIDE DEF r
  <2>4. \A h \in Keys : w.index[h] # None =>
          Has(r, w.index[h]) /\ w.entries[w.index[h]].prefix_hash = h
    BY <1>1, <2>1, <2>2, <2>3, Zenon DEF IndexOK
  <2>5. \A x \in D : Has(r, x) => w.index[w.entries[x].prefix_hash] = x
    BY <1>1, <2>2, <2>3, Zenon DEF IndexOK
  <2>6. IndexOK(w, r)
    BY <2>3, <2>4, <2>5, Zenon DEF IndexOK
  <2> QED
    BY <2>6 DEF r
<1>15. w \in Inner /\ Len(w.entries) <= Cardinality(Keys)
  BY <1>11, Zenon DEF SameNodes, Slab
<1>16. Slab(w, <<i>> \o q)
  BY <1>9, <1>13, <1>14, <1>15, Zenon DEF Slab
<1>17. KeysOf(w, <<i>> \o q) = <<l.entries[i].prefix_hash>> \o Cut(KeysOf(l, p), a)
  <2>1. KeysOf(u, q) = Cut(KeysOf(l, p), a)
    BY <1>1, <1>4, KeysCut, Zenon
  <2>2. q \in Seq(DOMAIN u.entries)
    BY <1>3, Zenon DEF Linked
  <2>3. w \in Inner /\ DOMAIN w.entries = DOMAIN u.entries /\ i \in DOMAIN w.entries
    BY <1>7, <1>10, Zenon DEF SameNodes
  <2>4. \A j \in DOMAIN q : w.entries[q[j]].prefix_hash = u.entries[q[j]].prefix_hash
    <3>1. \A j \in DOMAIN q : q[j] \in DOMAIN u.entries
      <4> HIDE DEF q
      <4> QED
        BY <2>2
    <3> QED
      BY <1>10, <3>1, Zenon DEF SameNodes
  <2>5. w.entries[i].prefix_hash = l.entries[i].prefix_hash
    BY <1>5, <1>11, Zenon DEF SameNodes
  <2>6. DOMAIN u.entries \subseteq DOMAIN w.entries
    BY <2>3
  <2> HIDE DEF i, q
  <2>7. KeysOf(w, <<i>> \o q) = <<w.entries[i].prefix_hash>> \o KeysOf(u, q)
    BY <1>7, <2>2, <2>3, <2>4, <2>6, KeysCons, Zenon
  <2> QED
    BY <2>1, <2>5, <2>7, Zenon
<1> QED
  BY <1>16, <1>17, Zenon DEF w, u, Moved

(* alloc_entry: a slot outside the list holds key k; the rest is as it was. *)
AllocEffect(l, p, k, i, m) ==
  /\ m \in Inner /\ m.index = l.index /\ m.head = l.head /\ m.tail = l.tail
  /\ DOMAIN l.entries \subseteq DOMAIN m.entries
  /\ i \in DOMAIN m.entries /\ ~ Has(p, i) /\ m.entries[i].prefix_hash = k
  /\ \A x \in DOMAIN l.entries : x # i => m.entries[x] = l.entries[x]
  /\ Distinct(m.free_indices)
  /\ \A x : Has(m.free_indices, x) <=> x \in DOMAIN m.entries /\ ~ Has(p, x) /\ x # i
  /\ Len(m.entries) <= Cardinality(Keys)

(* A slot is reused.                                                       *)
LEMMA AllocReused ==
  ASSUME NEW l, NEW p, Slab(l, p), NEW k \in Keys, l.free_indices # << >>
  PROVE  AllocEffect(l, p, k, alloc_entry(l, k).slot, alloc_entry(l, k).inner)
<1> DEFINE f == l.free_indices
           D == DOMAIN l.entries
           i == f[Len(f)]
           g == SubSeq(f, 1, Len(f) - 1)
           e == [l.entries EXCEPT ![i] = Node(k)]
           m == [l EXCEPT !.free_indices = g, !.entries = e]
<1>1. l \in Inner /\ f \in Seq(Nat) /\ f # << >> /\ l.entries \in Seq(Entry) /\ D \subseteq Nat
  BY DEF Slab, Inner
<1>2. /\ Len(f) \in Nat /\ DOMAIN f = 1..Len(f) /\ Len(f) # 0
      /\ g \in Seq(Nat) /\ DOMAIN g = 1..Len(f) - 1
      /\ \A j \in 1..Len(f) - 1 : g[j] = f[j]
      /\ i = f[Len(f)] /\ Len(f) \in DOMAIN f
  <2> HIDE DEF f
  <2> QED
    BY <1>1
<1>3. Distinct(f) /\ \A x : Has(f, x) <=> x \in D /\ ~ Has(p, x)
  BY DEF Slab, FreeOK
<1>4. i \in D /\ ~ Has(p, i) /\ Has(f, i)
  <2>1. Has(f, i)
    BY <1>2 DEF Has
  <2> HIDE DEF i, f, D
  <2> QED
    BY <1>3, <2>1, Zenon
<1> HIDE DEF f, g, i
<1>5. Distinct(g) /\ \A x : Has(g, x) <=> Has(f, x) /\ x # i
  <2>1. Distinct(g)
    BY <1>2, <1>3 DEF Distinct
  <2>2. \A j \in DOMAIN g : j \in DOMAIN f /\ g[j] = f[j] /\ g[j] # i
    BY <1>2, <1>3 DEF Distinct
  <2>3. \A j \in DOMAIN f : f[j] # i => j \in DOMAIN g /\ g[j] = f[j]
    BY <1>2
  <2> QED
    BY <2>1, <2>2, <2>3 DEF Has
<1>6. Node(k) \in Entry /\ Node(k).prefix_hash = k
  BY DEF Node, Entry
<1>7. /\ e \in Seq(Entry) /\ DOMAIN e = D /\ Len(e) = Len(l.entries) /\ e[i] = Node(k)
      /\ \A x \in D : x # i => e[x] = l.entries[x]
  <2> DEFINE N == Node(k)
           E == l.entries
  <2>1. N \in Entry /\ e = [E EXCEPT ![i] = N] /\ E \in Seq(Entry) /\ i \in DOMAIN E
    BY <1>1, <1>4, <1>6
  <2> HIDE DEF N, E, e
  <2>2. /\ e \in Seq(Entry) /\ DOMAIN e = DOMAIN E /\ Len(e) = Len(E) /\ e[i] = N
        /\ \A x \in DOMAIN E : x # i => e[x] = E[x]
    BY <2>1
  <2> QED
    BY <2>2 DEF N, E
<1> HIDE DEF e
<1>8. /\ m \in Inner /\ m.index = l.index /\ m.head = l.head /\ m.tail = l.tail
      /\ m.entries = e /\ m.free_indices = g
  BY <1>1, <1>2, <1>7, Zenon DEF Inner
<1>9. alloc_entry(l, k) = [slot |-> i, inner |-> m]
  BY <1>1, Zenon DEF alloc_entry, f, g, i, e
<1>10. alloc_entry(l, k).slot = i /\ alloc_entry(l, k).inner = m
  <2> HIDE DEF m
  <2> QED
    BY <1>9
<1>11. Len(l.entries) <= Cardinality(Keys)
  BY DEF Slab
<1> HIDE DEF m, D
<1>12. AllocEffect(l, p, k, i, m)
  <2>1. D = DOMAIN l.entries /\ D \subseteq D
    BY DEF D
  <2>2. \A x : Has(g, x) <=> x \in D /\ ~ Has(p, x) /\ x # i
    BY <1>3, <1>5, Zenon
  <2> QED
    BY <1>4, <1>5, <1>6, <1>7, <1>8, <1>11, <2>1, <2>2, Zenon DEF AllocEffect
<1> QED
  BY <1>10, <1>12, Zenon

(* With no slot to reuse, every slot is in the list under a key of its own, *)
(* and k is one more key: the slab grows within the number of keys.        *)
LEMMA FullSlab ==
  ASSUME NEW l, NEW p, Slab(l, p), NEW k \in Keys, l.index[k] = None, l.free_indices = << >>
  PROVE  Len(l.entries) + 1 <= Cardinality(Keys)
<1> DEFINE N == Len(l.entries)
           h == [x \in 1..N |-> l.entries[x].prefix_hash]
           R == Keys \ {k}
<1>1. l \in Inner /\ N \in Nat /\ DOMAIN l.entries = 1..N
  BY DEF Slab, Inner
<1>2. \A x \in 1..N : Has(p, x)
  <2>1. \A x : ~ Has(<< >>, x)
    BY DEF Has
  <2> QED
    BY <1>1, <2>1, Zenon DEF Slab, FreeOK
<1>3. \A x \in 1..N : l.entries[x].prefix_hash \in Keys
  BY <1>1, EntryKey, Zenon
<1>4. \A x \in 1..N : l.index[l.entries[x].prefix_hash] = x
  BY <1>1, <1>2, Zenon DEF Slab, IndexOK
<1>5. \A x \in 1..N : l.entries[x].prefix_hash # k
  BY <1>1, <1>4, PolicyAssumption
<1> HIDE DEF N
<1>6. h \in Injection(1..N, R)
  <2>1. h \in [1..N -> R]
    BY <1>3, <1>5, Zenon
  <2>2. IsInjective(h)
    BY <1>4, Zenon DEF IsInjective
  <2> QED
    BY <2>1, <2>2, Zenon DEF Injection
<1>7. IsFiniteSet(R) /\ Cardinality(R) = IF k \in Keys THEN Cardinality(Keys) - 1 ELSE Cardinality(Keys)
  BY PolicyAssumption, FS_RemoveElement, Zenon
<1>8. Cardinality(1..N) = N
  <2>1. 1 \in Int /\ N \in Int
    BY <1>1
  <2>2. Cardinality(1..N) = IF 1 > N THEN 0 ELSE N - 1 + 1
    BY <2>1, FS_Interval, Zenon
  <2> QED
    BY <1>1, <2>2
<1>9. Cardinality(1..N) <= Cardinality(R)
  BY <1>6, <1>7, FS_Injection, Zenon
<1>10. Cardinality(Keys) \in Nat
  BY PolicyAssumption, FS_CardinalityType, Zenon
<1>11. N + 1 <= Cardinality(Keys)
  BY <1>1, <1>7, <1>8, <1>9, <1>10
<1> QED
  BY <1>11 DEF N

(* The slab grows.                                                         *)
LEMMA AllocFresh ==
  ASSUME NEW l, NEW p, Slab(l, p), NEW k \in Keys, l.index[k] = None, l.free_indices = << >>
  PROVE  AllocEffect(l, p, k, alloc_entry(l, k).slot, alloc_entry(l, k).inner)
<1> DEFINE D == DOMAIN l.entries
           i == Len(l.entries) + 1
           e == Append(l.entries, Node(k))
           m == [l EXCEPT !.entries = e]
<1>1. /\ l \in Inner /\ l.entries \in Seq(Entry) /\ Len(l.entries) \in Nat
      /\ D = 1..Len(l.entries) /\ p \in Seq(D)
  BY DEF Slab, Inner, Linked
<1>2. Node(k) \in Entry /\ Node(k).prefix_hash = k
  BY DEF Node, Entry
<1>3. /\ e \in Seq(Entry) /\ DOMAIN e = 1..i /\ Len(e) = i /\ e[i] = Node(k)
      /\ \A x \in D : e[x] = l.entries[x]
  <2> DEFINE N == Node(k)
           E == l.entries
  <2>1. N \in Entry /\ e = Append(E, N) /\ E \in Seq(Entry)
    BY <1>1, <1>2
  <2> HIDE DEF N, E, e
  <2>2. /\ e \in Seq(Entry) /\ Len(e) = Len(E) + 1 /\ e[Len(E) + 1] = N
        /\ DOMAIN e = 1..Len(E) + 1 /\ \A x \in DOMAIN E : e[x] = E[x]
    BY <2>1
  <2> QED
    BY <2>2 DEF N, E
<1>4. i \in Nat /\ i \in 1..i /\ i \notin D /\ D \subseteq 1..i /\ \A x \in 1..i : x \in D \/ x = i
  BY <1>1
<1>5. \A x : Has(p, x) => x \in D
  <2> HIDE DEF D
  <2> QED
    BY <1>1 DEF Has
<1> HIDE DEF e
<1>6. /\ m \in Inner /\ m.index = l.index /\ m.head = l.head /\ m.tail = l.tail
      /\ m.entries = e /\ m.free_indices = << >>
  BY <1>1, <1>3, Zenon DEF Inner
<1>7. alloc_entry(l, k) = [slot |-> i, inner |-> m]
  BY Zenon DEF alloc_entry, e
<1>8. alloc_entry(l, k).slot = i /\ alloc_entry(l, k).inner = m
  <2> HIDE DEF m
  <2> QED
    BY <1>7
<1>9. i <= Cardinality(Keys)
  BY FullSlab
<1>10. Distinct(<< >>) /\ \A x : ~ Has(<< >>, x)
  BY DEF Distinct, Has
<1>11. \A x \in D : Has(p, x)
  BY <1>10, Zenon DEF Slab, FreeOK
<1> HIDE DEF m, D, i
<1>12. AllocEffect(l, p, k, i, m)
  <2>1. D = DOMAIN l.entries
    BY DEF D
  <2>2. \A x : ~ (x \in 1..i /\ ~ Has(p, x) /\ x # i)
    BY <1>4, <1>11, Zenon
  <2>3. ~ Has(p, i)
    BY <1>4, <1>5, Zenon
  <2> QED
    BY <1>2, <1>3, <1>4, <1>6, <1>9, <1>10, <2>1, <2>2, <2>3, Zenon DEF AllocEffect
<1> QED
  BY <1>8, <1>12, Zenon

(* touch of a new key: its slot is the first of the list.                  *)
Added(l, k) ==
  LET a == alloc_entry(l, k) IN [push_front(a.inner, a.slot) EXCEPT !.index[k] = a.slot]

LEMMA AddSlab ==
  ASSUME NEW l, NEW p, Slab(l, p), NEW k \in Keys, l.index[k] = None
  PROVE  /\ Slab(Added(l, k), <<alloc_entry(l, k).slot>> \o p)
         /\ KeysOf(Added(l, k), <<alloc_entry(l, k).slot>> \o p) = <<k>> \o KeysOf(l, p)
<1> DEFINE i == alloc_entry(l, k).slot
           m == alloc_entry(l, k).inner
           u == push_front(m, i)
           w == [u EXCEPT !.index[k] = i]
           r == <<i>> \o p
           D == DOMAIN m.entries
<1>1. AllocEffect(l, p, k, i, m)
  BY AllocReused, AllocFresh, Zenon
<1> HIDE DEF i, m
<1>2. /\ l \in Inner /\ Linked(l, p) /\ IndexOK(l, p) /\ p \in Seq(DOMAIN l.entries) /\ Distinct(p)
      /\ \A j \in DOMAIN p : p[j] \in DOMAIN l.entries /\ Has(p, p[j])
  BY DEF Slab, Linked, Has
<1>3. m \in Inner /\ i \in D /\ ~ Has(p, i) /\ DOMAIN l.entries \subseteq D /\ D \subseteq Nat
  <2>1. m \in Inner /\ i \in D /\ ~ Has(p, i) /\ DOMAIN l.entries \subseteq D
    BY <1>1, Zenon DEF AllocEffect
  <2> QED
    BY <2>1 DEF Inner
<1>4. \A j \in DOMAIN p : p[j] # i /\ m.entries[p[j]] = l.entries[p[j]]
  BY <1>1, <1>2, <1>3, Zenon DEF AllocEffect
<1>5. Linked(m, p)
  <2>1. p \in Seq(D)
    <3> HIDE DEF D
    <3> QED
      BY <1>2, <1>3
  <2>2. m.head = l.head /\ m.tail = l.tail
    BY <1>1, Zenon DEF AllocEffect
  <2> QED
    BY <1>2, <1>4, <2>1, <2>2, Zenon DEF Linked
<1>6. PushEffect(m, i, u)
  <2>1. m.head \in (D \ {i}) \cup {None}
    <3>1. m.head = At(p, 1)
      BY <1>5, Zenon DEF Linked
    <3> QED
      BY <1>2, <1>3, <1>4, <3>1, Zenon DEF At
  <2> QED
    BY <1>3, <2>1, PushDoes, Zenon
<1>7. Linked(u, r)
  BY <1>3, <1>5, <1>6, PushLinked, Zenon
<1>8. SameNodes(m, u)
  BY <1>6, Zenon DEF PushEffect
<1> HIDE DEF u
<1>9. /\ w \in Inner /\ w.entries = u.entries /\ w.head = u.head /\ w.tail = u.tail
      /\ w.free_indices = u.free_indices
      /\ \A h \in Keys : w.index[h] = IF h = k THEN i ELSE u.index[h]
  <2>1. u \in Inner /\ i \in Nat
    BY <1>3, <1>8 DEF SameNodes
  <2> QED
    BY <2>1, Zenon DEF Inner
<1> HIDE DEF w
<1>10. /\ DOMAIN w.entries = D /\ Len(w.entries) = Len(m.entries)
       /\ \A x \in D : w.entries[x].prefix_hash = m.entries[x].prefix_hash
       /\ w.free_indices = m.free_indices
       /\ \A h \in Keys : w.index[h] = IF h = k THEN i ELSE l.index[h]
  <2>1. /\ DOMAIN u.entries = D /\ Len(u.entries) = Len(m.entries)
        /\ u.free_indices = m.free_indices /\ u.index = m.index
        /\ \A x \in D : u.entries[x].prefix_hash = m.entries[x].prefix_hash
    BY <1>8, Zenon DEF SameNodes
  <2>2. m.index = l.index
    BY <1>1, Zenon DEF AllocEffect
  <2> HIDE DEF D
  <2> QED
    BY <1>9, <2>1, <2>2
<1>11. Linked(w, r)
  BY <1>7, <1>9, LinkedSame, Zenon
<1>12. \A x : Has(r, x) <=> Has(p, x) \/ x = i
  <2>1. p \in Seq(D)
    BY <1>5, Zenon DEF Linked
  <2> HIDE DEF D
  <2> QED
    BY <1>2, <1>3, <2>1, ConsHas, Zenon
<1> HIDE DEF r
<1>13. FreeOK(w, r)
  <2>1. /\ Distinct(m.free_indices)
        /\ \A x : Has(m.free_indices, x) <=> x \in D /\ ~ Has(p, x) /\ x # i
    BY <1>1, Zenon DEF AllocEffect
  <2> QED
    BY <1>10, <1>12, <2>1, Zenon DEF FreeOK
<1>14. IndexOK(w, r)
  <2>1. /\ \A h \in Keys : l.index[h] # None =>
             Has(p, l.index[h]) /\ l.entries[l.index[h]].prefix_hash = h
        /\ \A x \in DOMAIN l.entries : Has(p, x) => l.index[l.entries[x].prefix_hash] = x
    BY <1>2, Zenon DEF IndexOK
  <2>2. \A x : Has(p, x) => /\ x \in DOMAIN l.entries /\ x \in D /\ x # i
                            /\ w.entries[x].prefix_hash = l.entries[x].prefix_hash
    <3> SUFFICES ASSUME NEW x, Has(p, x)
                 PROVE  /\ x \in DOMAIN l.entries /\ x \in D /\ x # i
                        /\ w.entries[x].prefix_hash = l.entries[x].prefix_hash
      BY Zenon
    <3>1. PICK j \in DOMAIN p : p[j] = x
      BY Zenon DEF Has
    <3> QED
      BY <1>2, <1>3, <1>4, <1>10, <3>1
  <2>3. w.entries[i].prefix_hash = k
    BY <1>1, <1>3, <1>10, Zenon DEF AllocEffect
  <2>4. \A x \in DOMAIN l.entries : l.entries[x].prefix_hash \in Keys
    BY <1>2, EntryKey, Zenon
  <2> HIDE DEF D
  <2>5. ASSUME NEW h \in Keys, w.index[h] # None
        PROVE  Has(r, w.index[h]) /\ w.entries[w.index[h]].prefix_hash = h
    <3>1. CASE h = k
      BY <1>10, <1>12, <2>3, <3>1
    <3>2. CASE h # k
      BY <1>10, <1>12, <2>1, <2>2, <2>5, <3>2
    <3> QED
      BY <3>1, <3>2
  <2>6. ASSUME NEW x \in D, Has(r, x)
        PROVE  w.index[w.entries[x].prefix_hash] = x
    <3>1. CASE x = i
      BY <1>10, <2>3, <3>1
    <3>2. CASE x # i
      <4>1. Has(p, x)
        BY <1>12, <2>6, <3>2
      <4>2. l.index[l.entries[x].prefix_hash] = x /\ x \in Nat /\ l.entries[x].prefix_hash \in Keys
        BY <1>3, <2>1, <2>2, <2>4, <4>1
      <4>3. l.entries[x].prefix_hash # k
        BY <4>2, PolicyAssumption
      <4> QED
        BY <1>10, <2>2, <4>1, <4>2, <4>3
    <3> QED
      BY <3>1, <3>2
  <2> QED
    BY <1>10, <2>5, <2>6, Zenon DEF IndexOK
<1>15. Slab(w, r)
  BY <1>1, <1>9, <1>10, <1>11, <1>13, <1>14, Zenon DEF Slab, AllocEffect
<1>16. KeysOf(w, r) = <<k>> \o KeysOf(l, p)
  <2>1. \A j \in DOMAIN p : w.entries[p[j]].prefix_hash = l.entries[p[j]].prefix_hash
    BY <1>2, <1>3, <1>4, <1>10, Zenon
  <2>2. w.entries[i].prefix_hash = k
    BY <1>1, <1>3, <1>10, Zenon DEF AllocEffect
  <2>3. DOMAIN l.entries \subseteq DOMAIN w.entries /\ i \in DOMAIN w.entries
    BY <1>3, <1>10, Zenon
  <2>4. KeysOf(w, <<i>> \o p) = <<w.entries[i].prefix_hash>> \o KeysOf(l, p)
    BY <1>2, <1>9, <2>1, <2>3, KeysCons, Zenon
  <2> QED
    BY <2>2, <2>4, Zenon DEF r
<1>17. w = Added(l, k) /\ r = <<alloc_entry(l, k).slot>> \o p
  BY Zenon DEF w, u, m, i, r, Added
<1> QED
  BY <1>15, <1>16, <1>17, Zenon
----------------------------------------------------------------------------
(* The order of the keys *)

(* List l is a consistent slab whose keys are s.                           *)
Holds(l, s) == \E p \in Seq(Nat) : Slab(l, p) /\ KeysOf(l, p) = s

(* A key is in the list exactly when the map names a slot for it, and once. *)
LEMMA KeysDistinct ==
  ASSUME NEW l, NEW p, Slab(l, p)
  PROVE  /\ Distinct(KeysOf(l, p))
         /\ \A k \in Keys : l.index[k] # None <=> Has(KeysOf(l, p), k)
<1> DEFINE s == KeysOf(l, p)
           D == DOMAIN l.entries
<1>1. /\ l \in Inner /\ p \in Seq(D) /\ Distinct(p)
      /\ \A k \in Keys : l.index[k] # None =>
           Has(p, l.index[k]) /\ l.entries[l.index[k]].prefix_hash = k
      /\ \A x \in D : Has(p, x) => l.index[l.entries[x].prefix_hash] = x
  BY DEF Slab, Linked, IndexOK
<1>2. DOMAIN s = DOMAIN p /\ \A j \in DOMAIN p : s[j] = l.entries[p[j]].prefix_hash
  BY <1>1, KeysSeq
<1>3. \A j \in DOMAIN p : p[j] \in D /\ Has(p, p[j])
  BY <1>1 DEF Has
<1>4. \A j \in DOMAIN p : l.index[s[j]] = p[j] /\ p[j] # None
  <2>1. D \subseteq Nat
    BY <1>1 DEF Inner
  <2> QED
    BY <1>1, <1>2, <1>3, <2>1, PolicyAssumption
<1> HIDE DEF s, D
<1>5. Distinct(s)
  <2> SUFFICES ASSUME NEW i \in DOMAIN s, NEW j \in DOMAIN s, s[i] = s[j]
               PROVE  i = j
    BY Zenon DEF Distinct
  <2>1. p[i] = p[j]
    BY <1>2, <1>4
  <2> QED
    BY <1>1, <1>2, <2>1 DEF Distinct
<1>6. \A k \in Keys : l.index[k] # None <=> Has(s, k)
  <2> SUFFICES ASSUME NEW k \in Keys  PROVE l.index[k] # None <=> Has(s, k)
    BY Zenon
  <2>1. ASSUME l.index[k] # None  PROVE Has(s, k)
    <3>1. PICK j \in DOMAIN p : p[j] = l.index[k]
      BY <1>1, <2>1, Zenon DEF Has
    <3>2. l.entries[p[j]].prefix_hash = k
      BY <1>1, <2>1, <3>1
    <3> QED
      BY <1>2, <3>2, Zenon DEF Has
  <2>2. ASSUME Has(s, k)  PROVE l.index[k] # None
    <3>1. PICK j \in DOMAIN s : s[j] = k
      BY <2>2, Zenon DEF Has
    <3> QED
      BY <1>2, <1>4, <3>1
  <2> QED
    BY <2>1, <2>2, Zenon
<1> QED
  BY <1>5, <1>6, Zenon DEF s

(* Taking a key out of a list without duplicates cuts it at its position.  *)
LEMMA WithoutIsCut ==
  ASSUME NEW s, Distinct(s), NEW a \in DOMAIN s
  PROVE  Abstract!Without(s, s[a]) = Cut(s, a)
<1> DEFINE i == CHOOSE i \in DOMAIN s : s[i] = s[a]
<1>1. \E j \in DOMAIN s : s[j] = s[a]
  BY Zenon
<1>2. i \in DOMAIN s /\ s[i] = s[a]
  BY <1>1, Zenon
<1>3. i = a
  <2> HIDE DEF i
  <2> QED
    BY <1>2, Zenon DEF Distinct
<1>4. Abstract!Without(s, s[a]) = Cut(s, i)
  BY <1>1, Zenon DEF Abstract!Without, Cut
<1> QED
  BY <1>3, <1>4, Zenon

LEMMA WithoutNone ==
  ASSUME NEW s, NEW k, ~ Has(s, k)
  PROVE  Abstract!Without(s, k) = s
BY Zenon DEF Abstract!Without, Has

(* Cutting a list at its end drops its last element.                       *)
LEMMA CutLast ==
  ASSUME NEW S, NEW s \in Seq(S), NEW a \in DOMAIN s, a = Len(s)
  PROVE  Cut(s, a) = SubSeq(s, 1, Len(s) - 1)
<1> DEFINE c == Cut(s, a)
           b == SubSeq(s, 1, Len(s) - 1)
<1>1. /\ Len(s) \in Nat /\ DOMAIN s = 1..Len(s) /\ a \in 1..Len(s)
      /\ c \in Seq(S) /\ DOMAIN c = 1..Len(s) - 1
      /\ \A j \in 1..Len(s) - 1 : c[j] = IF j < a THEN s[j] ELSE s[j + 1]
  BY CutOf
<1>2. /\ b \in Seq(S) /\ DOMAIN b = 1..Len(s) - 1
      /\ \A j \in 1..Len(s) - 1 : b[j] = s[j]
  BY <1>1
<1> HIDE DEF c, b
<1>3. \A j \in 1..Len(s) - 1 : c[j] = b[j]
  BY <1>1, <1>2
<1>4. c = b
  BY <1>1, <1>2, <1>3
<1> QED
  BY <1>4 DEF c, b

(* The slots of a consistent slab are numbers.                             *)
LEMMA SlabSeq ==
  ASSUME NEW l, NEW p, Slab(l, p)
  PROVE  p \in Seq(Nat)
<1>1. p \in Seq(DOMAIN l.entries) /\ DOMAIN l.entries \subseteq Nat
  BY DEF Slab, Linked, Inner
<1> QED
  BY <1>1

LEMMA TouchHolds ==
  ASSUME NEW l, NEW p \in Seq(Nat), Slab(l, p), NEW k \in Keys, NEW u,
         u = IF l.index[k] # None THEN Moved(l, l.index[k]) ELSE Added(l, k)
  PROVE  Holds(u, <<k>> \o Abstract!Without(KeysOf(l, p), k))
<1> DEFINE s == KeysOf(l, p)
<1>1. l \in Inner /\ p \in Seq(DOMAIN l.entries) /\ Distinct(p) /\ DOMAIN l.entries \subseteq Nat
  BY DEF Slab, Linked, Inner
<1>2. /\ Distinct(s) /\ DOMAIN s = DOMAIN p
      /\ \A j \in DOMAIN p : s[j] = l.entries[p[j]].prefix_hash
  BY <1>1, KeysSeq, KeysDistinct, Zenon
<1>3. CASE l.index[k] # None
  <2>1. PICK a \in DOMAIN p : p[a] = l.index[k]
    BY <1>3, Zenon DEF Slab, IndexOK, Has
  <2>2. l.entries[p[a]].prefix_hash = k /\ s[a] = k /\ a \in DOMAIN s
    BY <1>2, <1>3, <2>1, Zenon DEF Slab, IndexOK
  <2>3. u = Moved(l, p[a])
    BY <1>3, <2>1, Zenon
  <2>4. Abstract!Without(s, k) = Cut(s, a)
    <3>1. Abstract!Without(s, s[a]) = Cut(s, a)
      <4> HIDE DEF s
      <4> QED
        BY <1>2, <2>2, WithoutIsCut, Zenon
    <3> QED
      BY <2>2, <3>1, Zenon
  <2> DEFINE r == <<p[a]>> \o Cut(p, a)
  <2>5. Slab(u, r) /\ KeysOf(u, r) = <<k>> \o Cut(s, a)
    <3>1. /\ Slab(Moved(l, p[a]), r)
          /\ KeysOf(Moved(l, p[a]), r) = <<l.entries[p[a]].prefix_hash>> \o Cut(s, a)
      BY MoveSlab, Zenon
    <3> HIDE DEF r, s
    <3> QED
      BY <2>2, <2>3, <3>1
  <2>6. r \in Seq(Nat)
    BY <2>5, SlabSeq, Zenon
  <2> HIDE DEF r
  <2> QED
    BY <2>4, <2>5, <2>6, Zenon DEF Holds
<1>4. CASE l.index[k] = None
  <2> DEFINE r == <<alloc_entry(l, k).slot>> \o p
  <2>1. Slab(u, r) /\ KeysOf(u, r) = <<k>> \o s
    BY <1>4, AddSlab, Zenon
  <2>2. Abstract!Without(s, k) = s
    BY <1>4, KeysDistinct, WithoutNone, Zenon
  <2>3. r \in Seq(Nat)
    BY <2>1, SlabSeq, Zenon
  <2> HIDE DEF r
  <2> QED
    BY <2>1, <2>2, <2>3, Zenon DEF Holds
<1> QED
  BY <1>3, <1>4, Zenon

LEMMA ReleaseHolds ==
  ASSUME NEW l, NEW p \in Seq(Nat), Slab(l, p), NEW a \in DOMAIN p
  PROVE  LET k == l.entries[p[a]].prefix_hash
         IN  Holds(Released(l, p[a], k), Cut(KeysOf(l, p), a))
<1> DEFINE k == l.entries[p[a]].prefix_hash
           u == Released(l, p[a], k)
<1>1. l \in Inner /\ Linked(l, p)
  BY DEF Slab
<1>2. k \in Keys
  BY <1>1, Neighbours, EntryKey, Zenon
<1>3. Slab(u, Cut(p, a)) /\ KeysOf(u, Cut(p, a)) = Cut(KeysOf(l, p), a)
  <2>1. PICK h \in Keys : l.entries[p[a]].prefix_hash = h
    BY <1>2, Zenon
  <2>2. /\ Slab(Released(l, p[a], h), Cut(p, a))
        /\ KeysOf(Released(l, p[a], h), Cut(p, a)) = Cut(KeysOf(l, p), a)
    BY <2>1, ReleaseSlab
  <2> QED
    BY <2>1, <2>2, Zenon
<1>4. Cut(p, a) \in Seq(Nat)
  BY <1>3, SlabSeq, Zenon
<1> QED
  BY <1>3, <1>4, Zenon DEF Holds

LEMMA RemoveHolds ==
  ASSUME NEW l, NEW p \in Seq(Nat), Slab(l, p), NEW k \in Keys, l.index[k] # None
  PROVE  Holds(Released(l, l.index[k], k), Abstract!Without(KeysOf(l, p), k))
<1> DEFINE s == KeysOf(l, p)
<1>1. l \in Inner /\ p \in Seq(DOMAIN l.entries)
  BY DEF Slab, Linked
<1>2. /\ Distinct(s) /\ DOMAIN s = DOMAIN p
      /\ \A j \in DOMAIN p : s[j] = l.entries[p[j]].prefix_hash
  BY <1>1, KeysSeq, KeysDistinct, Zenon
<1>3. PICK a \in DOMAIN p : p[a] = l.index[k]
  BY Zenon DEF Slab, IndexOK, Has
<1>4. l.entries[p[a]].prefix_hash = k /\ s[a] = k /\ a \in DOMAIN s
  BY <1>2, <1>3, Zenon DEF Slab, IndexOK
<1>5. Abstract!Without(s, k) = Cut(s, a)
  <2>1. Abstract!Without(s, s[a]) = Cut(s, a)
    <3> HIDE DEF s
    <3> QED
      BY <1>2, <1>4, WithoutIsCut, Zenon
  <2> QED
    BY <1>4, <2>1, Zenon
<1>6. Holds(Released(l, p[a], l.entries[p[a]].prefix_hash), Cut(s, a))
  BY ReleaseHolds, Zenon
<1> QED
  BY <1>3, <1>4, <1>5, <1>6, Zenon

LEMMA EvictHolds ==
  ASSUME NEW l, NEW p \in Seq(Nat), Slab(l, p), l.tail # None
  PROVE  LET s == KeysOf(l, p)
         IN  /\ s # << >> /\ s[Len(s)] \in Keys
             /\ Holds(Released(l, l.tail, l.entries[l.tail].prefix_hash),
                      SubSeq(s, 1, Len(s) - 1))
<1> DEFINE s == KeysOf(l, p)
<1>1. l \in Inner /\ p \in Seq(DOMAIN l.entries) /\ l.tail = At(p, Len(p))
  BY DEF Slab, Linked
<1>2. s \in Seq(Keys) /\ Len(s) = Len(p) /\ DOMAIN s = DOMAIN p
  BY <1>1, KeysSeq, Zenon
<1>3. Len(p) \in DOMAIN p /\ l.tail = p[Len(p)]
  BY <1>1, Zenon DEF At
<1>4. Holds(Released(l, l.tail, l.entries[l.tail].prefix_hash), Cut(s, Len(p)))
  BY <1>3, ReleaseHolds, Zenon
<1> HIDE DEF s
<1>5. Cut(s, Len(p)) = SubSeq(s, 1, Len(s) - 1)
  BY <1>2, <1>3, CutLast
<1>6. s # << >> /\ s[Len(s)] \in Keys
  BY <1>2, <1>3
<1> QED
  BY <1>4, <1>5, <1>6, Zenon DEF s
----------------------------------------------------------------------------
(* Steps and theorems *)

LEMMA HoldsOrder ==
  ASSUME NEW l, NEW s, Holds(l, s)
  PROVE  KeysOf(l, Forward(l)) = s /\ \E p \in Seq(Nat) : Slab(l, p)
BY SlabWalk, Zenon DEF Holds

LEMMA InitHolds == PolicyInit => Holds(inner, << >>)
<1> SUFFICES ASSUME PolicyInit  PROVE Holds(inner, << >>)
  OBVIOUS
<1>1. /\ inner.entries = << >> /\ inner.free_indices = << >> /\ inner.head = None
      /\ inner.tail = None /\ \A k \in Keys : inner.index[k] = None
  BY DEF PolicyInit
<1>2. inner \in Inner
  BY DEF PolicyInit, Inner
<1>3. Linked(inner, << >>)
  BY <1>1 DEF Linked, Distinct, At
<1>4. FreeOK(inner, << >>) /\ IndexOK(inner, << >>)
  BY <1>1 DEF FreeOK, IndexOK, Distinct, Has
<1>5. Len(inner.entries) <= Cardinality(Keys)
  <2>1. Cardinality(Keys) \in Nat
    BY PolicyAssumption, FS_CardinalityType, Zenon
  <2> QED
    BY <1>1, <2>1
<1>6. KeysOf(inner, << >>) = << >>
  BY DEF KeysOf
<1>7. << >> \in Seq(Nat)
  OBVIOUS
<1> QED
  BY <1>2, <1>3, <1>4, <1>5, <1>6, <1>7, Zenon DEF Holds, Slab

LEMMA TouchStep ==
  ASSUME PolicyInv, NEW k \in Keys, touch(k)
  PROVE  Holds(inner', <<k>> \o Abstract!Without(Order, k))
<1>1. PICK p \in Seq(Nat) : Slab(inner, p)
  BY Zenon DEF PolicyInv
<1>2. Order = KeysOf(inner, p)
  BY <1>1, SlabWalk, Zenon DEF Order
<1>3. inner' = IF inner.index[k] # None THEN Moved(inner, inner.index[k]) ELSE Added(inner, k)
  BY Zenon DEF touch, Moved, Added
<1> QED
  BY <1>1, <1>2, <1>3, TouchHolds, Zenon

LEMMA RemoveStep ==
  ASSUME PolicyInv, NEW k \in Keys, remove(k)
  PROVE  Holds(inner', Abstract!Without(Order, k))
<1>1. PICK p \in Seq(Nat) : Slab(inner, p)
  BY Zenon DEF PolicyInv
<1>2. Order = KeysOf(inner, p)
  BY <1>1, SlabWalk, Zenon DEF Order
<1>3. inner.index[k] # None /\ inner' = Released(inner, inner.index[k], k)
  BY Zenon DEF remove, Release, Released
<1> QED
  BY <1>1, <1>2, <1>3, RemoveHolds, Zenon

LEMMA EvictStep ==
  ASSUME PolicyInv, evict_lru
  PROVE  /\ Order # << >> /\ Order[Len(Order)] \in Keys
         /\ Holds(inner', SubSeq(Order, 1, Len(Order) - 1))
<1>1. PICK p \in Seq(Nat) : Slab(inner, p)
  BY Zenon DEF PolicyInv
<1>2. Order = KeysOf(inner, p)
  BY <1>1, SlabWalk, Zenon DEF Order
<1>3. /\ inner.tail # None
      /\ inner' = Released(inner, inner.tail, inner.entries[inner.tail].prefix_hash)
  BY Zenon DEF evict_lru, Release, Released
<1> QED
  BY <1>1, <1>2, <1>3, EvictHolds, Zenon

(* Each method does to the order what the abstract operation does.         *)
LEMMA StepMatches ==
  ASSUME PolicyInv
  PROVE  /\ \A k \in Keys : /\ touch(k) => Abstract!Touch(k) /\ PolicyInv'
                            /\ remove(k) => Abstract!Forget(k) /\ PolicyInv'
         /\ evict_lru => (\E v \in Keys : Abstract!EvictLru(v)) /\ PolicyInv'
<1>1. ASSUME NEW k \in Keys, touch(k)  PROVE Abstract!Touch(k) /\ PolicyInv'
  <2>1. Holds(inner', <<k>> \o Abstract!Without(Order, k))
    BY <1>1, TouchStep, Zenon
  <2>2. Order' = <<k>> \o Abstract!Without(Order, k) /\ PolicyInv'
    BY <2>1, HoldsOrder, Zenon DEF Order, PolicyInv
  <2> QED
    BY <2>2, Zenon DEF Abstract!Touch
<1>2. ASSUME NEW k \in Keys, remove(k)  PROVE Abstract!Forget(k) /\ PolicyInv'
  <2>1. Holds(inner', Abstract!Without(Order, k))
    BY <1>2, RemoveStep, Zenon
  <2> QED
    BY <2>1, HoldsOrder, Zenon DEF Abstract!Forget, Abstract!Without, Order, PolicyInv
<1>3. ASSUME evict_lru  PROVE (\E v \in Keys : Abstract!EvictLru(v)) /\ PolicyInv'
  <2>1. /\ Order # << >> /\ Order[Len(Order)] \in Keys
        /\ Holds(inner', SubSeq(Order, 1, Len(Order) - 1))
    BY <1>3, EvictStep, Zenon
  <2>2. Order' = SubSeq(Order, 1, Len(Order) - 1) /\ PolicyInv'
    BY <2>1, HoldsOrder, Zenon DEF Order, PolicyInv
  <2>3. Abstract!EvictLru(Order[Len(Order)])
    BY <2>1, <2>2, Zenon DEF Abstract!EvictLru
  <2> QED
    BY <2>1, <2>2, <2>3, Zenon
<1> QED
  BY <1>1, <1>2, <1>3, Zenon

(* The slab is one consistent list after every sequence of calls to        *)
(* eviction.rs.                                                            *)
THEOREM PolicyInvariant == PolicySpec => []PolicyInv
<1>1. PolicyInit => PolicyInv
  BY InitHolds, HoldsOrder, Zenon DEF PolicyInv
<1>2. PolicyInv /\ [PolicyNext]_inner => PolicyInv'
  <2> SUFFICES ASSUME PolicyInv, [PolicyNext]_inner  PROVE PolicyInv'
    OBVIOUS
  <2>1. CASE UNCHANGED inner
    BY <2>1, Zenon DEF PolicyInv
  <2>2. CASE PolicyNext
    BY <2>2, StepMatches, Zenon DEF PolicyNext
  <2> QED
    BY <2>1, <2>2, Zenon
<1> QED
  BY <1>1, <1>2, PTL DEF PolicySpec

(* SlabBounded: alloc_entry reuses the slots that remove and evict_lru     *)
(* freed, so the Vec of nodes never has more slots than there are keys.    *)
THEOREM SlabIsBounded == PolicySpec => []SlabBounded
<1>1. PolicyInv => SlabBounded
  BY Zenon DEF PolicyInv, Slab, SlabBounded
<1> QED
  BY <1>1, PolicyInvariant, PTL

(* MethodsMatchOrder: touch, remove and evict_lru of eviction.rs change the *)
(* list of nodes as the operations on the recency order say.               *)
THEOREM MethodsMatch == PolicySpec => MethodsMatchOrder
<1>1. PolicyInv /\ [PolicyNext]_inner =>
        [/\ \A k \in Keys : /\ touch(k) => Abstract!Touch(k)
                            /\ remove(k) => Abstract!Forget(k)
         /\ evict_lru => \E v \in Keys : Abstract!EvictLru(v)]_inner
  BY StepMatches, Zenon
<1> QED
  BY <1>1, PolicyInvariant, PTL DEF PolicySpec, MethodsMatchOrder

(* ImplementsOrder: the slab of linked nodes of eviction.rs implements the *)
(* recency order that the block index relies on.                           *)
THEOREM ListImplementsOrder == PolicySpec => ImplementsOrder
<1>1. PolicyInit => Abstract!LruInit
  BY InitHolds, HoldsOrder, Zenon DEF Abstract!LruInit, Order
<1>2. PolicyInv /\ [PolicyNext]_inner => [Abstract!LruNext]_Order
  <2> SUFFICES ASSUME PolicyInv, [PolicyNext]_inner  PROVE [Abstract!LruNext]_Order
    OBVIOUS
  <2>1. CASE UNCHANGED inner
    BY <2>1, Zenon DEF Order
  <2>2. CASE PolicyNext
    <3>1. Abstract!LruNext
      BY <2>2, StepMatches, Zenon DEF PolicyNext, Abstract!LruNext
    <3> QED
      BY <3>1, Zenon
  <2> QED
    BY <2>1, <2>2, Zenon
<1> QED
  BY <1>1, <1>2, PolicyInvariant, PTL DEF PolicySpec, ImplementsOrder, Abstract!LruSpec

(* The slots of the list and the free ones are all slots, each once.       *)
LEMMA SlotsOnce ==
  ASSUME NEW l, NEW p, Slab(l, p)
  PROVE  /\ IsInjective(p \o l.free_indices)
         /\ Range(p \o l.free_indices) = DOMAIN l.entries
<1> DEFINE f == l.free_indices
           D == DOMAIN l.entries
           t == p \o f
<1>1. /\ p \in Seq(D) /\ Distinct(p) /\ D \subseteq Nat /\ f \in Seq(Nat) /\ Distinct(f)
      /\ \A x : Has(f, x) <=> x \in D /\ ~ Has(p, x)
  BY DEF Slab, Inner, Linked, FreeOK
<1> HIDE DEF f, D
<1>2. /\ Len(p) \in Nat /\ DOMAIN p = 1..Len(p) /\ Len(f) \in Nat /\ DOMAIN f = 1..Len(f)
      /\ p \in Seq(Nat)
  BY <1>1, SlabSeq
<1>3. /\ DOMAIN t = 1..Len(p) + Len(f)
      /\ \A i \in 1..Len(p) : t[i] = p[i]
      /\ \A i \in 1..Len(f) : t[Len(p) + i] = f[i]
  BY <1>2, <1>1
<1> HIDE DEF t
<1>4. \A i \in DOMAIN t : \/ i \in DOMAIN p /\ t[i] = p[i] /\ Has(p, t[i])
                          \/ /\ i - Len(p) \in DOMAIN f /\ t[i] = f[i - Len(p)]
                             /\ Has(f, t[i])
  <2> SUFFICES ASSUME NEW i \in DOMAIN t
               PROVE  \/ i \in DOMAIN p /\ t[i] = p[i] /\ Has(p, t[i])
                      \/ /\ i - Len(p) \in DOMAIN f /\ t[i] = f[i - Len(p)]
                         /\ Has(f, t[i])
    BY Zenon
  <2>1. CASE i \in 1..Len(p)
    BY <1>2, <1>3, <2>1 DEF Has
  <2>2. CASE i \notin 1..Len(p)
    <3>1. i - Len(p) \in 1..Len(f) /\ Len(p) + (i - Len(p)) = i
      BY <1>2, <1>3, <2>2
    <3>2. t[i] = f[i - Len(p)]
      BY <1>3, <3>1
    <3> QED
      BY <1>2, <3>1, <3>2 DEF Has
  <2> QED
    BY <2>1, <2>2
<1>5. IsInjective(t)
  <2> SUFFICES ASSUME NEW i \in DOMAIN t, NEW j \in DOMAIN t, t[i] = t[j]
               PROVE  i = j
    BY Zenon DEF IsInjective
  <2>1. CASE Has(p, t[i])
    <3>1. ~ Has(f, t[i]) /\ ~ Has(f, t[j])
      BY <1>1, <2>1
    <3>2. i \in DOMAIN p /\ j \in DOMAIN p /\ p[i] = p[j]
      BY <1>4, <3>1
    <3> QED
      BY <1>1, <3>2, Zenon DEF Distinct
  <2>2. CASE ~ Has(p, t[i])
    <3>1. /\ i - Len(p) \in DOMAIN f /\ j - Len(p) \in DOMAIN f
          /\ f[i - Len(p)] = f[j - Len(p)]
      BY <1>4, <2>2
    <3>2. i - Len(p) = j - Len(p)
      BY <1>1, <3>1, Zenon DEF Distinct
    <3> QED
      BY <1>2, <1>3, <3>2
  <2> QED
    BY <2>1, <2>2
<1>6. ASSUME NEW x \in D  PROVE \E i \in DOMAIN t : t[i] = x
  <2>1. CASE Has(p, x)
    <3>1. PICK i \in DOMAIN p : p[i] = x
      BY <2>1, Zenon DEF Has
    <3>2. i \in DOMAIN t /\ t[i] = x
      BY <1>2, <1>3, <3>1
    <3> QED
      BY <3>2
  <2>2. CASE Has(f, x)
    <3>1. PICK i \in DOMAIN f : f[i] = x
      BY <2>2, Zenon DEF Has
    <3>2. Len(p) + i \in DOMAIN t /\ t[Len(p) + i] = x
      BY <1>2, <1>3, <3>1
    <3> QED
      BY <3>2
  <2> QED
    BY <1>1, <2>1, <2>2
<1>7. ASSUME NEW i \in DOMAIN t  PROVE t[i] \in D
  <2>1. \A j \in DOMAIN p : p[j] \in D
    BY <1>1
  <2> QED
    BY <1>1, <1>4, <2>1
<1>8. Range(t) = D
  BY <1>6, <1>7 DEF Range
<1> QED
  BY <1>5, <1>8 DEF t, f, D

(* The list is as long as the map has keys.                                *)
LEMMA KeysCounted ==
  ASSUME NEW l, NEW p, Slab(l, p)
  PROVE  Len(p) = Cardinality({k \in Keys : l.index[k] # None})
<1> DEFINE s == KeysOf(l, p)
           N == Len(p)
           T == {k \in Keys : l.index[k] # None}
<1>1. l \in Inner /\ p \in Seq(DOMAIN l.entries)
  BY DEF Slab, Linked
<1>2. s \in Seq(Keys) /\ DOMAIN s = DOMAIN p /\ N \in Nat /\ DOMAIN p = 1..N
  BY <1>1, KeysSeq
<1>3. Distinct(s) /\ \A k \in Keys : l.index[k] # None <=> Has(s, k)
  BY KeysDistinct, Zenon
<1> HIDE DEF s, N
<1>4. \A j \in 1..N : s[j] \in Keys /\ Has(s, s[j])
  BY <1>2 DEF Has
<1>5. s \in [1..N -> T]
  <2>1. \A j \in 1..N : s[j] \in T
    BY <1>3, <1>4, Zenon
  <2>2. s = [j \in 1..N |-> s[j]]
    BY <1>2
  <2> HIDE DEF T
  <2> QED
    BY <2>1, <2>2
<1>6. s \in Injection(1..N, T)
  BY <1>2, <1>3, <1>5, Zenon DEF Injection, IsInjective, Distinct
<1>7. s \in Surjection(1..N, T)
  <2>1. \A k \in T : \E j \in 1..N : s[j] = k
    BY <1>2, <1>3, Zenon DEF Has
  <2> QED
    BY <1>5, <2>1, Zenon DEF Surjection
<1>8. IsFiniteSet(T)
  BY PolicyAssumption, FS_Subset, Zenon
<1>9. Cardinality(1..N) = Cardinality(T)
  <2> HIDE DEF T
  <2> QED
    BY <1>6, <1>7, <1>8, FS_Injection, Zenon
<1>10. Cardinality(1..N) = N
  <2>1. 1 \in Int /\ N \in Int
    BY <1>2
  <2>2. Cardinality(1..N) = IF 1 > N THEN 0 ELSE N - 1 + 1
    BY <2>1, FS_Interval, Zenon
  <2> QED
    BY <1>2, <2>2
<1> QED
  BY <1>9, <1>10, Zenon DEF N

(* SlabConsistent: the walks of eviction.rs from head and from tail see    *)
(* one list, the map names its nodes, and each other slot is free once.    *)
THEOREM SlabIsConsistent == PolicySpec => []SlabConsistent
<1>1. PolicyInv => SlabConsistent
  <2> SUFFICES ASSUME PolicyInv  PROVE SlabConsistent
    OBVIOUS
  <2>1. PICK p \in Seq(Nat) : Slab(inner, p)
    BY Zenon DEF PolicyInv
  <2>2. Forward(inner) = p /\ Backward(inner) = Reversed(p)
    BY <2>1, SlabWalk, Zenon
  <2>3. \A k \in Keys : inner.index[k] # None =>
          inner.index[k] \in Range(p) /\ inner.entries[inner.index[k]].prefix_hash = k
    <3>1. \A x : Has(p, x) => x \in Range(p)
      BY DEF Has, Range
    <3> QED
      BY <2>1, <3>1, Zenon DEF Slab, IndexOK
  <2>4. Len(p) = Cardinality({k \in Keys : inner.index[k] # None})
    BY <2>1, KeysCounted, Zenon
  <2>5. IsInjective(p \o inner.free_indices) /\ Range(p \o inner.free_indices) = Slots
    BY <2>1, SlotsOnce, Zenon DEF Slots
  <2> QED
    BY <2>2, <2>3, <2>4, <2>5, Zenon DEF SlabConsistent, Reversed
<1> QED
  BY <1>1, PolicyInvariant, PTL
=============================================================================
