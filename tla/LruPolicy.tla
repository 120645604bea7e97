------------------------------ MODULE LruPolicy ------------------------------
(***************************************************************************)
(* The data structure behind the recency order of                          *)
(* crates/cmx-block-store/src/eviction.rs: doubly linked nodes in a slab   *)
(* (a Vec), a stack of reusable slots, and a map from key to slot.  inner  *)
(* is the LruInner that the mutex protects; the helper operators take and  *)
(* return its value the way the &mut self helpers of the code change it.   *)
(* Slots are numbered from 1.                                              *)
(***************************************************************************)
EXTENDS Sequences, Functions, Naturals, FiniteSets

CONSTANTS Keys, None

ASSUME PolicyAssumption == IsFiniteSet(Keys) /\ None \notin Nat

VARIABLE inner

Node(k) == [prefix_hash |-> k, prev |-> None, next |-> None]

PolicyInit ==
  inner = [entries |-> << >>, free_indices |-> << >>,
           index |-> [k \in Keys |-> None], head |-> None, tail |-> None]

(* Mutant of alloc_entry: freed slots are never reused. *)
alloc_fresh(l, k) ==
  [slot |-> Len(l.entries) + 1, inner |-> [l EXCEPT !.entries = Append(@, Node(k))]]

(* A slot for key k: the last freed one, or a new one at the end. *)
alloc_entry(l, k) ==
  IF l.free_indices # << >>
  THEN LET n == Len(l.free_indices)
           i == l.free_indices[n]
       IN  [slot |-> i, inner |-> [l EXCEPT !.free_indices = SubSeq(@, 1, n - 1),
                                            !.entries[i] = Node(k)]]
  ELSE [slot |-> Len(l.entries) + 1,
        inner |-> [l EXCEPT !.entries = Append(@, Node(k))]]

(* Mutant of unlink: the tail is not moved when the last node leaves. *)
unlink_keeps_tail(l, i) ==
  LET p == l.entries[i].prev
      n == l.entries[i].next
      a == IF p # None THEN [l EXCEPT !.entries[p].next = n]
                       ELSE [l EXCEPT !.head = n]
      b == IF n # None THEN [a EXCEPT !.entries[n].prev = p] ELSE a
  IN  [b EXCEPT !.entries[i].prev = None, !.entries[i].next = None]

unlink(l, i) ==
  LET p == l.entries[i].prev
      n == l.entries[i].next
      a == IF p # None THEN [l EXCEPT !.entries[p].next = n]
                       ELSE [l EXCEPT !.head = n]
      b == IF n # None THEN [a EXCEPT !.entries[n].prev = p]
                       ELSE [a EXCEPT !.tail = p]
  IN  [b EXCEPT !.entries[i].prev = None, !.entries[i].next = None]

(* Mutant of push_front: the node is linked at the other end. *)
push_back(l, i) ==
  LET a == [l EXCEPT !.entries[i].next = None, !.entries[i].prev = l.tail]
      b == IF l.tail # None THEN [a EXCEPT !.entries[l.tail].next = i] ELSE a
  IN  [b EXCEPT !.tail = i, !.head = IF @ = None THEN i ELSE @]

push_front(l, i) ==
  LET a == [l EXCEPT !.entries[i].prev = None, !.entries[i].next = l.head]
      b == IF l.head # None THEN [a EXCEPT !.entries[l.head].prev = i] ELSE a
  IN  [b EXCEPT !.head = i, !.tail = IF @ = None THEN i ELSE @]

touch(k) ==
  inner' = IF inner.index[k] # None
           THEN push_front(unlink(inner, inner.index[k]), inner.index[k])
           ELSE LET a == alloc_entry(inner, k)
                IN  [push_front(a.inner, a.slot) EXCEPT !.index[k] = a.slot]

(* Node i leaves the list, its key the map, and its slot is reusable. *)
Release(i, k) ==
  inner' = [unlink([inner EXCEPT !.index[k] = None], i)
              EXCEPT !.free_indices = Append(@, i)]

remove(k) ==
  /\ inner.index[k] # None
  /\ Release(inner.index[k], k)

(* Mutant of evict_lru: evicts the most recently used entry. *)
evict_mru ==
  /\ inner.head # None
  /\ Release(inner.head, inner.entries[inner.head].prefix_hash)

evict_lru ==
  /\ inner.tail # None
  /\ Release(inner.tail, inner.entries[inner.tail].prefix_hash)

PolicyNext == evict_lru \/ \E k \in Keys : touch(k) \/ remove(k)

PolicySpec == PolicyInit /\ [][PolicyNext]_inner

----------------------------------------------------------------------------
Slots == DOMAIN inner.entries

(* The slots met in list l from a start node, following one link field at most
   as many times as there are slots. *)
Path(l, start, field) ==
  LET nth[n \in DOMAIN l.entries] ==
        IF n = 1 THEN start
        ELSE IF nth[n-1] = None THEN None ELSE l.entries[nth[n-1]][field]
  IN  [n \in 1..Cardinality({n \in DOMAIN l.entries : nth[n] # None}) |-> nth[n]]

Forward(l) == Path(l, l.head, "next")
Backward(l) == Path(l, l.tail, "prev")

(* The keys of the nodes p of list l. *)
KeysOf(l, p) == [n \in DOMAIN p |-> l.entries[p[n]].prefix_hash]

(* The key of every node from the head on: the order this list stands for. *)
Order == KeysOf(inner, Forward(inner))

Abstract == INSTANCE LruOrder WITH lru <- Order

(* The linked slab implements the recency order of LruOrder, for every
   sequence of calls to eviction.rs and every reuse of slots: a call never
   reorders or loses a key that it is not about. *)
ImplementsOrder == Abstract!LruSpec

(* Method by method: touch, remove and evict_lru of eviction.rs do to the list
   what the operation of that name does to the order.  In particular evict_lru
   pops the key whose last touch is longest ago. *)
MethodsMatchOrder ==
  [][/\ \A k \in Keys : /\ touch(k) => Abstract!Touch(k)
                        /\ remove(k) => Abstract!Forget(k)
     /\ evict_lru => \E v \in Keys : Abstract!EvictLru(v)]_inner

(* Walking backwards from the tail visits the nodes of the forward walk in
   reverse, so evict_lru, which reads the tail, and touch, which writes the
   head, see one list; the map names exactly the nodes of that list; and
   every slot that is not in the list is on the stack of free slots once. *)
SlabConsistent ==
  LET fwd == Forward(inner)
  IN  /\ Backward(inner) = [n \in 1..Len(fwd) |-> fwd[Len(fwd) - n + 1]]
      /\ \A k \in Keys : inner.index[k] # None =>
           /\ inner.index[k] \in Range(fwd)
           /\ inner.entries[inner.index[k]].prefix_hash = k
      /\ Len(fwd) = Cardinality({k \in Keys : inner.index[k] # None})
      /\ IsInjective(fwd \o inner.free_indices)
      /\ Range(fwd \o inner.free_indices) = Slots

(* Slots are reused before the Vec grows: the slab never has more slots than
   there are keys, however long the process runs. *)
SlabBounded == Len(inner.entries) <= Cardinality(Keys)
=============================================================================
