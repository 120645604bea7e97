------------------------- MODULE RingAndPoolProofs --------------------------
(***************************************************************************)
(* Proofs about the two components that stand on their own.                *)
(*                                                                         *)
(* HashRing, for any number of nodes, positions and virtual nodes and for  *)
(* any hash function: agents that know the same nodes agree on the ring, a *)
(* key moves only to a node that joins or from one that leaves, and the    *)
(* replicas of a key are its next owners.                                  *)
(*                                                                         *)
(* ConnectionPool: the transport's lock has the owner the calls say it     *)
(* has, a connection goes stale only where calls about its peer overlap,   *)
(* and only the health check forgets one.                                  *)
(***************************************************************************)
EXTENDS HashRing, ConnectionPool, FiniteSetTheorems, TLAPS

----------------------------------------------------------------------------
(* The connection pool *)

(* Overlapping calls of the two kinds about one peer are crossed; a peer   *)
(* that is cached although a disconnect of it is under way, or missing in  *)
(* the transport although a call is about to cache it, is so because of a  *)
(* call that crossed.                                                      *)
CrossInv ==
  /\ \A t, u \in Tasks :
       pc[t] \in Connects /\ pc[u] \in Disconnects /\ peer[t] = peer[u]
         => t \in crossed /\ u \in crossed
  /\ \A t \in Tasks : pc[t] \in Disconnects /\ peer[t] \in cached => t \in crossed
  /\ \A t \in Tasks : pc[t] = "cache" /\ peer[t] \notin connected => t \in crossed

(* The lock is free or held by a task.                                     *)
PoolInv == PoolTypeOK /\ lock \in Tasks \cup {Nobody} /\ CrossInv

(* Two tasks never hold the transport's write lock at once, the pool's and *)
(* the transport's tables hold peers only, and they differ only where      *)
(* calls crossed, however calls and health checks interleave.              *)
THEOREM PoolInvariant == PoolSpec => []PoolInv
<1> USE PoolAssumption
<1>1. PoolInit => PoolInv
  BY DEF PoolInit, PoolInv, PoolTypeOK, CrossInv, At, Connects, Disconnects
<1>2. PoolInv /\ [PoolNext]_poolVars => PoolInv'
  <2> SUFFICES ASSUME PoolInv, [PoolNext]_poolVars
               PROVE  PoolInv'
    OBVIOUS
  <2> USE DEF PoolInv, PoolTypeOK, CrossInv, At, Goto, Connects, Disconnects
  <2>1. ASSUME NEW t \in Tasks, NEW p \in Peers, get_or_connect(t, p)
        PROVE  PoolInv'
    BY <2>1 DEF get_or_connect, Begin, tables, health
  <2>2. ASSUME NEW t \in Tasks, NEW p \in Peers, disconnect(t, p)
        PROVE  PoolInv'
    BY <2>2 DEF disconnect, Begin, health
  <2>3. ASSUME NEW t \in Tasks, NEW p \in Peers, read(t, p) \/ write(t, p)
        PROVE  PoolInv'
    BY <2>3 DEF read, write, Begin, tables, health
  <2>4. ASSUME NEW t \in Tasks, WriteLock(t)
        PROVE  PoolInv'
    BY <2>4 DEF WriteLock, health
  <2>5. ASSUME NEW t \in Tasks, ReadLock(t)
        PROVE  PoolInv'
    BY <2>5 DEF ReadLock, Return, tables, health
  <2>6. ASSUME NEW t \in Tasks, Connect(t)
        PROVE  PoolInv'
    BY <2>6 DEF Connect, health
  <2>7. ASSUME NEW t \in Tasks, Disconnect(t)
        PROVE  PoolInv'
    BY <2>7 DEF Disconnect, Return, health
  <2>8. ASSUME NEW t \in Tasks, CacheInsert(t)
        PROVE  PoolInv'
    BY <2>8 DEF CacheInsert, Return, health
  <2>9. ASSUME NEW t \in Tasks, ReadMemory(t) \/ ReadFails(t) \/ WriteMemory(t)
        PROVE  PoolInv'
    BY <2>9 DEF ReadMemory, ReadFails, WriteMemory, Return, tables, health
  <2>10. CASE HealthStep
    BY <2>10 DEF HealthStep, HealthTick, HealthRemove, HealthCollect, HealthExamine,
                 tables, calls
  <2>11. CASE UNCHANGED poolVars
    BY <2>11 DEF poolVars, tables, calls, health
  <2> QED
    BY Zenon, <2>1, <2>2, <2>3, <2>4, <2>5, <2>6, <2>7, <2>8, <2>9, <2>10, <2>11
       DEF PoolNext, TakeLock, CallStep
<1> QED
  BY <1>1, <1>2, PTL DEF PoolSpec

(* The variables have their types and the lock its owner.                  *)
THEOREM PoolTypes == PoolSpec => []PoolTypeOK
<1>1. PoolInv => PoolTypeOK
  BY DEF PoolInv
<1> QED
  BY <1>1, PoolInvariant, PTL

(* What StaleByCrossingOnly says of a step.                                *)
CrossingOnly ==
  \A p \in Peers : ~Stale(p) /\ Stale(p)' =>
    \E t \in crossed : /\ peer[t] = p /\ pc[t] \in {"disconnecting", "cache"}
                       /\ pc'[t] = "idle"

(* A cached peer the transport does not know comes only from a disconnect  *)
(* and a get_or_connect of that peer that overlap; no call that met no     *)
(* such call, no transfer and no health check leaves one behind.           *)
THEOREM StaleByCrossing == PoolSpec => StaleByCrossingOnly
<1>1. PoolInv /\ [PoolNext]_poolVars => [CrossingOnly]_poolVars
  <2> SUFFICES ASSUME PoolInv, PoolNext
               PROVE  CrossingOnly
    BY Zenon
  <2> USE DEF CrossingOnly, Stale
  <2>1. ASSUME NEW t \in Tasks, NEW p \in Peers,
               \/ get_or_connect(t, p) \/ disconnect(t, p)
               \/ read(t, p) \/ write(t, p)
        PROVE  CrossingOnly
    BY <2>1 DEF get_or_connect, disconnect, read, write, tables
  <2>2. ASSUME NEW t \in Tasks,
               \/ WriteLock(t) \/ ReadLock(t) \/ Connect(t)
               \/ ReadMemory(t) \/ ReadFails(t) \/ WriteMemory(t)
        PROVE  CrossingOnly
    BY <2>2 DEF WriteLock, ReadLock, Connect, ReadMemory, ReadFails, WriteMemory, tables
  <2>3. ASSUME NEW t \in Tasks, Disconnect(t)
        PROVE  CrossingOnly
    BY <2>3 DEF Disconnect, Return, Goto, At, PoolInv, PoolTypeOK, CrossInv, Disconnects
  <2>4. ASSUME NEW t \in Tasks, CacheInsert(t)
        PROVE  CrossingOnly
    BY <2>4 DEF CacheInsert, Return, Goto, At, PoolInv, PoolTypeOK, CrossInv
  <2>5. CASE HealthStep
    BY <2>5 DEF HealthStep, HealthTick, HealthRemove, HealthCollect, HealthExamine,
                tables
  <2> QED
    BY Zenon, <2>1, <2>2, <2>3, <2>4, <2>5 DEF PoolNext, TakeLock, CallStep
<1> QED
  BY <1>1, PoolInvariant, PTL DEF PoolSpec, StaleByCrossingOnly, CrossingOnly

(* What ForgottenByHealthCheckOnly says of a step.                         *)
HealthCheckOnly ==
  \A p \in Peers : ~Forgotten(p) /\ Forgotten(p)' => HealthRemove /\ stale = p

(* get_or_connect and disconnect leave no connection behind that the cache *)
(* does not know, however they cross; only the health check does.          *)
THEOREM ForgottenByHealthCheck == PoolSpec => ForgottenByHealthCheckOnly
<1>1. PoolInv /\ [PoolNext]_poolVars => [HealthCheckOnly]_poolVars
  <2> SUFFICES ASSUME PoolInv, PoolNext, NEW p \in Peers, ~Forgotten(p), Forgotten(p)'
               PROVE  HealthRemove /\ stale = p
    BY Zenon DEF HealthCheckOnly
  <2> USE PoolAssumption
      DEF PoolInv, PoolTypeOK, At, Goto, Forgotten, Connects, Disconnects
  <2>1. ASSUME NEW t \in Tasks, NEW q \in Peers, get_or_connect(t, q)
        PROVE  FALSE
    BY <2>1 DEF get_or_connect, Begin, tables
  <2>2. ASSUME NEW t \in Tasks, NEW q \in Peers, disconnect(t, q)
        PROVE  FALSE
    BY <2>2 DEF disconnect, Begin
  <2>3. ASSUME NEW t \in Tasks, NEW q \in Peers, read(t, q) \/ write(t, q)
        PROVE  FALSE
    BY <2>3 DEF read, write, Begin, tables
  <2>4. ASSUME NEW t \in Tasks, WriteLock(t)
        PROVE  FALSE
    BY <2>4 DEF WriteLock
  <2>5. ASSUME NEW t \in Tasks, ReadLock(t)
        PROVE  FALSE
    BY <2>5 DEF ReadLock, Return, tables
  <2>6. ASSUME NEW t \in Tasks, Connect(t)
        PROVE  FALSE
    BY <2>6 DEF Connect
  <2>7. ASSUME NEW t \in Tasks, Disconnect(t)
        PROVE  FALSE
    BY <2>7 DEF Disconnect, Return
  <2>8. ASSUME NEW t \in Tasks, CacheInsert(t)
        PROVE  FALSE
    BY <2>8 DEF CacheInsert, Return
  <2>9. ASSUME NEW t \in Tasks, ReadMemory(t) \/ ReadFails(t) \/ WriteMemory(t)
        PROVE  FALSE
    BY <2>9 DEF ReadMemory, ReadFails, WriteMemory, Return, tables
  <2>10. ASSUME HealthTick \/ \E q \in Peers : HealthCollect(q) \/ HealthExamine(q)
         PROVE  FALSE
    BY <2>10 DEF HealthTick, HealthCollect, HealthExamine, tables, calls
  <2>11. CASE HealthRemove
    BY <2>11 DEF HealthRemove, calls
  <2> QED
    BY Zenon, <2>1, <2>2, <2>3, <2>4, <2>5, <2>6, <2>7, <2>8, <2>9, <2>10, <2>11
       DEF PoolNext, TakeLock, CallStep, HealthStep
<1> QED
  BY <1>1, PoolInvariant, PTL DEF PoolSpec, ForgottenByHealthCheckOnly, HealthCheckOnly

----------------------------------------------------------------------------
(* The hash ring *)

(* Every nonempty set of positions has a least element. *)
LEMMA LeastExists ==
  ASSUME NEW S, S \subseteq Nat, S # {}
  PROVE  \E p \in S : \A q \in S : p <= q
<1>1. PICK x \in S : \A y \in S : ~(<<y, x>> \in OpToRel(<, Nat))
  <2>1. IsWellFoundedOn(OpToRel(<, Nat), Nat)
    BY NatLessThanWellFounded, Zenon
  <2> QED
    BY <2>1, WFMin, Zenon
<1>2. \A y \in S : <<y, x>> \in OpToRel(<, Nat) <=> y < x
  BY Zenon DEF OpToRel
<1>3. \A y \in S : ~(y < x)
  BY <1>1, <1>2, Zenon
<1> HIDE <1>1, <1>2
<1> QED
  BY <1>3, SMT

(* What Least of a nonempty set of positions is. *)
LEMMA LeastIsLeast ==
  ASSUME NEW S, S \subseteq Positions, S # {}
  PROVE  Least(S) \in S /\ \A q \in S : Least(S) <= q
<1>1. S \subseteq Nat
  BY SMT DEF Positions
<1>2. \E p \in S : \A q \in S : p <= q
  BY <1>1, LeastExists, Zenon
<1> QED
  BY <1>2, Zenon DEF Least

(* The least element is unique. *)
LEMMA LeastIs ==
  ASSUME NEW S, S \subseteq Positions, NEW p \in S, \A q \in S : p <= q
  PROVE  Least(S) = p
<1>1. Least(S) \in S /\ \A q \in S : Least(S) <= q
  BY LeastIsLeast, Zenon
<1>2. S \subseteq Nat
  BY SMT DEF Positions
<1>3. Least(S) <= p /\ p <= Least(S)
  BY <1>1, Zenon
<1>4. Least(S) \in Nat /\ p \in Nat
  BY <1>1, <1>2, Zenon
<1> QED
  BY <1>3, <1>4, SMT

(* The successor of a position is a taken position. *)
LEMMA SuccessorTaken ==
  ASSUME NEW r, NEW pos \in Positions, Taken(r) # {}
  PROVE  Successor(r, pos) \in Taken(r)
<1> DEFINE after == {p \in Taken(r) : p >= pos}
<1>1. Taken(r) \subseteq Positions
  BY Zenon DEF Taken
<1>2. after \subseteq Taken(r)
  BY Zenon
<1>3. CASE after # {}
  <2>1. Least(after) \in after
    BY <1>1, <1>2, <1>3, LeastIsLeast, Zenon
  <2> QED
    BY <2>1, <1>2, <1>3, Zenon DEF Successor
<1>4. CASE after = {}
  <2>1. Least(Taken(r)) \in Taken(r)
    BY <1>1, LeastIsLeast, Zenon
  <2> QED
    BY <2>1, <1>4, Zenon DEF Successor
<1> QED
  BY <1>3, <1>4, Zenon

(* Taking positions out of a ring moves no successor that is still there. *)
LEMMA SuccessorStable ==
  ASSUME NEW r, NEW s, NEW pos \in Positions, Taken(r) \subseteq Taken(s),
         Taken(r) # {}, Successor(s, pos) \in Taken(r)
  PROVE  Successor(r, pos) = Successor(s, pos)
<1> DEFINE afterR == {p \in Taken(r) : p >= pos}
           afterS == {p \in Taken(s) : p >= pos}
           next == Successor(s, pos)
<1>1. Taken(r) \subseteq Positions /\ Taken(s) \subseteq Positions
  BY Zenon DEF Taken
<1>2. afterR \subseteq afterS /\ afterS \subseteq Taken(s) /\ afterR \subseteq Taken(r)
  BY Zenon
<1>3. Taken(s) # {}
  BY Zenon
<1>4. CASE afterS # {}
  <2>1. next = Least(afterS)
    BY <1>4, Zenon DEF Successor
  <2>2. next \in afterS /\ \A q \in afterS : next <= q
    BY <2>1, <1>1, <1>2, <1>4, LeastIsLeast, Zenon
  <2>3. next \in afterR /\ \A q \in afterR : next <= q
    BY <2>2, <1>2, Zenon
  <2>4. Least(afterR) = next
    BY <2>3, <1>1, <1>2, LeastIs, Zenon
  <2>5. Successor(r, pos) = Least(afterR)
    BY <2>3, Zenon DEF Successor
  <2> QED
    BY <2>4, <2>5, Zenon
<1>5. CASE afterS = {}
  <2>1. afterR = {}
    BY <1>2, <1>5, Zenon
  <2>2. next = Least(Taken(s))
    BY <1>5, Zenon DEF Successor
  <2>3. \A q \in Taken(s) : next <= q
    BY <2>2, <1>1, <1>3, LeastIsLeast, Zenon
  <2>4. Least(Taken(r)) = next
    BY <2>3, <1>1, LeastIs, Zenon
  <2>5. Successor(r, pos) = Least(Taken(r))
    BY <2>1, Zenon DEF Successor
  <2> QED
    BY <2>4, <2>5, Zenon
<1> QED
  BY <1>4, <1>5, Zenon

----------------------------------------------------------------------------
(* Each step keeps the types and the agreement of ring and members. *)
LEMMA RingStep ==
  ASSUME RingTypeOK, RingFollowsMembers, [RingNext]_ringVars
  PROVE  RingTypeOK' /\ RingFollowsMembers'
<1> USE RingAssumption DEF RingTypeOK, RingFollowsMembers
<1>1. ASSUME NEW n \in Nodes, add_node(n)
      PROVE  RingTypeOK' /\ RingFollowsMembers'
  <2>1. RingTypeOK'
    BY <1>1, SMT DEF add_node
  <2>2. \A m : Claims(m)' = Claims(m)
    BY <1>1, Zenon DEF add_node, Claims
  <2>3. ASSUME NEW p \in Positions
        PROVE  /\ ring'[p] # None => ring'[p] \in nodes' /\ p \in Claims(ring'[p])
               /\ \A m \in nodes' : p \in Claims(m) /\ (\A l \in Nodes \ {m} : p \notin Claims(l)) => ring'[p] = m
    <3>1. ring'[p] = IF p \in Claims(n) THEN n ELSE ring[p]
      BY <1>1, Zenon DEF add_node
    <3>2. nodes' = nodes \cup {n}
      BY <1>1, Zenon DEF add_node
    <3> QED
      BY <3>1, <3>2, Zenon
  <2> QED
    BY <2>1, <2>2, <2>3, Zenon
<1>2. ASSUME NEW n \in Nodes, remove_node(n)
      PROVE  RingTypeOK' /\ RingFollowsMembers'
  <2>1. RingTypeOK'
    BY <1>2, SMT DEF remove_node, Retain
  <2>2. \A m : Claims(m)' = Claims(m)
    BY <1>2, Zenon DEF remove_node, Claims
  <2>3. ASSUME NEW p \in Positions
        PROVE  /\ ring'[p] # None => ring'[p] \in nodes' /\ p \in Claims(ring'[p])
               /\ \A m \in nodes' : p \in Claims(m) /\ (\A l \in Nodes \ {m} : p \notin Claims(l)) => ring'[p] = m
    <3>1. ring'[p] = IF ring[p] = n THEN None ELSE ring[p]
      BY <1>2, Zenon DEF remove_node, Retain
    <3>2. nodes' = nodes \ {n}
      BY <1>2, Zenon DEF remove_node
    <3> QED
      BY <3>1, <3>2, Zenon
  <2> QED
    BY <2>1, <2>2, <2>3, Zenon
<1>3. CASE UNCHANGED ringVars
  BY <1>3, Zenon DEF ringVars, Claims
<1> QED
  BY <1>1, <1>2, <1>3, Zenon DEF RingNext

(* The ring that an agent keeps is determined by its members, except where
   virtual nodes collide. *)
THEOREM RingAgreement == RingSpec => [](RingTypeOK /\ RingFollowsMembers)
<1>1. RingInit => RingTypeOK /\ RingFollowsMembers
  BY RingAssumption, SMT DEF RingInit, RingTypeOK, RingFollowsMembers
<1>2. RingTypeOK /\ RingFollowsMembers /\ [RingNext]_ringVars => RingTypeOK' /\ RingFollowsMembers'
  BY RingStep, Zenon
<1> QED
  BY <1>1, <1>2, PTL DEF RingSpec

----------------------------------------------------------------------------
(* What a step may do to the key at one position. *)
Moves(pos) ==
  \/ preferred_node(ring', pos) = preferred_node(ring, pos)
  \/ preferred_node(ring', pos) \in nodes' \ nodes
  \/ preferred_node(ring, pos) \in nodes \ nodes'

(* A join moves a key to the new node or not at all. *)
LEMMA JoinMoves ==
  ASSUME RingTypeOK, NEW n \in Nodes, add_node(n), NEW pos \in Positions
  PROVE  Moves(pos)
<1>1. \A p \in Positions : ring'[p] = IF p \in Claims(n) THEN n ELSE ring[p]
  BY Zenon DEF add_node
<1>2. n # None
  BY RingAssumption, Zenon
<1>3. Taken(ring) \subseteq Taken(ring')
  BY <1>1, <1>2, Zenon DEF Taken
<1>4. n \in nodes' \ nodes
  BY Zenon DEF add_node
<1>5. CASE Taken(ring') = {}
  <2>1. Taken(ring) = {}
    BY <1>3, <1>5, Zenon
  <2> QED
    BY <2>1, <1>5, Zenon DEF Moves, preferred_node
<1>6. CASE Taken(ring') # {}
  <2> DEFINE next == Successor(ring', pos)
  <2>1. next \in Taken(ring')
    BY <1>6, SuccessorTaken, Zenon
  <2>2. preferred_node(ring', pos) = ring'[next] /\ next \in Positions
    BY <1>6, <2>1, Zenon DEF preferred_node, Taken
  <2>3. CASE next \in Claims(n)
    <3>1. preferred_node(ring', pos) = n
      BY <2>2, <2>3, <1>1, Zenon
    <3> QED
      BY <3>1, <1>4, Zenon DEF Moves
  <2>4. CASE next \notin Claims(n)
    <3>1. ring'[next] = ring[next]
      BY <2>2, <2>4, <1>1, Zenon
    <3>2. next \in Taken(ring)
      BY <3>1, <2>1, Zenon DEF Taken
    <3>3. Successor(ring, pos) = next
      BY <3>2, <1>3, SuccessorStable, Zenon
    <3>4. preferred_node(ring, pos) = ring[next]
      BY <3>2, <3>3, Zenon DEF preferred_node
    <3> QED
      BY <2>2, <3>1, <3>4, Zenon DEF Moves
  <2> QED
    BY <2>3, <2>4, Zenon
<1> QED
  BY <1>5, <1>6, Zenon

(* A departure moves the keys of the node that leaves and no others. *)
LEMMA LeaveMoves ==
  ASSUME RingTypeOK, NEW n \in Nodes, remove_node(n), NEW pos \in Positions
  PROVE  Moves(pos)
<1>1. \A p \in Positions : ring'[p] = IF ring[p] = n THEN None ELSE ring[p]
  BY Zenon DEF remove_node, Retain
<1>2. Taken(ring') \subseteq Taken(ring)
  BY <1>1, Zenon DEF Taken
<1>3. n \in nodes \ nodes'
  BY Zenon DEF remove_node
<1>4. CASE Taken(ring) = {}
  <2>1. Taken(ring') = {}
    BY <1>2, <1>4, Zenon
  <2> QED
    BY <2>1, <1>4, Zenon DEF Moves, preferred_node
<1>5. CASE Taken(ring) # {}
  <2> DEFINE next == Successor(ring, pos)
  <2>1. next \in Taken(ring)
    BY <1>5, SuccessorTaken, Zenon
  <2>2. preferred_node(ring, pos) = ring[next] /\ next \in Positions
    BY <1>5, <2>1, Zenon DEF preferred_node, Taken
  <2>3. CASE ring[next] = n
    BY <2>2, <2>3, <1>3, Zenon DEF Moves
  <2>4. CASE ring[next] # n
    <3>1. ring'[next] = ring[next]
      BY <2>2, <2>4, <1>1, Zenon
    <3>2. next \in Taken(ring')
      BY <3>1, <2>1, Zenon DEF Taken
    <3>3. Successor(ring', pos) = next
      BY <3>2, <1>2, SuccessorStable, Zenon
    <3>4. preferred_node(ring', pos) = ring'[next]
      BY <3>2, <3>3, Zenon DEF preferred_node
    <3> QED
      BY <2>2, <3>1, <3>4, Zenon DEF Moves
  <2> QED
    BY <2>3, <2>4, Zenon
<1> QED
  BY <1>4, <1>5, Zenon

(* Adding a node moves keys only to it, removing a node moves only its keys:
   for every ring, every hash function and every key. *)
THEOREM KeysMoveMinimally == RingSpec => MinimalMovement
<1>1. ASSUME RingTypeOK, [RingNext]_ringVars
      PROVE  [\A pos \in Positions : Moves(pos)]_ringVars
  BY <1>1, JoinMoves, LeaveMoves, Zenon DEF RingNext
<1>2. RingSpec => []RingTypeOK
  BY RingAgreement, PTL
<1>3. RingSpec => [][\A pos \in Positions : Moves(pos)]_ringVars
  BY <1>1, <1>2, PTL DEF RingSpec
<1> QED
  BY <1>3, Zenon DEF MinimalMovement, Moves

----------------------------------------------------------------------------
(* The loop of preferred_nodes *)

(* One turn of the loop: what is found after position i of the walk.       *)
Turn(r, pos, n, f, i) ==
  IF i = 0 THEN << >>
  ELSE LET found == f[i - 1]
           node  == r[WalkAt(pos, i)]
       IN  IF \/ node = None
              \/ node \in Range(found)
              \/ found # << >> /\ Len(found) >= n
           THEN found
           ELSE Append(found, node)

Loop(r, pos, n, f) == f = [i \in 0..WalkLength(pos) |-> Turn(r, pos, n, f, i)]

(* The walk visits positions only, and every position.                     *)
LEMMA WalkVisits ==
  ASSUME NEW pos \in Positions
  PROVE  /\ WalkLength(pos) \in Nat
         /\ \A i \in 1..WalkLength(pos) : WalkAt(pos, i) \in Positions
         /\ \A p \in Positions : \E i \in 1..WalkLength(pos) : WalkAt(pos, i) = p
<1>1. Size \in Nat /\ pos \in 0..Size - 1
  BY RingAssumption DEF Positions
<1>2. /\ WalkLength(pos) \in Nat
      /\ \A i \in 1..WalkLength(pos) : WalkAt(pos, i) \in Positions
  BY <1>1 DEF WalkLength, WalkAt, Positions
<1>3. ASSUME NEW p \in Positions  PROVE \E i \in 1..WalkLength(pos) : WalkAt(pos, i) = p
  <2> DEFINE i == Size - pos + p + 1
  <2>1. i \in 1..WalkLength(pos) /\ WalkAt(pos, i) = p
    BY <1>1, <1>3 DEF WalkLength, WalkAt, Positions
  <2> QED
    BY <2>1
<1> QED
  BY <1>2, <1>3

(* The recursion has a solution: a shortest walk for which it had none     *)
(* would extend one for which it has.                                      *)
LEMMA LoopExists ==
  ASSUME NEW r, NEW pos \in Positions, NEW n
  PROVE  \E f : Loop(r, pos, n, f)
<1> DEFINE W == WalkLength(pos)
           Part(m) == \E f : f = [i \in 0..m |-> Turn(r, pos, n, f, i)]
           S == {m \in 0..W : ~ Part(m)}
<1>1. W \in Nat
  BY WalkVisits
<1>2. Part(0)
  <2> DEFINE g == [i \in 0..0 |-> << >>]
  <2>1. \A i \in 0..0 : i = 0
    OBVIOUS
  <2>2. \A i \in 0..0 : g[i] = Turn(r, pos, n, g, i)
    BY <2>1, Zenon DEF Turn
  <2>3. g = [i \in 0..0 |-> Turn(r, pos, n, g, i)]
    BY <2>2, Zenon
  <2> QED
    BY <2>3, Zenon
<1>3. ASSUME NEW m \in Nat, Part(m)  PROVE Part(m + 1)
  <2>1. PICK f : f = [i \in 0..m |-> Turn(r, pos, n, f, i)]
    BY <1>3, Zenon
  <2> DEFINE g == [i \in 0..m + 1 |-> IF i = m + 1 THEN Turn(r, pos, n, f, i) ELSE f[i]]
  <2>2. ASSUME NEW i \in 0..m + 1  PROVE Turn(r, pos, n, g, i) = Turn(r, pos, n, f, i)
    <3>1. CASE i = 0
      BY <3>1, Zenon DEF Turn
    <3>2. CASE i # 0
      <4>1. i - 1 \in 0..m + 1 /\ i - 1 # m + 1
        BY <3>2
      <4>2. g[i - 1] = f[i - 1]
        BY <4>1, Zenon
      <4> HIDE DEF g
      <4> QED
        BY <4>2, Zenon DEF Turn
    <3> QED
      BY <3>1, <3>2, Zenon
  <2>3. ASSUME NEW i \in 0..m + 1  PROVE g[i] = Turn(r, pos, n, g, i)
    <3>1. CASE i = m + 1
      BY <2>2, <3>1, Zenon
    <3>2. CASE i # m + 1
      <4>1. i \in 0..m
        BY <3>2
      <4>2. f[i] = Turn(r, pos, n, f, i)
        BY <2>1, <4>1, Zenon
      <4> QED
        BY <2>2, <3>2, <4>2, Zenon
    <3> QED
      BY <3>1, <3>2, Zenon
  <2>4. g = [i \in 0..m + 1 |-> Turn(r, pos, n, g, i)]
    BY <2>3, Zenon
  <2> QED
    BY <2>4, Zenon
<1>4. S = {}
  <2> SUFFICES ASSUME S # {}  PROVE FALSE
    BY Zenon
  <2> HIDE DEF Part
  <2>1. S \subseteq Nat
    BY <1>1
  <2>2. PICK m \in S : \A q \in S : m <= q
    BY <2>1, LeastExists, Zenon
  <2>3. m \in Nat /\ m <= W /\ ~ Part(m) /\ m # 0
    BY <1>1, <1>2
  <2>4. m - 1 \in Nat /\ m - 1 \in 0..W /\ (m - 1) + 1 = m /\ ~ (m <= m - 1)
    BY <1>1, <2>3
  <2>5. Part(m - 1)
    BY <2>2, <2>4, Zenon
  <2>6. Part((m - 1) + 1)
    BY <1>3, <2>4, <2>5, Zenon
  <2> QED
    BY <2>3, <2>4, <2>6
<1>5. Part(W)
  <2>1. W \in 0..W
    BY <1>1
  <2> HIDE DEF Part, W
  <2> QED
    BY <1>4, <2>1, Zenon
<1> QED
  BY <1>5, Zenon DEF Loop

(* preferred_nodes returns what the loop has found at the end of the walk. *)
LEMMA LoopReturns ==
  ASSUME NEW r, NEW pos \in Positions, NEW n
  PROVE  \E f : Loop(r, pos, n, f) /\ preferred_nodes(r, pos, n) = f[WalkLength(pos)]
<1> DEFINE f == CHOOSE f : Loop(r, pos, n, f)
<1>1. Loop(r, pos, n, f)
  BY LoopExists, Zenon
<1>2. preferred_nodes(r, pos, n) = f[WalkLength(pos)]
  BY Zenon DEF preferred_nodes, Loop, Turn
<1> QED
  BY <1>1, <1>2, Zenon

Wanted(n) == IF n = 0 THEN 1 ELSE n

(* What the loop has found after i positions of the walk: distinct nodes,  *)
(* each where the walk first left the nodes found before it; and as long   *)
(* as it is not done, all the nodes it has met.                            *)
Collected(r, pos, n, i, found) ==
  /\ found \in Seq(Nodes)
  /\ \A a, b \in DOMAIN found : found[a] = found[b] => a = b
  /\ Len(found) <= Wanted(n)
  /\ Len(found) < Wanted(n) =>
       \A j \in 1..i : r[WalkAt(pos, j)] # None => r[WalkAt(pos, j)] \in Range(found)
  /\ \A k \in DOMAIN found : \E j \in 1..i :
       /\ r[WalkAt(pos, j)] = found[k]
       /\ \A h \in 1..j - 1 : \/ r[WalkAt(pos, h)] = None
                              \/ \E m \in 1..k - 1 : found[m] = r[WalkAt(pos, h)]

(* A turn that finds nothing new.                                          *)
LEMMA TurnKeeps ==
  ASSUME NEW r, NEW pos, NEW n \in Nat, NEW i \in Nat, i # 0, NEW found,
         Collected(r, pos, n, i - 1, found),
         \/ r[WalkAt(pos, i)] = None
         \/ r[WalkAt(pos, i)] \in Range(found)
         \/ ~ (Len(found) < Wanted(n))
  PROVE  Collected(r, pos, n, i, found)
<1>1. \A j \in 1..i : j \in 1..i - 1 \/ j = i
  OBVIOUS
<1>2. \A j \in 1..i - 1 : j \in 1..i
  OBVIOUS
<1>3. Len(found) < Wanted(n) =>
        \A j \in 1..i : r[WalkAt(pos, j)] # None => r[WalkAt(pos, j)] \in Range(found)
  BY <1>1, Zenon DEF Collected
<1>4. ASSUME NEW k \in DOMAIN found
      PROVE  \E j \in 1..i :
               /\ r[WalkAt(pos, j)] = found[k]
               /\ \A h \in 1..j - 1 : \/ r[WalkAt(pos, h)] = None
                                      \/ \E m \in 1..k - 1 : found[m] = r[WalkAt(pos, h)]
  BY <1>2, Zenon DEF Collected
<1> QED
  BY <1>3, <1>4, Zenon DEF Collected

(* A turn that finds a node.                                               *)
LEMMA TurnAdds ==
  ASSUME NEW r, NEW pos, NEW n \in Nat, NEW i \in Nat, i # 0, NEW found,
         Collected(r, pos, n, i - 1, found), r[WalkAt(pos, i)] \in Nodes,
         r[WalkAt(pos, i)] \notin Range(found), Len(found) < Wanted(n)
  PROVE  Collected(r, pos, n, i, Append(found, r[WalkAt(pos, i)]))
<1> DEFINE node == r[WalkAt(pos, i)]
           t == Append(found, node)
           L == Len(found)
<1>0. /\ found \in Seq(Nodes) /\ node \in Nodes /\ node \notin Range(found)
      /\ \A a, b \in DOMAIN found : found[a] = found[b] => a = b
  BY Zenon DEF Collected
<1>1. /\ L \in Nat /\ DOMAIN found = 1..L /\ t \in Seq(Nodes) /\ Len(t) = L + 1
      /\ DOMAIN t = 1..L + 1 /\ t[L + 1] = node /\ \A a \in 1..L : t[a] = found[a]
  <2> HIDE DEF node
  <2> QED
    BY <1>0
<1>2. \A a \in 1..L : found[a] # node
  BY <1>0, <1>1 DEF Range
<1> HIDE DEF t, node, L
<1>3. \A a, b \in DOMAIN t : t[a] = t[b] => a = b
  <2> SUFFICES ASSUME NEW a \in DOMAIN t, NEW b \in DOMAIN t, t[a] = t[b]
               PROVE  a = b
    BY Zenon
  <2>1. (a \in 1..L \/ a = L + 1) /\ (b \in 1..L \/ b = L + 1)
    BY <1>1
  <2> QED
    BY <1>0, <1>1, <1>2, <2>1
<1>4. Len(t) <= Wanted(n)
  BY <1>1 DEF Wanted, L
<1>5. \A j \in 1..i : j \in 1..i - 1 \/ j = i
  OBVIOUS
<1>6. \A j \in 1..i - 1 : r[WalkAt(pos, j)] # None => r[WalkAt(pos, j)] \in Range(found)
  BY Zenon DEF Collected
<1>7. \A x : x \in Range(t) <=> x \in Range(found) \/ x = node
  <2>1. \A a \in 1..L + 1 : a \in 1..L \/ a = L + 1
    BY <1>1
  <2>2. L + 1 \in 1..L + 1 /\ \A a \in 1..L : a \in 1..L + 1
    BY <1>1
  <2> QED
    BY <1>1, <2>1, <2>2 DEF Range
<1>8. \A j \in 1..i : r[WalkAt(pos, j)] # None => r[WalkAt(pos, j)] \in Range(t)
  BY <1>5, <1>6, <1>7, Zenon DEF node
<1>9. ASSUME NEW k \in DOMAIN t
      PROVE  \E j \in 1..i :
               /\ r[WalkAt(pos, j)] = t[k]
               /\ \A h \in 1..j - 1 : \/ r[WalkAt(pos, h)] = None
                                      \/ \E m \in 1..k - 1 : t[m] = r[WalkAt(pos, h)]
  <2>1. CASE k = L + 1
    <3>1. i \in 1..i /\ r[WalkAt(pos, i)] = t[k]
      BY <1>1, <2>1 DEF node
    <3>2. ASSUME NEW h \in 1..i - 1, r[WalkAt(pos, h)] # None
          PROVE  \E m \in 1..k - 1 : t[m] = r[WalkAt(pos, h)]
      <4>1. PICK m \in DOMAIN found : found[m] = r[WalkAt(pos, h)]
        BY <1>6, <3>2 DEF Range
      <4>2. m \in 1..k - 1 /\ t[m] = found[m]
        BY <1>1, <2>1
      <4> QED
        BY <4>1, <4>2
    <3> QED
      BY <3>1, <3>2, Zenon
  <2>2. CASE k # L + 1
    <3>1. k \in DOMAIN found /\ t[k] = found[k] /\ \A m \in 1..k - 1 : t[m] = found[m]
      BY <1>1, <2>2
    <3>2. PICK j \in 1..i - 1 :
               /\ r[WalkAt(pos, j)] = found[k]
               /\ \A h \in 1..j - 1 : \/ r[WalkAt(pos, h)] = None
                                      \/ \E m \in 1..k - 1 : found[m] = r[WalkAt(pos, h)]
      BY <3>1, Zenon DEF Collected
    <3>3. j \in 1..i
      OBVIOUS
    <3> QED
      BY <3>1, <3>2, <3>3, Zenon
  <2> QED
    BY <2>1, <2>2, Zenon
<1>10. Collected(r, pos, n, i, t)
  BY <1>1, <1>3, <1>4, <1>8, <1>9, Zenon DEF Collected
<1> QED
  BY <1>10, Zenon DEF t, node

(* The loop collects, all along the walk.                                  *)
LEMMA LoopCollects ==
  ASSUME NEW r \in [Positions -> Nodes \cup {None}], NEW pos \in Positions, NEW n \in Nat,
         NEW f, Loop(r, pos, n, f)
  PROVE  \A i \in 0..WalkLength(pos) : Collected(r, pos, n, i, f[i])
<1> DEFINE W == WalkLength(pos)
           S == {i \in 0..W : ~ Collected(r, pos, n, i, f[i])}
<1>1. W \in Nat /\ \A i \in 1..W : WalkAt(pos, i) \in Positions
  BY WalkVisits
<1>2. \A i \in 0..W : f[i] = Turn(r, pos, n, f, i)
  BY Zenon DEF Loop
<1>3. Collected(r, pos, n, 0, f[0])
  <2>1. f[0] = << >>
    <3>1. 0 \in 0..W
      BY <1>1
    <3> QED
      BY <1>2, <3>1, Zenon DEF Turn
  <2>2. Collected(r, pos, n, 0, << >>)
    BY DEF Collected, Wanted, Range
  <2> QED
    BY <2>1, <2>2, Zenon
<1>4. ASSUME NEW i \in 1..W, Collected(r, pos, n, i - 1, f[i - 1])
      PROVE  Collected(r, pos, n, i, f[i])
  <2> DEFINE found == f[i - 1]
             node == r[WalkAt(pos, i)]
  <2>1. i \in Nat /\ i # 0 /\ i \in 0..W
    BY <1>1
  <2>2. node \in Nodes \cup {None}
    BY <1>1, Zenon
  <2>3. found # << >> /\ Len(found) >= n <=> ~ (Len(found) < Wanted(n))
    <3>1. found \in Seq(Nodes)
      BY <1>4, Zenon DEF Collected
    <3> HIDE DEF found
    <3> QED
      BY <3>1 DEF Wanted
  <2>4. f[i] = IF node = None \/ node \in Range(found) \/ (found # << >> /\ Len(found) >= n)
               THEN found ELSE Append(found, node)
    BY <1>2, <2>1, Zenon DEF Turn
  <2>5. CASE node = None \/ node \in Range(found) \/ (found # << >> /\ Len(found) >= n)
    BY <1>4, <2>1, <2>3, <2>4, <2>5, TurnKeeps, Zenon
  <2>6. CASE ~ (node = None \/ node \in Range(found) \/ (found # << >> /\ Len(found) >= n))
    <3>1. node \in Nodes /\ node \notin Range(found) /\ Len(found) < Wanted(n)
      BY <2>2, <2>3, <2>6, Zenon
    <3>2. Collected(r, pos, n, i, Append(found, node))
      BY <1>4, <2>1, <3>1, TurnAdds, Zenon
    <3> QED
      BY <2>4, <2>6, <3>2, Zenon
  <2> QED
    BY <2>5, <2>6, Zenon
<1>5. S = {}
  <2> SUFFICES ASSUME S # {}  PROVE FALSE
    BY Zenon
  <2>1. S \subseteq Nat
    BY <1>1
  <2>2. PICK m \in S : \A q \in S : m <= q
    BY <2>1, LeastExists, Zenon
  <2>3. m \in 0..W /\ ~ Collected(r, pos, n, m, f[m])
    BY Zenon
  <2> HIDE DEF W
  <2>4. m # 0
    BY <1>3, <2>3, Zenon
  <2>5. m \in 1..W /\ m - 1 \in 0..W /\ ~ (m <= m - 1)
    BY <1>1, <2>3, <2>4
  <2>6. Collected(r, pos, n, m - 1, f[m - 1])
    BY <2>2, <2>5, Zenon
  <2> QED
    BY <1>4, <2>3, <2>5, <2>6, Zenon
<1> QED
  BY <1>5, Zenon

(* preferred_node names the node that the walk meets first.                *)
LEMMA FirstOnWalk ==
  ASSUME NEW r, NEW pos \in Positions, NEW j \in 1..WalkLength(pos),
         r[WalkAt(pos, j)] # None, \A h \in 1..j - 1 : r[WalkAt(pos, h)] = None
  PROVE  preferred_node(r, pos) = r[WalkAt(pos, j)]
<1> DEFINE q == WalkAt(pos, j)
           after == {p \in Taken(r) : p >= pos}
<1>0. Size \in Nat /\ pos \in 0..Size - 1 /\ WalkLength(pos) = (Size - pos) + Size
  BY RingAssumption DEF Positions, WalkLength
<1>1. q \in Taken(r) /\ Taken(r) \subseteq Positions
  BY WalkVisits, Zenon DEF Taken
<1>2. Successor(r, pos) = q
  <2>1. CASE j <= Size - pos
    <3>1. q = pos + j - 1
      BY <2>1, Zenon DEF WalkAt
    <3>2. q \in after
      BY <1>0, <1>1, <3>1
    <3>3. ASSUME NEW p \in after  PROVE q <= p
      <4> SUFFICES ASSUME p < q  PROVE FALSE
        BY <1>0, <3>1 DEF Taken, Positions
      <4> DEFINE h == p - pos + 1
      <4>1. p \in Nat /\ p >= pos /\ r[p] # None
        BY DEF Taken, Positions
      <4>2. h \in 1..j - 1 /\ WalkAt(pos, h) = p
        BY <1>0, <2>1, <3>1, <4>1 DEF WalkAt
      <4> QED
        BY <4>1, <4>2
    <3>4. after \subseteq Positions /\ after # {}
      BY <1>1, <3>2, Zenon
    <3> HIDE DEF q, after
    <3>5. Least(after) = q
      BY <3>2, <3>3, <3>4, LeastIs, Zenon
    <3> QED
      BY <3>4, <3>5, Zenon DEF Successor, after
  <2>2. CASE ~ (j <= Size - pos)
    <3>1. q = j - (Size - pos) - 1
      BY <2>2, Zenon DEF WalkAt
    <3>2. after = {}
      <4> SUFFICES ASSUME NEW p \in after  PROVE FALSE
        BY Zenon
      <4> DEFINE h == p - pos + 1
      <4>1. p \in 0..Size - 1 /\ p >= pos /\ r[p] # None
        BY DEF Taken, Positions
      <4>2. h \in 1..j - 1 /\ WalkAt(pos, h) = p
        BY <1>0, <2>2, <4>1 DEF WalkAt
      <4> QED
        BY <4>1, <4>2
    <3>3. ASSUME NEW p \in Taken(r)  PROVE q <= p
      <4> SUFFICES ASSUME p < q  PROVE FALSE
        BY <1>0, <3>1 DEF Taken, Positions
      <4> DEFINE h == Size - pos + p + 1
      <4>1. p \in 0..Size - 1 /\ r[p] # None
        BY DEF Taken, Positions
      <4>2. h \in 1..j - 1 /\ WalkAt(pos, h) = p
        BY <1>0, <2>2, <3>1, <4>1 DEF WalkAt
      <4> QED
        BY <4>1, <4>2
    <3> HIDE DEF q, after
    <3>4. Least(Taken(r)) = q
      BY <1>1, <3>3, LeastIs, Zenon
    <3> QED
      BY <3>2, <3>4, Zenon DEF Successor, after
  <2> QED
    BY <2>1, <2>2, Zenon
<1>3. Taken(r) # {}
  BY <1>1, Zenon
<1> QED
  BY <1>2, <1>3, Zenon DEF preferred_node

(* The smaller of two numbers.                                             *)
LEMMA LeastOfTwo ==
  ASSUME NEW x \in Nat, NEW y \in Nat, x <= y
  PROVE  Least({x, y}) = x /\ Least({y, x}) = x
<1> DEFINE P(p) == p \in {x, y} /\ \A q \in {x, y} : p <= q
           c == CHOOSE p : P(p)
<1>1. P(x) /\ \A p : P(p) => p = x
  <2>1. x <= x
    OBVIOUS
  <2>2. \A p \in {x, y} : p <= x => p = x
    OBVIOUS
  <2> QED
    BY <2>1, <2>2, Zenon
<1>2. {x, y} = {y, x}
  BY Zenon
<1>3. Least({x, y}) = x
  <2>1. P(Least({x, y}))
    BY <1>1, Zenon DEF Least
  <2> QED
    BY <1>1, <2>1, Zenon
<1> QED
  BY <1>2, <1>3, Zenon

(* Replica i is where the key goes when the ones before it have left.      *)
IsReplica(r, pos, found, i) ==
  LET gone == {found[j] : j \in 1..(i - 1)}
  IN  /\ found[i] \notin gone \cup {None}
      /\ found[i] = preferred_node(Retain(r, gone), pos)

(* The replicas that the loop has collected at the end of the walk.        *)
LEMMA CollectedReplicas ==
  ASSUME NEW r \in [Positions -> Nodes \cup {None}], NEW pos \in Positions, NEW n \in Nat,
         NEW found, Collected(r, pos, n, WalkLength(pos), found), NEW i \in DOMAIN found
  PROVE  IsReplica(r, pos, found, i)
<1> DEFINE gone == {found[j] : j \in 1..(i - 1)}
           s == Retain(r, gone)
<1>1. /\ found \in Seq(Nodes) /\ \A a, b \in DOMAIN found : found[a] = found[b] => a = b
  BY Zenon DEF Collected
<1>2. found[i] \notin gone /\ found[i] # None
  <2>1. \A j \in 1..i - 1 : j \in DOMAIN found /\ j # i
    BY <1>1
  <2>2. found[i] \in Nodes
    BY <1>1
  <2> QED
    BY <1>1, <2>1, <2>2, RingAssumption
<1>3. PICK j \in 1..WalkLength(pos) :
           /\ r[WalkAt(pos, j)] = found[i]
           /\ \A h \in 1..j - 1 : \/ r[WalkAt(pos, h)] = None
                                  \/ \E m \in 1..i - 1 : found[m] = r[WalkAt(pos, h)]
  BY Zenon DEF Collected
<1>4. \A h \in 1..j : WalkAt(pos, h) \in Positions
  <2>1. \A h \in 1..j : h \in 1..WalkLength(pos)
    BY WalkVisits
  <2> QED
    BY <2>1, WalkVisits, Zenon
<1>5. \A h \in 1..j : s[WalkAt(pos, h)] =
        IF r[WalkAt(pos, h)] \in gone THEN None ELSE r[WalkAt(pos, h)]
  BY <1>4, Zenon DEF Retain
<1>6. j \in 1..j /\ \A h \in 1..j - 1 : h \in 1..j
  BY WalkVisits
<1> HIDE DEF s
<1>7. s[WalkAt(pos, j)] = found[i]
  BY <1>2, <1>3, <1>5, <1>6, Zenon
<1>8. \A h \in 1..j - 1 : s[WalkAt(pos, h)] = None
  <2>1. \A h \in 1..j - 1 : r[WalkAt(pos, h)] = None \/ r[WalkAt(pos, h)] \in gone
    BY <1>3, Zenon
  <2> QED
    BY <1>5, <1>6, <2>1, Zenon
<1>9. preferred_node(s, pos) = found[i]
  BY <1>2, <1>7, <1>8, FirstOnWalk, Zenon
<1> QED
  BY <1>2, <1>9, Zenon DEF s, IsReplica

LEMMA CollectedEnough ==
  ASSUME NEW r \in [Positions -> Nodes \cup {None}], NEW pos \in Positions, NEW n \in Nat,
         NEW found, Collected(r, pos, n, WalkLength(pos), found)
  PROVE  Len(found) = Least({Cardinality({r[p] : p \in Taken(r)}), Wanted(n)})
<1> DEFINE H == {r[p] : p \in Taken(r)}
           L == Len(found)
<1>1. found \in Seq(Nodes) /\ \A a, b \in DOMAIN found : found[a] = found[b] => a = b
  BY Zenon DEF Collected
<1>2. L \in Nat /\ DOMAIN found = 1..L /\ \A a \in 1..L : found[a] \in Nodes
  BY <1>1
<1>3. H \subseteq Nodes
  BY DEF Taken
<1>4. IsFiniteSet(H) /\ Cardinality(H) \in Nat
  <2>1. IsFiniteSet(H)
    <3> HIDE DEF H
    <3> QED
      BY <1>3, FS_Subset, RingAssumption, Zenon
  <2> QED
    BY <2>1, FS_CardinalityType, Zenon
<1>5. ASSUME NEW a \in 1..L  PROVE found[a] \in H
  <2>1. PICK j \in 1..WalkLength(pos) : r[WalkAt(pos, j)] = found[a]
    BY <1>2, Zenon DEF Collected
  <2>2. WalkAt(pos, j) \in Positions
    BY WalkVisits, Zenon
  <2>3. found[a] # None
    BY <1>2, RingAssumption
  <2>4. WalkAt(pos, j) \in Taken(r)
    BY <2>1, <2>2, <2>3, Zenon DEF Taken
  <2> QED
    BY <2>1, <2>4, Zenon
<1> HIDE DEF H, L
<1>6. found \in Injection(1..L, H)
  <2>1. found = [a \in 1..L |-> found[a]]
    BY <1>1, <1>2
  <2>2. found \in [1..L -> H]
    BY <1>5, <2>1
  <2> QED
    BY <1>1, <1>2, <2>2, Zenon DEF Injection, IsInjective
<1>7. Cardinality(1..L) = L
  <2>1. 1 \in Int /\ L \in Int
    BY <1>2
  <2>2. Cardinality(1..L) = IF 1 > L THEN 0 ELSE L - 1 + 1
    BY <2>1, FS_Interval, Zenon
  <2> QED
    BY <1>2, <2>2
<1>8. L <= Cardinality(H) /\ (found \in Surjection(1..L, H) => L = Cardinality(H))
  <2>1. /\ Cardinality(1..L) <= Cardinality(H)
        /\ Cardinality(1..L) = Cardinality(H) <=> found \in Surjection(1..L, H)
    BY <1>4, <1>6, FS_Injection, Zenon
  <2> QED
    BY <1>7, <2>1, Zenon
<1>9. Wanted(n) \in Nat /\ L <= Wanted(n)
  <2>1. L <= Wanted(n)
    BY Zenon DEF Collected, L
  <2> QED
    BY <2>1 DEF Wanted
<1>10. CASE L < Wanted(n)
  <2>1. \A x \in H : \E a \in 1..L : found[a] = x
    <3> SUFFICES ASSUME NEW p \in Taken(r)  PROVE \E a \in 1..L : found[a] = r[p]
      BY Zenon DEF H
    <3>1. p \in Positions /\ r[p] # None
      BY Zenon DEF Taken
    <3>2. PICK j \in 1..WalkLength(pos) : WalkAt(pos, j) = p
      BY <3>1, WalkVisits, Zenon
    <3>3. r[p] \in Range(found)
      BY <1>10, <3>1, <3>2, Zenon DEF Collected, L
    <3> QED
      BY <1>2, <3>3 DEF Range
  <2>2. found \in Surjection(1..L, H)
    BY <1>6, <2>1, Zenon DEF Surjection, Injection
  <2>3. L = Cardinality(H) /\ Cardinality(H) <= Wanted(n)
    BY <1>8, <1>9, <2>2
  <2> QED
    BY <1>4, <1>9, <2>3, LeastOfTwo, Zenon DEF H, L
<1>11. CASE ~ (L < Wanted(n))
  <2>1. L = Wanted(n) /\ Wanted(n) <= Cardinality(H)
    BY <1>2, <1>8, <1>9, <1>11
  <2> QED
    BY <1>4, <1>9, <2>1, LeastOfTwo, Zenon DEF H, L
<1> QED
  BY <1>10, <1>11, Zenon

(* ReplicasAreSuccessors: preferred_nodes names each replica as the node   *)
(* that preferred_node would name if the ones before it had left, and as   *)
(* many as asked for or as there are; for every ring and every key.        *)
THEOREM ReplicasFollow == RingSpec => []ReplicasAreSuccessors
<1>1. RingTypeOK => ReplicasAreSuccessors
  <2> SUFFICES ASSUME RingTypeOK, NEW pos \in Positions, NEW n \in 0..(Cardinality(Nodes) + 1)
               PROVE  LET replicas == preferred_nodes(ring, pos, n)
                          holders  == {ring[p] : p \in Taken(ring)}
                      IN  /\ \A i \in DOMAIN replicas :
                               LET gone == {replicas[j] : j \in 1..(i - 1)}
                               IN  /\ replicas[i] \notin gone \cup {None}
                                   /\ replicas[i] = preferred_node(Retain(ring, gone), pos)
                          /\ Len(replicas) = Least({Cardinality(holders), IF n = 0 THEN 1 ELSE n})
    BY Zenon DEF ReplicasAreSuccessors
  <2>1. n \in Nat /\ ring \in [Positions -> Nodes \cup {None}]
    <3>1. Cardinality(Nodes) \in Nat
      BY FS_CardinalityType, RingAssumption, Zenon
    <3> QED
      BY <3>1 DEF RingTypeOK
  <2> DEFINE replicas == preferred_nodes(ring, pos, n)
  <2>2. Collected(ring, pos, n, WalkLength(pos), replicas)
    <3>1. PICK f : Loop(ring, pos, n, f) /\ replicas = f[WalkLength(pos)]
      BY LoopReturns, Zenon
    <3>2. WalkLength(pos) \in 0..WalkLength(pos)
      BY WalkVisits
    <3> HIDE DEF replicas
    <3>3. Collected(ring, pos, n, WalkLength(pos), f[WalkLength(pos)])
      BY <2>1, <3>1, <3>2, LoopCollects, Zenon
    <3> QED
      BY <3>1, <3>3, Zenon
  <2> HIDE DEF replicas
  <2>3. \A i \in DOMAIN replicas : IsReplica(ring, pos, replicas, i)
    BY <2>1, <2>2, CollectedReplicas, Zenon
  <2>4. Len(replicas) = Least({Cardinality({ring[p] : p \in Taken(ring)}), Wanted(n)})
    BY <2>1, <2>2, CollectedEnough, Zenon
  <2> QED
    BY <2>3, <2>4, Zenon DEF replicas, Wanted, IsReplica
<1> QED
  BY <1>1, RingAgreement, PTL
=============================================================================
