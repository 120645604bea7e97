--------------------------- MODULE ConnectionPool ---------------------------
(***************************************************************************)
(* The connection pool of crates/cmx-transport/src/pool.rs over the mock   *)
(* transport of mock.rs.  The pool's cache and the transport's table of    *)
(* connections are two maps with locks of their own, and callers change    *)
(* one after the other; a background health check compares them.           *)
(*                                                                         *)
(* A task runs one call at a time: pc[t] is its next step and peer[t] the  *)
(* peer it is about.  lock is the writer that holds the RwLock of the      *)
(* transport's table.  Readers of that table, and readers and writers of   *)
(* the remote memory, await nothing while they hold their lock, so what    *)
(* they do under it is one step.                                           *)
(* The values of the maps are constant, so all are sets of peers.          *)
(***************************************************************************)
CONSTANTS Tasks, Peers, Nobody

ASSUME PoolAssumption == Nobody \notin Tasks \cup Peers

VARIABLES cached,         \* ConnectionPool::connections
          connected,      \* MockTransport::connections
          lock,
          remote_memory,  \* peers whose memory has been written
          pc, peer,
          crossed,        \* history: the tasks whose get_or_connect has run
                          \* beside a disconnect of its peer, or vice versa
          unseen,         \* health check: peers its iteration has not passed
          suspects,       \* health check: peers to examine
          stale           \* health check: the peer it found stale, or Nobody

tables == <<cached, connected, lock, remote_memory>>
health == <<unseen, suspects, stale>>
calls == <<pc, peer, crossed>>
poolVars == <<tables, calls, health>>

Connects == {"connect", "connecting", "cache"}
Disconnects == {"disconnect", "disconnecting"}

PoolInit ==
  /\ cached = {} /\ connected = {} /\ lock = Nobody /\ remote_memory = {}
  /\ pc = [t \in Tasks |-> "idle"]
  /\ peer = [t \in Tasks |-> Nobody]
  /\ crossed = {}
  /\ unseen = {} /\ suspects = {} /\ stale = Nobody

At(t, label) == pc[t] = label

Goto(t, label) == pc' = [pc EXCEPT ![t] = label]

(* A call about p starts; it crosses the calls about p at the labels against. *)
Begin(t, p, label, against) ==
  /\ At(t, "idle")
  /\ Goto(t, label)
  /\ peer' = [peer EXCEPT ![t] = p]
  /\ LET others == {u \in Tasks : peer[u] = p /\ pc[u] \in against}
     IN  crossed' = crossed \cup others \cup {u \in {t} : others # {}}
  /\ UNCHANGED health

Return(t) ==
  /\ Goto(t, "idle")
  /\ peer' = [peer EXCEPT ![t] = Nobody]
  /\ crossed' = crossed \ {t}

----------------------------------------------------------------------------
(* get_or_connect of a peer in the cache returns at once and is not a step;
   otherwise the transport connects, which the mock never refuses, and then
   the pool caches the peer. *)
get_or_connect(t, p) ==
  /\ p \notin cached
  /\ Begin(t, p, "connect", Disconnects)
  /\ UNCHANGED tables

(* Mutant of disconnect: the peer stays in the cache. *)
disconnect_cached(t, p) ==
  /\ Begin(t, p, "disconnect", Connects)
  /\ UNCHANGED tables

(* disconnect: out of the cache first. *)
disconnect(t, p) ==
  /\ Begin(t, p, "disconnect", Connects)
  /\ cached' = cached \ {p}
  /\ UNCHANGED <<connected, lock, remote_memory>>

(* connections.write().await *)
WriteLock(t) ==
  /\ pc[t] \in {"connect", "disconnect"}
  /\ lock = Nobody
  /\ lock' = t
  /\ Goto(t, IF At(t, "connect") THEN "connecting" ELSE "disconnecting")
  /\ UNCHANGED <<cached, connected, remote_memory, peer, crossed, health>>

(* Mutant of Connect: the guard is not dropped. *)
ConnectKeepsLock(t) ==
  /\ At(t, "connecting")
  /\ connected' = connected \cup {peer[t]}
  /\ Goto(t, "cache")
  /\ UNCHANGED <<cached, lock, remote_memory, peer, crossed, health>>

Connect(t) ==
  /\ At(t, "connecting")
  /\ connected' = connected \cup {peer[t]}
  /\ lock' = Nobody
  /\ Goto(t, "cache")
  /\ UNCHANGED <<cached, remote_memory, peer, crossed, health>>

(* Mutant of Disconnect: an unknown peer is tried again. *)
DisconnectRetries(t) ==
  /\ At(t, "disconnecting")
  /\ connected' = connected \ {peer[t]}
  /\ lock' = Nobody
  /\ IF peer[t] \in connected THEN Return(t) ELSE Goto(t, "disconnect") /\ UNCHANGED <<peer, crossed>>
  /\ UNCHANGED <<cached, remote_memory, health>>

(* Mutant of Disconnect: the connection is left in the table. *)
DisconnectLeaves(t) ==
  /\ At(t, "disconnecting")
  /\ lock' = Nobody
  /\ Return(t)
  /\ UNCHANGED <<cached, connected, remote_memory, health>>

(* Whether the peer was there decides the result, PeerNotFound if not. *)
Disconnect(t) ==
  /\ At(t, "disconnecting")
  /\ connected' = connected \ {peer[t]}
  /\ lock' = Nobody
  /\ Return(t)
  /\ UNCHANGED <<cached, remote_memory, health>>

CacheInsert(t) ==
  /\ At(t, "cache")
  /\ cached' = cached \cup {peer[t]}
  /\ Return(t)
  /\ UNCHANGED <<connected, lock, remote_memory, health>>

read(t, p) == Begin(t, p, "read", {}) /\ UNCHANGED tables

write(t, p) == Begin(t, p, "write", {}) /\ UNCHANGED tables

(* connections.read().await: without the peer the call ends in PeerNotFound,
   otherwise the lock is given up before the memory is touched. *)
ReadLock(t) ==
  /\ pc[t] \in {"read", "write"}
  /\ lock = Nobody
  /\ \/ /\ peer[t] \in connected
        /\ Goto(t, IF At(t, "read") THEN "reading" ELSE "writing")
        /\ UNCHANGED <<peer, crossed>>
     \/ /\ peer[t] \notin connected
        /\ Return(t)
  /\ UNCHANGED <<tables, health>>

ReadMemory(t) ==
  /\ At(t, "reading")
  /\ peer[t] \in remote_memory
  /\ Return(t)
  /\ UNCHANGED <<tables, health>>

(* Nothing was written there: TransferFailed. *)
ReadFails(t) ==
  /\ At(t, "reading")
  /\ peer[t] \notin remote_memory
  /\ Return(t)
  /\ UNCHANGED <<tables, health>>

WriteMemory(t) ==
  /\ At(t, "writing")
  /\ remote_memory' = remote_memory \cup {peer[t]}
  /\ Return(t)
  /\ UNCHANGED <<cached, connected, lock, health>>

----------------------------------------------------------------------------
(* A tick of the interval.  The keys of the cache are collected shard by shard,
   here peer by peer. *)
HealthTick ==
  /\ unseen = {} /\ suspects = {} /\ stale = Nobody
  /\ unseen' = Peers
  /\ UNCHANGED <<tables, calls, suspects, stale>>

HealthCollect(p) ==
  /\ p \in unseen
  /\ unseen' = unseen \ {p}
  /\ suspects' = IF p \in cached THEN suspects \cup {p} ELSE suspects
  /\ UNCHANGED <<tables, calls, stale>>

(* try_read: while a writer has the lock every peer is reported missing. *)
transport_type(p) == p \in connected /\ lock = Nobody

(* Mutant of HealthExamine: healthy connections are dropped. *)
HealthExamineInverted(p) ==
  /\ unseen = {} /\ stale = Nobody
  /\ p \in suspects
  /\ suspects' = suspects \ {p}
  /\ stale' = IF transport_type(p) THEN p ELSE Nobody
  /\ UNCHANGED <<tables, calls, unseen>>

HealthExamine(p) ==
  /\ unseen = {} /\ stale = Nobody
  /\ p \in suspects
  /\ suspects' = suspects \ {p}
  /\ stale' = IF transport_type(p) THEN Nobody ELSE p
  /\ UNCHANGED <<tables, calls, unseen>>

HealthRemove ==
  /\ stale # Nobody
  /\ cached' = cached \ {stale}
  /\ stale' = Nobody
  /\ UNCHANGED <<connected, lock, remote_memory, calls, unseen, suspects>>

HealthStep ==
  \/ HealthTick \/ HealthRemove
  \/ \E p \in Peers : HealthCollect(p) \/ HealthExamine(p)

TakeLock(t) == WriteLock(t) \/ ReadLock(t)

CallStep(t) ==
  \/ Connect(t) \/ Disconnect(t) \/ CacheInsert(t)
  \/ ReadMemory(t) \/ ReadFails(t) \/ WriteMemory(t)

PoolNext ==
  \/ \E t \in Tasks :
       \/ \E p \in Peers :
            get_or_connect(t, p) \/ disconnect(t, p) \/ read(t, p) \/ write(t, p)
       \/ TakeLock(t) \/ CallStep(t)
  \/ HealthStep

(* The runtime polls every task and the interval keeps ticking.  tokio's lock
   serves its waiters in order, so a call that waits gets it although
   others keep taking it: strong fairness. *)
PoolSpec ==
  /\ PoolInit
  /\ [][PoolNext]_poolVars
  /\ \A t \in Tasks : SF_poolVars(TakeLock(t)) /\ WF_poolVars(CallStep(t))
  /\ WF_poolVars(HealthStep)

----------------------------------------------------------------------------
(* The variables have their types, and the lock has an owner exactly while a
   task is about to change the transport's table. *)
PoolTypeOK ==
  /\ cached \cup connected \cup remote_memory \cup unseen \cup suspects \subseteq Peers
  /\ stale \in Peers \cup {Nobody}
  /\ pc \in [Tasks -> Connects \cup Disconnects
                        \cup {"idle", "read", "reading", "write", "writing"}]
  /\ peer \in [Tasks -> Peers \cup {Nobody}]
  /\ crossed \subseteq Tasks
  /\ \A t \in Tasks :
       /\ At(t, "idle") <=> peer[t] = Nobody
       /\ lock = t <=> pc[t] \in {"connecting", "disconnecting"}

(* Calls return: neither the lock nor the health check holds up a caller for
   ever. *)
CallsReturn == \A t \in Tasks : ~At(t, "idle") ~> At(t, "idle")

Stale(p) == p \in cached /\ p \notin connected

(* The health check "removes stale connections": a peer that is cached and not
   connected leaves the cache or is connected again, however calls of
   get_or_connect and disconnect cross. *)
StaleConnectionsLeave == \A p \in Peers : Stale(p) ~> ~Stale(p)

(* A connection goes stale only at the end of a call that a call of the other
   kind about the same peer has run beside: the transport drops a peer that
   was cached again while the disconnect waited, or get_or_connect caches a
   peer that was dropped after it had connected it.  Calls about one peer that
   do not overlap leave the cache and the transport's table in agreement. *)
StaleByCrossingOnly ==
  [][\A p \in Peers : ~Stale(p) /\ Stale(p)' =>
       \E t \in crossed : /\ peer[t] = p /\ pc[t] \in {"disconnecting", "cache"}
                          /\ pc'[t] = "idle"]_poolVars

(* Connected, not cached, and no call under way that will cache the peer or
   disconnect it: a connection of the transport that the pool forgot. *)
Forgotten(p) ==
  /\ p \in connected /\ p \notin cached
  /\ \A t \in Tasks : peer[t] = p => pc[t] \notin Disconnects \cup {"cache"}

(* The pool forgets a connection only when the health check removes a peer that
   it found missing: one that was connected since, or one it could not look up
   because a writer had the transport's lock.  get_or_connect and disconnect
   leave no such connection behind, however they cross. *)
ForgottenByHealthCheckOnly ==
  [][\A p \in Peers : ~Forgotten(p) /\ Forgotten(p)' => HealthRemove /\ stale = p]_poolVars
=============================================================================
