-------------------------------- MODULE Shutdown --------------------------------
(***************************************************************************)
(* Replication with replicators that are stopped (src/replicator.cpp): stop *)
(* sends a last tick, on which the buffer is flushed, and an exit message,  *)
(* on which the actor ends; in between it handles what else has arrived.    *)
(* The other nodes are told by their middleman and go on without it.        *)
(*                                                                          *)
(* The losses of Replication are left out, so that what stopping loses can  *)
(* be told: here only messages to a stopped replicator are lost.            *)
(***************************************************************************)
EXTENDS Replication

CONSTANT MaxStops  \* bound: replicators that are stopped

ASSUME StopsAreNat == MaxStops \in Nat

VARIABLES
  running,  \* the nodes whose replicator has been started and has not ended
  ending,   \* those whose last tick is handled and whose exit message is not
  owed      \* history: owed[n][m], what n's client published while n knew m

stopVars == <<running, ending, owed>>
allVars == <<vars, stopVars>>

\* start has the replicators running on all nodes.
StopInit ==
  /\ Init
  /\ running = Node
  /\ ending = {}
  /\ owed = [n \in Node |-> [m \in Node |-> EmptyMap]]

--------------------------------------------------------------------------------

\* Fault: stop sends the exit message alone.
ExitOnly(n) == UNCHANGED vars

\* The handling of the last tick.
LastTick(n) == FlushBuffer(n)

\* The replicator handles the tick_buffer_atom that stop sends; the exit message is
\* behind it in the mailbox.
Stop(n) ==
  /\ n \notin ending
  /\ Cardinality(ending \cup (Node \ running)) < MaxStops
  /\ LastTick(n)
  /\ ending' = ending \cup {n}
  /\ UNCHANGED <<running, owed>>

\* It handles the exit message and ends, with what its buffer holds by now.
End(n) ==
  /\ n \in ending
  /\ outbox' = [outbox EXCEPT ![n] = EmptyMap]
  /\ running' = running \ {n}
  /\ ending' = ending \ {n}
  /\ UNCHANGED <<type, localVars, view, wire, updates, faults, owed>>

\* The entries that the client of n changes in this step.
Changed(n) ==
  [k \in {j \in DOMAIN object'[n] : j \in DOMAIN object[n] => object[n][j] # object'[n][j]}
     |-> object'[n][k]]

\* A change by the client of n, which n then owes to the nodes it knows; but after
\* its last tick it owes nothing.
ClientChange(n) ==
  /\ Increment(n) \/ Set(n)
  /\ owed' = [owed EXCEPT ![n] =
                [m \in Node |-> IF m \in view[n] /\ n \notin ending
                               THEN Merge(@[m], Changed(n)) ELSE @[m]]]
  /\ UNCHANGED <<running, ending>>

\* connection_lost_cb at n for the stopped m.
PeerStopped(n, m) ==
  /\ m \in view[n] \ running
  /\ view' = [view EXCEPT ![n] = @ \ {m}]
  /\ UNCHANGED <<type, localVars, outbox, wire, updates, faults, stopVars>>

\* Messages to the stopped n end nowhere.
Vanish(n) ==
  /\ n \notin running
  /\ wire' = {msg \in wire : msg.to # n}
  /\ UNCHANGED <<type, localVars, outbox, view, updates, faults, stopVars>>

\* A step of Replication on the running n.
Runs(n, step) == n \in running /\ step /\ UNCHANGED stopVars

StopNext ==
  \/ \E n \in running : ClientChange(n) \/ Stop(n) \/ End(n)
  \/ \E n \in Node : Runs(n, WriteLocal(n) \/ OnNode(n)) \/ Vanish(n)
  \/ \E n \in Node : \E m \in running : Runs(n, Find(n, m))
  \/ \E n \in running : \E m \in Node : PeerStopped(n, m)

StopSpec == StopInit /\ [][StopNext]_allVars

\* As in Replication, while a replicator runs.  Messages arrive or vanish, the exit
\* message is handled, and the middleman notices that a node has left.
StopFairness ==
  /\ \A n \in Node : /\ WF_allVars(Runs(n, TickNotify(n)))
                     /\ WF_allVars(Runs(n, TickState(n)))
                     /\ WF_allVars(Runs(n, TickBuffer(n)))
                     /\ WF_allVars(Vanish(n))
                     /\ WF_allVars(End(n))
  /\ \A n \in Node : \A m \in Peer[n] :
       /\ WF_allVars(Runs(m, OnUpdatesFrom(m, n)))
       /\ WF_allVars(m \in running /\ Runs(n, Find(n, m)))
       /\ WF_allVars(n \in running /\ PeerStopped(n, m))

FairStopSpec == StopSpec /\ StopFairness

--------------------------------------------------------------------------------

\* What a client publishes before the last tick of its replicator gets to every node
\* that is known there: it has arrived, is on its way, or waits for a flush that the
\* exit does not come before.  What is published between the last tick and the exit
\* has no such promise: it may end with the buffer.
NothingIsLeftBehind ==
  \A n \in Node : \A m \in running : \A k \in DOMAIN owed[n][m] :
    \/ owed[n][m][k] <= At(cvrdt[m], k)
    \/ \E msg \in wire : msg.from = n /\ msg.to = m /\ owed[n][m][k] <= At(msg.map, k)
    \/ /\ n \in running \ ending /\ m \in view[n]
       /\ owed[n][m][k] <= At(outbox[n], k)

\* Those who stay converge, also with what a stopped node has sent to one of them
\* only and with what comes from a node that they have no handle of.
RunningPeersConverge ==
  \A n \in Node : \A m \in Peer[n] :
    <>[]({n, m} \subseteq running
           => \A k \in Slot : At(cvrdt[n], k) <= At(object[m], k))

================================================================================
