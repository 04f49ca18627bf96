------------------------------ MODULE Replication ------------------------------
(***************************************************************************)
(* The replication of one id over all nodes: the replica of every node      *)
(* (caf/crdt/detail/replica.hpp), the buffer of its distribution layer      *)
(* (detail/distribution_layer.hpp), the ticks of the replicator             *)
(* (src/replicator_actor.cpp) and a client with a state object of type      *)
(* gcounter or gmap.                                                        *)
(*                                                                          *)
(* Left to the other modules: how nodes learn each other's ids              *)
(* (DistributionLayer; here a node may learn of a node, and forget it, at   *)
(* any time), clients that come and go and replicas that are deleted        *)
(* (Replica; here every node has a subscribed client).  Inside a node        *)
(* messages are neither lost nor overtaken, and merging is indifferent to   *)
(* how long they take: the way of an update from the client through the     *)
(* replicator to the replica is one step, and so is that of a notification. *)
(***************************************************************************)
EXTENDS Naturals, FiniteSets, GrowOnlyTypes

CONSTANTS
  Node,         \* nodes; also stands for their clients, the owners of counters
  Peer,         \* Peer[n] : the nodes of which n may get a handle
  Key,          \* keys of the gmap
  Value,        \* values of the gmap and counts
  MaxInFlight,  \* bound: unhandled messages when a timer sends another one
  MaxUpdates,   \* bound: changes by clients
  MaxFaults     \* bound: lost connections and messages

ASSUME NodesAreFinite == IsFiniteSet(Node)
ASSUME PeersAreNodes == Peer \in [Node -> SUBSET Node]
ASSUME ValuesAreNat == Value \subseteq Nat
ASSUME BoundsAreNat == {MaxInFlight, MaxUpdates, MaxFaults} \subseteq Nat

VARIABLES
  type,     \* T
  object,   \* object[n] : map_ of the client's state object on n
  cvrdt,    \* cvrdt[n] : cvrdt_ of the replica on n
  buffer,   \* buffer[n] : buffer_, the changes n's client does not know
  outbox,   \* outbox[n] : buffer_ of the distribution layer
  view,     \* view[n] : nodes that n knows to be interested in the id
  wire,     \* messages between the replicators
  updates,  \* the number of changes by clients
  faults    \* the number of lost connections and messages

localVars == <<object, cvrdt, buffer>>
vars == <<type, localVars, outbox, view, wire, updates, faults>>

Slot == Key \cup Node

Map == UNION {[K -> Value] : K \in SUBSET Slot}

\* A node sends a vector of messages, which the receiver merges first; what is
\* buffered or sent is here the map they merge to.
Message == [from : Node, to : Node, map : Map]

TypeOK ==
  /\ type \in {"gcounter", "gmap"}
  /\ object \in [Node -> Map]
  /\ cvrdt \in [Node -> Map]
  /\ buffer \in [Node -> Map]
  /\ outbox \in [Node -> Map]
  /\ view \in [Node -> SUBSET Node]
  /\ wire \in SUBSET Message
  /\ updates \in 0 .. MaxUpdates
  /\ faults \in 0 .. MaxFaults

Init ==
  /\ type \in {"gcounter", "gmap"}
  /\ object = [n \in Node |-> EmptyMap]
  /\ cvrdt = [n \in Node |-> EmptyMap]
  /\ buffer = [n \in Node |-> EmptyMap]
  /\ outbox = [n \in Node |-> EmptyMap]
  /\ view = [n \in Node |-> {}]
  /\ wire = {}
  /\ updates = 0
  /\ faults = 0

--------------------------------------------------------------------------------
(***************************************************************************)
(* The replica.                                                             *)
(***************************************************************************)

\* merge, as T has it.
Delta(this, other) ==
  IF type = "gcounter" THEN GCounterDelta(this, other) ELSE GMapDelta(this, other)

\* Fault: the delta buffer gets the delta in place of what it had.
OnPublishReplacing(n, map) ==
  /\ cvrdt' = [cvrdt EXCEPT ![n] = Merge(@, map)]
  /\ buffer' = [buffer EXCEPT ![n] = Delta(cvrdt[n], map)]

\* publish_atom: what cvrdt_ did not include goes into the delta buffer.
OnPublish(n, map) ==
  /\ cvrdt' = [cvrdt EXCEPT ![n] = Merge(@, map)]
  /\ buffer' = [buffer EXCEPT ![n] = Merge(@, Delta(cvrdt[n], map))]

\* notify_atom, the tick of the replica: the client merges the delta buffer.
TickNotify(n) ==
  /\ object' = [object EXCEPT ![n] = Merge(@, buffer[n])]
  /\ buffer' = [buffer EXCEPT ![n] = EmptyMap]
  /\ UNCHANGED <<type, cvrdt, outbox, view, wire, updates, faults>>

--------------------------------------------------------------------------------
(***************************************************************************)
(* Clients.                                                                 *)
(***************************************************************************)

Updates(n, k, v) ==
  /\ updates < MaxUpdates
  /\ updates' = updates + 1
  /\ OnPublish(n, Entry(k, v))
  /\ UNCHANGED <<type, view, wire, faults>>

\* The object changes an entry and publishes it; the replicator adds it to its
\* buffer and forwards it to the replica.
Publish(n, k, v) ==
  /\ Updates(n, k, v)
  /\ object' = [object EXCEPT ![n] = Merge(@, Entry(k, v))]
  /\ outbox' = [outbox EXCEPT ![n] = Merge(@, Entry(k, v))]

\* increment_by.
Increment(n) ==
  /\ type = "gcounter"
  /\ \E d \in Value \ {0} :
       /\ Incremented(object[n], n, d) \in Value
       /\ Publish(n, n, Incremented(object[n], n, d))

\* set.
Set(n) ==
  /\ type = "gmap"
  /\ \E k \in Key : \E v \in Value : SetAssigns(object[n], k, v) /\ Publish(n, k, v)

\* write_local: a write from anywhere, which is not passed on.  A counter is
\* written by its owner only.
WriteLocal(n) ==
  /\ type = "gmap"
  /\ \E k \in Key : \E v \in Value : Updates(n, k, v)
  /\ UNCHANGED <<object, outbox>>

--------------------------------------------------------------------------------
(***************************************************************************)
(* The replicator.                                                          *)
(***************************************************************************)

\* Fault: only what the client does not know yet goes into the buffer.
TickStateDelta(n) ==
  /\ outbox' = [outbox EXCEPT ![n] = Merge(@, buffer[n])]
  /\ UNCHANGED <<type, localVars, view, wire, updates, faults>>

\* tick_state, with copy_atom at the replica and copy_ack_atom: the full state
\* goes into the buffer, even if nothing has changed.
TickState(n) ==
  /\ outbox' = [outbox EXCEPT ![n] = Merge(@, cvrdt[n])]
  /\ UNCHANGED <<type, localVars, view, wire, updates, faults>>

\* flush_buffer sends to the interested nodes and forgets.
FlushBuffer(n) ==
  /\ wire' = wire \cup {[from |-> n, to |-> m, map |-> outbox[n]] :
                           m \in {k \in view[n] : outbox[n] # EmptyMap}}
  /\ outbox' = [outbox EXCEPT ![n] = EmptyMap]
  /\ UNCHANGED <<type, localVars, view, updates, faults>>

\* tick_buffer.
TickBuffer(n) ==
  /\ outbox[n] # EmptyMap
  /\ Cardinality({m \in wire : m.from = n}) < MaxInFlight
  /\ FlushBuffer(n)

\* Updates from another node go to the replica, not into the buffer.
OnUpdatesFrom(n, m) ==
  \E msg \in wire :
    /\ msg.from = m /\ msg.to = n
    /\ OnPublish(n, msg.map)
    /\ wire' = wire \ {msg}
    /\ UNCHANGED <<type, object, outbox, view, updates, faults>>

OnUpdates(n) == \E m \in Node : OnUpdatesFrom(n, m)

--------------------------------------------------------------------------------
(***************************************************************************)
(* Nodes and the network between them.                                      *)
(***************************************************************************)

\* n learns that m is interested.
Find(n, m) ==
  /\ m \in Peer[n]
  /\ view' = [view EXCEPT ![n] = @ \cup {m}]
  /\ UNCHANGED <<type, localVars, outbox, wire, updates, faults>>

ConnectionLost(n, m) ==
  /\ faults < MaxFaults
  /\ m \in view[n]
  /\ view' = [view EXCEPT ![n] = @ \ {m}]
  /\ faults' = faults + 1
  /\ UNCHANGED <<type, localVars, outbox, wire, updates>>

Lose(m) ==
  /\ faults < MaxFaults
  /\ wire' = wire \ {m}
  /\ faults' = faults + 1
  /\ UNCHANGED <<type, localVars, outbox, view, updates>>

Client(n) == Increment(n) \/ Set(n) \/ WriteLocal(n)

OnNode(n) == TickNotify(n) \/ TickState(n) \/ TickBuffer(n) \/ OnUpdates(n)

Next ==
  \/ \E n \in Node : Client(n) \/ OnNode(n)
  \/ \E n, m \in Node : Find(n, m) \/ ConnectionLost(n, m)
  \/ \E m \in wire : Lose(m)

Spec == Init /\ [][Next]_vars

\* Actors with a message run, timers fire, messages arrive, and nodes find each
\* other (PairedNodesReconcile of DistributionLayer).  Nothing is assumed of what
\* clients do.
Fairness ==
  /\ \A n \in Node : /\ WF_vars(TickNotify(n)) /\ WF_vars(TickState(n))
                     /\ WF_vars(TickBuffer(n))
                     /\ WF_vars(\E m \in Node : Find(n, m))
  /\ \A n \in Node : \A m \in Peer[n] : WF_vars(OnUpdatesFrom(m, n))

FairSpec == Spec /\ Fairness

--------------------------------------------------------------------------------

Store == INSTANCE GrowOnlyStore WITH Key <- Slot, share <- cvrdt

\* Replication implements the grow-only store: whatever is lost or late, what a
\* replica has only grows, and only by what somebody wrote.
ImplementsStore == Store!Spec

\* The deltas that merge returns leave no gap: what the replica has and its
\* client has not is in the delta buffer.  A missing key counts as the default
\* here: an entry whose value is the default need not be in any delta.
DeltasLeaveNoGap ==
  \A n \in Node : \A k \in DOMAIN cvrdt[n] :
    cvrdt[n][k] <= At(object[n], k) \/ cvrdt[n][k] <= At(buffer[n], k)

\* All nodes converge: what the replica of any node has comes to reach the object
\* of every client (the clients stop at MaxUpdates), although connections and
\* messages are lost and not every update is sent.  Nodes without a handle of each
\* other depend on those between them, which do not pass on an update that comes
\* from elsewhere: the state tick sends it along with all the rest.
Converge ==
  <>[](\A n, m \in Node : \A k \in Slot : At(cvrdt[n], k) <= At(object[m], k))

================================================================================
