------------------------------- MODULE Replicator -------------------------------
(***************************************************************************)
(* The replicator actors of all nodes (src/replicator_actor.cpp) as hosts  *)
(* of their distribution layers: which ids have a replica in states_, when *)
(* a replica is spawned and its id advertised, and the state tick.         *)
(*                                                                         *)
(* DistributionLayer has a host that may do anything; this one takes its   *)
(* place, and the composition implements DistributionLayer's Spec.  What a *)
(* replica does with a message is in Replica, ReadWrite and Replication.   *)
(***************************************************************************)
EXTENDS DistributionLayer

CONSTANT Registered  \* Registered[n] : the ids of the types n's configuration adds

ASSUME RegisteredAreIds == Registered \in [Node -> SUBSET Uri]

VARIABLES
  states,   \* states[n] : states_, the ids with a replica
  wanted    \* history: wanted[n], the ids that actors on n, not readers and
            \* writers of other nodes, have asked for

hostVars == <<states, wanted>>
allVars == <<vars, hostVars>>

HostTypeOK == states \in [Node -> SUBSET Uri] /\ wanted \in [Node -> SUBSET Uri]

ReplicatorInit ==
  /\ Init
  /\ states = [n \in Node |-> {}]
  /\ wanted = [n \in Node |-> {}]

--------------------------------------------------------------------------------

\* spawn succeeds if a type is registered under the scheme of u.
Spawnable(n, u) == u \in Registered[n]

\* Fault: the new replica is not advertised.
FindActorSilently(n, u) ==
  /\ states' = [states EXCEPT ![n] = @ \cup ({u} \cap Registered[n])]
  /\ UNCHANGED local

\* Fault: its id is entered past add_id.
FindActorUnversioned(n, u) ==
  /\ states' = [states EXCEPT ![n] = @ \cup ({u} \cap Registered[n])]
  /\ ModifyIdsUnversioned(n, local[n].filter \cup ({u} \cap Registered[n]))

\* find_actor: the replica of u, spawned and advertised when there is none.
FindActor(n, u) ==
  \/ /\ u \notin states[n] /\ Spawnable(n, u)
     /\ states' = [states EXCEPT ![n] = @ \cup {u}]
     /\ AddId(n, u)
  \/ /\ u \in states[n] \/ ~Spawnable(n, u)
     /\ UNCHANGED <<states, local>>

Asked(n, u) == wanted' = [wanted EXCEPT ![n] = @ \cup {u}]

\* A subscription by an actor on n, or a read or write that asks no other node.
Request(n, u) ==
  /\ FindActor(n, u)
  /\ Asked(n, u)
  /\ UNCHANGED <<store, uriNodes, buffer, link, net>>

\* A read or write by an actor on n, of all, of k or of a majority: the reader or
\* writer that the replica spawns asks the other nodes.
Query(n, u) ==
  /\ Spawnable(n, u)
  /\ RoomInFlight(n)
  /\ FindActor(n, u)
  /\ SendLocals(n, u)
  /\ Asked(n, u)
  /\ UNCHANGED <<store, uriNodes, buffer, link>>

\* An update by an actor on n: buffered for the other nodes, whether or not a
\* replica is found.
ClientPublishes(n, u) ==
  /\ \E d \in Delta : Publish(n, u, d)
  /\ FindActor(n, u)
  /\ Asked(n, u)
  /\ UNCHANGED <<store, uriNodes, link, net>>

\* delete_replica: a replica is found, or spawned, and forgotten.  Its id stays
\* advertised: remove_id is not called.
DeleteReplica(n, u) ==
  /\ IF u \notin states[n] /\ Spawnable(n, u) THEN AddId(n, u) ELSE UNCHANGED local
  /\ states' = [states EXCEPT ![n] = @ \ {u}]
  /\ Asked(n, u)
  /\ UNCHANGED <<store, uriNodes, buffer, link, net>>

\* Fault: a state is sent only if there have been updates.
TickStateIfChanged(n, u) ==
  /\ u \in states[n]
  /\ buffer[n][u] # {}
  /\ \E d \in Delta : Publish(n, u, d)
  /\ UNCHANGED <<hostVars, local, store, uriNodes, link, net>>

\* tick_state, with copy_atom at the replica of u and copy_ack_atom: the full
\* state of u goes into the buffer.
TickState(n, u) ==
  /\ u \in states[n]
  /\ \E d \in Delta : Publish(n, u, d)
  /\ UNCHANGED <<hostVars, local, store, uriNodes, link, net>>

\* A message from m goes to the replica, which is spawned when there is none.
HandleDelegated(n, m, type) ==
  /\ m \in link[n]
  /\ \E msg \in net :
       /\ msg.type = type /\ msg.to = n /\ msg.from = m
       /\ FindActor(n, msg.id)
       /\ net' = net \ {msg}
  /\ UNCHANGED <<wanted, store, uriNodes, buffer, link>>

HandleUpdates(n, m) == HandleDelegated(n, m, "updates")

\* read_local and write_local of a reader or writer on m.  That nobody on n asked
\* for the id makes no difference to the handlers.
HandleLocal(n, m) == HandleDelegated(n, m, "local")

\* The handlers and faults that do not concern the host.
Layer(step) == step /\ UNCHANGED hostVars

OfHost(n, u) ==
  \/ Request(n, u) \/ Query(n, u) \/ ClientPublishes(n, u) \/ DeleteReplica(n, u)
  \/ TickState(n, u)

OfLayer(n, m) ==
  NewConnection(n, m) \/ ConnectionLost(n, m) \/ OnGetIds(n, m) \/ OnIds(n, m)

ReplicatorNext ==
  \/ \E n \in Node, u \in Uri : OfHost(n, u)
  \/ \E n, m \in Node : HandleUpdates(n, m) \/ HandleLocal(n, m) \/ Layer(OfLayer(n, m))
  \/ \E n \in Node : Layer(TickIds(n) \/ TickBuffer(n))
  \/ \E msg \in net : Layer(Lose(msg))

ReplicatorSpec == ReplicatorInit /\ [][ReplicatorNext]_allVars

\* The step handles m's answer of version v.
Answers(n, m, v) ==
  \E msg \in net \ net' : msg.type = "ids" /\ msg.to = n /\ msg.from = m /\ msg.version = v

\* As in DistributionLayer.  The two ticks that send repeat whatever is in flight;
\* since MaxInFlight disables them now and then, that takes strong fairness here.
ReplicatorFairness ==
  /\ \A n \in Node : /\ SF_allVars(Layer(TickIds(n)))
                     /\ SF_allVars(Layer(TickBuffer(n)))
                     /\ \A u \in Uri : WF_allVars(TickState(n, u))
  /\ \A n \in Node : \A m \in Node \ {n} :
       /\ WF_allVars(Layer(OnGetIds(n, m)))
       /\ WF_allVars(HandleUpdates(n, m))
       /\ WF_allVars(HandleLocal(n, m))
       /\ \A v \in 1..MaxVersion : WF_allVars(Layer(OnIds(n, m) /\ Answers(n, m, v)))

FairReplicatorSpec == ReplicatorSpec /\ ReplicatorFairness

--------------------------------------------------------------------------------
(***************************************************************************)
(* Properties.                                                             *)
(***************************************************************************)

\* The replicator is one of the hosts that DistributionLayer allows: it changes
\* the ids only under a new version, and every handler is one step of the layer.
ImplementsLayer == Spec

\* Interest is not contagious: although a node spawns a replica for whatever updates,
\* reads and writes of other nodes reach it, and others then send it more, it never
\* holds or advertises an id that none of its own actors has asked for.
OnlyWantedIdsSpread ==
  \A n \in Node : states[n] \cup local[n].filter \subseteq wanted[n]

\* A node that has caught up with n's ids sends n the updates of every id of which
\* n has a replica, whenever and for whatever reason the replica was spawned.
CaughtUpPeersSend ==
  \A n, m \in Node : \A u \in states[n] :
    store[m][n].known /\ store[m][n].version = local[n].version => n \in uriNodes[m][u]

\* Two nodes that stay paired and keep a replica of an id go on sending each other
\* its state: that the ids are exchanged, the state tick buffers and the buffer is
\* flushed comes together, without any client.
HoldersShareStates ==
  \A n, m \in Node : \A u \in Uri :
    n # m /\ <>[](Paired(n, m) /\ u \in states[n] \cap states[m])
      => []<>(\E msg \in net : msg.type = "updates" /\ msg.id = u
                               /\ msg.from = n /\ msg.to = m)

================================================================================
