--------------------------- MODULE DistributionLayer ---------------------------
(***************************************************************************)
(* The distribution layer of every node's replicator actor                 *)
(* (caf/crdt/detail/distribution_layer.hpp), the middleman hooks that call *)
(* it (src/replicator_callbacks.cpp) and the network between the nodes.    *)
(*                                                                         *)
(* A node advertises the set of replica ids it holds under a version that  *)
(* it bumps on every change; peers pull that set (get_ids), remember it    *)
(* (update) and use it to decide where a flushed buffer goes.              *)
(*                                                                         *)
(* An action is one handler of the replicator actor, run to completion.    *)
(* The operators above Next constrain only the variables they assign, so   *)
(* that Replication can conjoin them with the steps of the replicas.       *)
(***************************************************************************)
EXTENDS Naturals, FiniteSets

CONSTANTS
  Node,         \* CAF nodes (node_id)
  Uri,          \* replica ids
  Delta,        \* contents of the update messages, opaque to this layer
  MaxVersion,   \* bound: changes of one node's id set
  MaxInFlight   \* bound: messages of one sender in flight before it sends on a timer or hook

ASSUME BoundsAreNat == MaxVersion \in Nat /\ MaxInFlight \in Nat

VARIABLES
  local,      \* local[n] : local_, the id set n advertises and its version
  store,      \* store[n][m] : store_, what n remembers of m
  uriNodes,   \* uriNodes[n][u] : uri_to_nodes_, the nodes n sends u's updates to
  buffer,     \* buffer[n][u] : buffer_, the updates waiting for a flush
  link,       \* link[n] : the nodes n's middleman has reported as reachable
  net         \* messages sent and neither handled nor lost

distVars == <<local, store, uriNodes, buffer>>
vars == <<local, store, uriNodes, buffer, link, net>>

--------------------------------------------------------------------------------

\* What operator[] makes of a missing key: version 0, an invalid handle, no ids.
NoEntry == [known |-> FALSE, version |-> 0, replicator |-> FALSE, filter |-> {}]

\* node_data{0, repl, {}}.
NewEntry == [known |-> TRUE, version |-> 0, replicator |-> TRUE, filter |-> {}]

\* store_[m]: creates the entry when there is none.
Entry(n, m) == [store[n][m] EXCEPT !.known = TRUE]

GetIdsMsg(n, m, seen) ==
  [type |-> "get_ids", from |-> n, to |-> m, seen |-> seen]

IdsMsg(n, m, version, filter) ==
  [type |-> "ids", from |-> n, to |-> m, version |-> version, filter |-> filter]

UpdatesMsg(n, m, u, msgs) ==
  [type |-> "updates", from |-> n, to |-> m, id |-> u, msgs |-> msgs]

\* read_local or write_local for u, from a reader or writer on n.
LocalMsg(n, m, u) ==
  [type |-> "local", from |-> n, to |-> m, id |-> u]

Message ==
       [type : {"get_ids"}, from : Node, to : Node, seen : Nat]
  \cup [type : {"ids"}, from : Node, to : Node, version : Nat, filter : SUBSET Uri]
  \cup [type : {"updates"}, from : Node, to : Node, id : Uri, msgs : SUBSET Delta]
  \cup [type : {"local"}, from : Node, to : Node, id : Uri]

\* A send to m through the handle n stored for it; an invalid handle drops it.
Sent(n, m, msg) == IF store[n][m].replicator THEN {msg} ELSE {}

RoomInFlight(n) == Cardinality({msg \in net : msg.from = n}) < MaxInFlight

\* Fault: all nodes that are known.
IntrestedAny(n, u) == {m \in Node : store[n][m].known}

\* get_intrested: the nodes known to hold u.
Intrested(n, u) == {m \in Node : store[n][m].known /\ u \in store[n][m].filter}

TypeOK ==
  /\ local \in [Node -> [version : Nat, filter : SUBSET Uri]]
  /\ store \in [Node -> [Node -> [known : BOOLEAN, version : Nat,
                                  replicator : BOOLEAN, filter : SUBSET Uri]]]
  /\ uriNodes \in [Node -> [Uri -> SUBSET Node]]
  /\ buffer \in [Node -> [Uri -> SUBSET Delta]]
  /\ link \in [Node -> SUBSET Node]
  /\ net \in SUBSET Message

Init ==
  /\ local = [n \in Node |-> [version |-> 0, filter |-> {}]]
  /\ store = [n \in Node |-> [m \in Node |-> NoEntry]]
  /\ uriNodes = [n \in Node |-> [u \in Uri |-> {}]]
  /\ buffer = [n \in Node |-> [u \in Uri |-> {}]]
  /\ link = [n \in Node |-> {}]
  /\ net = {}

--------------------------------------------------------------------------------
(***************************************************************************)
(* The local id set.                                                       *)
(***************************************************************************)

\* Fault: the version is not bumped.
ModifyIdsUnversioned(n, filter) ==
  local' = [local EXCEPT ![n] = [@ EXCEPT !.filter = filter]]

ModifyIds(n, filter) ==
  local' = [local EXCEPT ![n] = [version |-> @.version + 1, filter |-> filter]]

AddId(n, u) ==
  /\ local[n].version < MaxVersion
  /\ ModifyIds(n, local[n].filter \cup {u})

RemoveId(n, u) ==
  /\ local[n].version < MaxVersion
  /\ ModifyIds(n, local[n].filter \ {u})

--------------------------------------------------------------------------------
(***************************************************************************)
(* Nodes that come and go.  The lookup of the remote replicator may fail,  *)
(* and emplace leaves an entry that is already there as it is.             *)
(***************************************************************************)

AddNewNode(n, m) ==
  \/ /\ store' = [store EXCEPT ![n][m] =
                    IF @.known THEN @ ELSE NewEntry]
     /\ net' = net \cup {GetIdsMsg(n, m, 0)}
  \/ UNCHANGED <<store, net>>     \* remote_lookup returned nothing

\* Fault: the node stays in uri_to_nodes_.
RemoveNodeKeepingIndex(n, m) ==
  /\ store' = [store EXCEPT ![n][m] = NoEntry]
  /\ UNCHANGED uriNodes

RemoveNode(n, m) ==
  /\ store' = [store EXCEPT ![n][m] = NoEntry]
  /\ uriNodes' = [uriNodes EXCEPT ![n] = [u \in Uri |-> @[u] \ {m}]]

--------------------------------------------------------------------------------
(***************************************************************************)
(* Reconciliation of the id sets.                                          *)
(***************************************************************************)

\* uri_to_nodes_ of n after m's ids changed from old to new.
Reindexed(n, m, old, new) ==
  [uriNodes EXCEPT ![n] =
     [u \in Uri |-> IF u \in new THEN @[u] \cup {m}
                    ELSE IF u \in old THEN @[u] \ {m} ELSE @[u]]]

\* Fault: an older version is taken as well.
UpdateAnyVersion(n, m, version, ids) ==
  /\ store' = [store EXCEPT ![n][m] =
                 [Entry(n, m) EXCEPT !.version = version, !.filter = ids]]
  /\ uriNodes' = Reindexed(n, m, store[n][m].filter, ids)

Update(n, m, version, ids) ==
  \/ /\ version > store[n][m].version
     /\ store' = [store EXCEPT ![n][m] =
                    [Entry(n, m) EXCEPT !.version = version, !.filter = ids]]
     /\ uriNodes' = Reindexed(n, m, store[n][m].filter, ids)
  \/ /\ version <= store[n][m].version
     /\ store' = [store EXCEPT ![n][m] = Entry(n, m)]
     /\ UNCHANGED uriNodes

PullIds(n) ==
  net' = net \cup UNION {Sent(n, m, GetIdsMsg(n, m, store[n][m].version)) :
                           m \in {k \in Node : store[n][k].known}}

\* Fault: the comparison of the versions is inverted.
GetIdsInverted(n, m, seen) ==
  IF seen # local[n].version \/ ~store[n][m].known
  THEN {}
  ELSE Sent(n, m, IdsMsg(n, m, local[n].version, local[n].filter))

\* What n answers to m's get_ids.
GetIds(n, m, seen) ==
  IF seen = local[n].version \/ ~store[n][m].known
  THEN {}
  ELSE Sent(n, m, IdsMsg(n, m, local[n].version, local[n].filter))

--------------------------------------------------------------------------------
(***************************************************************************)
(* The update buffer.                                                      *)
(***************************************************************************)

Publish(n, u, d) ==
  buffer' = [buffer EXCEPT ![n][u] = @ \cup {d}]

\* Fault: every known node gets the updates.
FlushTargetsAll(n) ==
  {p \in Uri \X Node : buffer[n][p[1]] # {} /\ store[n][p[2]].known}

\* The (id, node) pairs a flush sends to.
FlushTargets(n) ==
  {p \in Uri \X Node : buffer[n][p[1]] # {} /\ p[2] \in uriNodes[n][p[1]]}

FlushBuffer(n) ==
  /\ net' = net \cup UNION {Sent(n, p[2], UpdatesMsg(n, p[2], p[1], buffer[n][p[1]])) :
                              p \in FlushTargets(n)}
  /\ store' = [store EXCEPT ![n] =
                 [m \in Node |-> IF \E u \in Uri : <<u, m>> \in FlushTargets(n)
                                 THEN Entry(n, m) ELSE @[m]]]
  /\ buffer' = [buffer EXCEPT ![n] = [u \in Uri |-> {}]]

--------------------------------------------------------------------------------
(***************************************************************************)
(* The layer with an arbitrary host: the replicator publishes updates,     *)
(* spawns replicas (add_id) and has others asked whenever it likes.        *)
(***************************************************************************)

\* The readers and writers for u on n ask some or all of the nodes that
\* get_intrested reports.
SendLocals(n, u) ==
  \E to \in SUBSET Intrested(n, u) :
    net' = net \cup UNION {Sent(n, m, LocalMsg(n, m, u)) : m \in to}

HostPublishes(n) ==
  /\ \E u \in Uri, d \in Delta :
       /\ Publish(n, u, d)
       /\ AddId(n, u) \/ UNCHANGED local
  /\ UNCHANGED <<store, uriNodes, link, net>>

HostChangesIds(n) ==
  /\ \E u \in Uri : AddId(n, u) \/ RemoveId(n, u)
  /\ UNCHANGED <<store, uriNodes, buffer, link, net>>

HostRequests(n) ==
  /\ RoomInFlight(n)
  /\ \E u \in Uri : SendLocals(n, u) /\ (AddId(n, u) \/ UNCHANGED local)
  /\ UNCHANGED <<store, uriNodes, buffer, link>>

NewConnection(n, m) ==
  /\ n # m
  /\ RoomInFlight(n)
  /\ AddNewNode(n, m)
  /\ link' = [link EXCEPT ![n] = @ \cup {m}]
  /\ UNCHANGED <<local, uriNodes, buffer>>

ConnectionLost(n, m) ==
  /\ m \in link[n]
  /\ RemoveNode(n, m)
  /\ link' = [link EXCEPT ![n] = @ \ {m}]
  /\ UNCHANGED <<local, buffer, net>>

TickIds(n) ==
  /\ RoomInFlight(n)
  /\ PullIds(n)
  /\ UNCHANGED <<distVars, link>>

TickBuffer(n) ==
  /\ RoomInFlight(n)
  /\ FlushBuffer(n)
  /\ UNCHANGED <<local, uriNodes, link>>

\* A message from m reaches n's mailbox over a route n's middleman has reported:
\* one from a yet unknown node is preceded by new_route_added.
OnGetIds(n, m) ==
  /\ m \in link[n]
  /\ \E msg \in net :
       /\ msg.type = "get_ids" /\ msg.to = n /\ msg.from = m
       /\ net' = (net \ {msg}) \cup GetIds(n, m, msg.seen)
  /\ UNCHANGED <<distVars, link>>

OnIds(n, m) ==
  /\ m \in link[n]
  /\ \E msg \in net :
       /\ msg.type = "ids" /\ msg.to = n /\ msg.from = m
       /\ Update(n, m, msg.version, msg.filter)
       /\ net' = net \ {msg}
  /\ UNCHANGED <<local, buffer, link>>

\* The host delegates updates and the requests of others' readers and writers to
\* the replica, after spawning it if it has none.
OnDelegated(n, m) ==
  /\ m \in link[n]
  /\ \E msg \in net :
       /\ msg.type \in {"updates", "local"} /\ msg.to = n /\ msg.from = m
       /\ AddId(n, msg.id) \/ UNCHANGED local
       /\ net' = net \ {msg}
  /\ UNCHANGED <<store, uriNodes, buffer, link>>

\* A message is lost only while one of the two ends has no connection.
Lose(msg) ==
  /\ msg \in net
  /\ msg.to \notin link[msg.from] \/ msg.from \notin link[msg.to]
  /\ net' = net \ {msg}
  /\ UNCHANGED <<distVars, link>>

Next ==
  \/ \E n \in Node : HostPublishes(n)
  \/ \E n \in Node : HostChangesIds(n)
  \/ \E n \in Node : HostRequests(n)
  \/ \E n, m \in Node : NewConnection(n, m)
  \/ \E n, m \in Node : ConnectionLost(n, m)
  \/ \E n \in Node : TickIds(n)
  \/ \E n \in Node : TickBuffer(n)
  \/ \E n, m \in Node : OnGetIds(n, m)
  \/ \E n, m \in Node : OnIds(n, m)
  \/ \E n, m \in Node : OnDelegated(n, m)
  \/ \E msg \in net : Lose(msg)

Spec == Init /\ [][Next]_vars

\* The ticks re-arm themselves (delayed_send) and CAF hands every message in a
\* mailbox to the actor.  Hooks, the host and losses are not fair.
Fairness ==
  /\ \A n \in Node : WF_vars(TickIds(n)) /\ WF_vars(TickBuffer(n))
  /\ \A n, m \in Node : /\ WF_vars(OnGetIds(n, m))
                        /\ WF_vars(OnIds(n, m))
                        /\ WF_vars(OnDelegated(n, m))

FairSpec == Spec /\ Fairness

--------------------------------------------------------------------------------
(***************************************************************************)
(* Properties.                                                             *)
(***************************************************************************)

\* store_ and uri_to_nodes_ are two indexes of one relation, changed by
\* different loops of add, update and remove: they never disagree, so a flush
\* sends to exactly the nodes get_intrested reports and never default-inserts
\* an entry into store_.
IndexMatchesFilters ==
  \A n \in Node, u \in Uri : uriNodes[n][u] = Intrested(n, u)

\* get_ids stays silent when the versions are equal.  That is only right if an
\* equal version always means an equal id set, whatever was lost, reordered or
\* forgotten in between.
CaughtUpViewsAreExact ==
  \A n, m \in Node :
    store[n][m].version = local[m].version => store[n][m].filter = local[m].filter

\* While n keeps an entry for m, late or reordered answers never take its view
\* of m back to an older version.
ViewsOnlyAdvance ==
  [][\A n, m \in Node :
       store[n][m].known /\ store'[n][m].known
         => store'[n][m].version >= store[n][m].version]_vars

\* Both replicators hold a usable handle of each other.
Paired(n, m) ==
  /\ m \in link[n] /\ n \in link[m]
  /\ store[n][m].known /\ store[n][m].replicator
  /\ store[m][n].known /\ store[m][n].replicator

\* Two nodes that stay paired end up with exact views of each other's ids,
\* whatever was lost while they were not (the host stops at MaxVersion).
PairedNodesReconcile ==
  \A n, m \in Node :
    n # m => (<>[]Paired(n, m) => <>[](store[n][m].filter = local[m].filter))

\* "if there is a newer version, the node will respond with its updated data"
\* (distribution_layer.hpp:111): a node that keeps pulling a peer it can reach
\* ends up with the peer's ids.
PullsAreAnswered ==
  \A n, m \in Node :
    n # m => (<>[](/\ m \in link[n] /\ n \in link[m]
                   /\ store[n][m].known /\ store[n][m].replicator)
                => <>[](store[n][m].filter = local[m].filter))

================================================================================
