# libcaf_crdt in TLA+

`libcaf_crdt` replicates delta-CRDTs between the nodes of a CAF actor system.
Every node runs one *replicator* actor. It holds one *replica* actor per replica
id, finds the replicators of the other nodes, learns which ids they hold, and
sends them the updates of its own clients. Clients own *state objects* (`gset`,
`gmap`, ...) that are bound to an id: they subscribe to the replica, publish
their changes and merge what they are notified of. This directory holds TLA+
modules of these parts, what TLC checks about them on small instances, and what
TLAPS proves about them for all instances.

Line numbers below are those of the commit the modules were written from. Paths
are relative to the repository; `PROJECT.json` maps every definition to its
lines.

## 1. Inventory

| Part | State | Operations | Talks to |
|---|---|---|---|
| **Distribution layer** `caf/crdt/detail/distribution_layer.hpp`, `abstract_distribution_layer.hpp`, hooks in `src/replicator_callbacks.cpp` | `local_` (own ids under a version), `store_` (per known node: version seen, handle, ids), `uri_to_nodes_` (per id: nodes), `buffer_` (updates to flush) | `add_id`, `remove_id`, `add_new_node`, `remove_node`, `pull_ids`, `get_ids`, `update`, `publish`, `flush_buffer`, `get_intrested` | the layers of the other nodes, by messages between replicators; the middleman's hooks |
| **Replicator** `src/replicator_actor.cpp` | `states_` (id to replica), the distribution layer, four intervals | updates from clients and from nodes, three ticks, subscriptions, reads and writes, `delete_replica` | forwards to replicas, which it spawns on demand |
| **Replica** `caf/crdt/detail/replica.hpp` | `cvrdt_`, `buffer_` (what subscribers do not know), `subs_` | publish, notify tick, subscribe, unsubscribe, copy, reads, writes, delete | its subscribers; itself (`write_local`); the replicator (`copy_ack`) |
| **Readers and writers** `replica.hpp:36-133` | `messages_left`, merged answer, promise | send to the first nodes of a set, count answers, time out | replicators of all nodes |
| **State objects** `caf/crdt/types/base_datatype.hpp` | `owner_`, `id_` | subscribe when constructed, unsubscribe when destroyed, publish, copy, assign | replicator |
| **Types** `gset`, `gcounter`, `gmap`, `lww_register`, `mv_register` | their value | local change, `merge`, queries | `vector_clock` (registers) |
| **vector_clock** | map from actors to counts | `increment`, `compare`, `merge`, `get`, `count` | |
| **uri** `caf/crdt/uri.hpp` | scheme and path | parse, `to_string`, `valid`, compare | |
| **Module start and stop** `src/replicator.cpp`, `crdt_config.hpp` | | register types and hooks, spawn the replicator, `stop` (one last flush) | the replicator |

What makes the system hard to test:

- *Everything between nodes is asynchronous and may be lost.* A node drops
  messages to nodes it has no handle of; a lost connection drops what is under
  way. The protocol for the ids relies on versions only; that for the updates
  relies on a periodic transfer of full states.
- *One delta buffer serves all subscribers of a replica*, who come and go between
  two ticks of its timer.
- *A write is acknowledged before it is applied* (`replica.hpp:233-236`).
- *`delete_replica` changes two actors*: the replicator forgets the replica in
  any case, the replica decides later whether to quit.
- *Requests to several nodes* use a set of nodes that was taken earlier, race
  their timeout, and count answers.
- *Merges happen in any order*, repeatedly and late, and types that carry clocks
  decide by them which value survives.
- *Replicas are spawned by whatever message comes first*, also by updates of other
  nodes, and each one that is spawned is advertised to all.
- *A replicator stops* with updates in its buffer and with an id that others keep, on two
  messages that others can come between.
- *Subscriptions belong to actors, objects come and go*: an actor may have several
  objects of one id, on which it counts in one slot.

What makes each part correct:

- Distribution layer: the two indexes of interested nodes agree; a node that
  stays silent because nothing changed is right; views do not go back; paired
  nodes end up with exact views.
- Replicator: it uses the layer as the layer expects; a node that knows another one's
  ids sends it all it should, and nothing else spreads; holders of a replica keep
  exchanging its state; what was published is not lost by stopping.
- Replica and clients: no subscriber is left with a gap; every change reaches
  every bound client; a read after an acknowledged write sees it; a replica that
  quits owes nobody anything.
- Readers and writers: success means that the nodes asked for accepted the
  write; later reads see it; a request to reachable nodes completes.
- Types: merges keep what must survive, drop what was overwritten, and agree.
- State objects: an actor is subscribed as long as it should be; increments are lost
  for known reasons only; an id is found by its text.

`PROJECT.json` lists the components and, under `hazards`, each of these spots
with its line and the properties that cover it.

## 2. Modules

| Module | Models |
|---|---|
| `DistributionLayer` | the distribution layers of all nodes, with an arbitrary host, and the network between them |
| `Replicator` | the replicators as hosts of their distribution layers: `states_`, `find_actor`, `delete_replica`, the state tick; it implements `DistributionLayer` |
| `Replica` | the replicas of one id on one node, the replicator in front of them, their clients; the type is `gset` |
| `StateObjects` | any number of `gcounter` objects of the actors of one node, over several ids |
| `Uri` | the parser of ids, as operators |
| `ReadWrite` | the read and write requests over several nodes for one id |
| `QuorumSet` | what `ReadWrite` implements: a set that is written and read by quorums |
| `VectorClock` | the operations of `vector_clock`, as operators |
| `MvRegister`, `LwwRegister` | the owners of such registers, who set values and merge copies |
| `Replication` | one id on all nodes, end to end: replicas, buffers, ticks, clients with a `gcounter` or `gmap` |
| `GrowOnlyTypes` | the operations of `gcounter` and `gmap`, as operators |
| `GrowOnlyStore` | what `Replication` implements: every node's share of one grow-only map |
| `Shutdown` | `Replication` with replicators that are stopped |
| `MCReplicator`, `MCReplica`, `MCMvRegister`, `MCReplication`, `MCShutdown`, `MCStateObjects` | constants and symmetry sets for TLC |
| `DistributionLayerProofs`, `ReplicatorProofs`, `ReplicaProofs`, `ReadWriteProofs`, `StateObjectsProofs`, `MvRegisterProofs`, `ReplicationProofs`, `ShutdownProofs` | theorems and proofs; those of `VectorClock` are in `MvRegisterProofs` |

How they fit together: `Replicator` EXTENDS `DistributionLayer` and puts the real host in
the place of the arbitrary one; the refinement says that this is sound. `Shutdown`
EXTENDS `Replication`, whose steps are those of the running nodes. `Replication` and
`StateObjects` hold values of `GrowOnlyTypes`, `StateObjects` makes its ids with `Uri`.
`Replica`, `ReadWrite`, `Replication` and `StateObjects` are views of the same program from
several sides, and each takes as a free input what another one models in detail:
`ReadWrite` and `Replication` have arbitrary answers of `get_intrested`, `Replica` has
arbitrary updates from other nodes. What holds of one for every input holds in the
program whatever the others do.

Definitions named `...Unversioned`, `...KeepingIndex`, `...Swapped` and the like,
marked "Fault:", are wrong variants of the definition next to them. They are used
by nothing; putting one in the place of the right one must make the property
fail that `PROJECT.json` names with it under `mutants`.

### 2.1 DistributionLayer

Variables are the fields of the code, per node (`local`, `store`, `uriNodes`,
`buffer`), the nodes the middleman has reported (`link`) and the messages under
way (`net`, a set: messages overtake each other). An action is one handler of the
replicator or one hook, run to completion. `store_[m]` creates an entry with an
invalid handle when there is none (`NoEntry`, `Entry`); a send over an invalid
handle is dropped (`Sent`). The lookup in `add_new_node` may fail. The replicator
above the layer is arbitrary here: it may add, remove and publish any id at any
time (`HostPublishes`, `HostChangesIds`), and its readers and writers may ask the nodes that
`get_intrested` reports (`HostRequests`, `SendLocals`), so what holds does not rest on how the
replicator uses the layer. What arrives for the host, updates and `read_local` or
`write_local` of another node's readers and writers, it may answer by adding the id (`OnDelegated`).

A message is handled only while the receiver's middleman reports a route to the
sender, because a message from a yet unknown node is preceded by
`new_route_added`. A message is lost only while one end has no connection.
A message that arrives twice is not modelled (CAF does not repeat messages).

### 2.2 Replicator

`states` is the set of keys of `states_` (what a replica holds is elsewhere). `FindActor`
is `find_actor`: it spawns a replica if a type is registered for the id (`Registered`),
and enters the id with `AddId`. Every handler that calls it is an action: `Request`
(subscriptions, unsubscriptions, reads and writes that ask no other node), `Query` (reads and
writes that do; the nodes are taken from `get_intrested` and asked in one step),
`ClientPublishes`, `HandleUpdates` and `HandleLocal` (updates of
another node, and the `read_local` and `write_local` of its readers and writers) and `DeleteReplica`. `TickState` asks the replica of one id for its state
and buffers it; the code does so for all ids in one tick, whose answers come back one
by one. The remaining steps are those of the layer, with the host unchanged (`Layer`).
`wanted` is history: the ids that actors on the node have asked for. What the readers and
writers of other nodes ask of it spawns a replica too, but is no wish of its own actors.

`delete_replica` does not call `remove_id`: a deleted id stays advertised, peers go on
sending, and the next update spawns the replica again. Updates for an id of a type that is
not registered are buffered and passed on all the same.

### 2.3 Replica

One id, one node. A client's request passes the mailboxes of the replicator and
of the replica; both are first-in first-out and the replicator only looks up the
replica and forwards, so a request goes into the replica's mailbox at once.
`Inst` numbers the replicas that the replicator spawns one after another, since
`delete_replica` makes it forget one that may go on. `Construct`, `Destroy`,
`Insert`, `OnNotified` are the client's; `RequestRead`, `RequestWrite`,
`RemoteUpdates` and `DeleteReplica` may be anybody's; `OnX(r)` are the replica's
handlers. Timers may fire at any time. The mailbox of a replica that has quit is
kept as it was, to say what it had not answered. `acked`, `deleted` and the `after` of a read
are history; a read carries all the writes that had been acknowledged, by the replica that did.

### 2.4 ReadWrite

One id with a replica on every node. A request takes the set of handles that
`get_intrested` returns (any set of `View`, possibly with the invalid handle) and
adds the own node. A reader or writer sends to the first `messages_left` handles
of that set in its order (`Contacted`), so handles are numbers and the invalid one
is 0. `messages_left` is a `size_t`: `Counted` computes modulo `SizeT`. A message
to a node goes over `wire`, in any order, into the replica's `mailbox`; the answer
comes back over `wire`. A lost message is one that is never taken from `wire`.
The state of a reader or writer is the record of its request in `ops`. Writes by
`write_local` are not passed to the other nodes by the distribution layer's
buffer, and the periodic transfer of full states, which does pass them on, only
adds elements; it is left out.

`QuorumSet` is what the clients see of it: requests that begin, and end once, with a result or
without one. A write adds an element, a read returns a set; each goes by a quorum, and
`MayReturn` says what a read may return: only what was written, all writes that were complete
when it was requested and whose quorum meets its own, and all that an earlier read
returned whose quorum lies within its own. Replicas, messages, counters and the answers so far are gone. The
refinement mapping takes the handles that a request sends to (`Contacted`) for its quorum,
and what the reader has merged for the result of a read that has succeeded. `after`, the
requests that had succeeded when this one was made, is history.

### 2.5 Replication, GrowOnlyTypes, GrowOnlyStore

One id on every node, with one subscribed client per node whose state object is a
`gcounter` or a `gmap` (`type`, fixed at the start). A value of either type is a
function from the keys that have an entry to numbers, 0 being the default; the key
of a counter is its owner, which here is the node. `cvrdt` and `buffer` are the
replica's fields, `object` is the client's copy, `outbox` is the distribution
layer's buffer for the id, and `wire` holds what one node's replicator has sent
another's. A flush sends a vector of messages which the receiver merges into one
value before anything else (`replica.hpp`, publish of a vector), so `outbox` and the messages are kept
merged.

Messages inside a node are neither lost nor overtaken, and `Replica` has their
interleavings with subscriptions and deletion; here the way of an update from the
client through the replicator to the replica is one step, and so is that of a
notification, of `copy_atom` and of `copy_ack_atom`. Which nodes a node knows to be
interested (`view`) grows within `Peer`, the nodes it can get a handle of, and shrinks
freely (`Find`, `ConnectionLost`). Messages are lost
(`Lose`) and arrive in any order. `WriteLocal` is the local write of any client or
writer: it changes the replica, but not the buffer.

Left out: increments by 0, which publish an entry equal to the default; values below
the default, which `gmap::merge` does not keep. Several state objects of one owner are
in `StateObjects`.

`GrowOnlyStore` has one variable, `share`: a node raises a value or learns values that
some node has. `Replication` implements it with `share <- cvrdt`.

### 2.6 Shutdown

`stop` sends a `tick_buffer_atom` and, behind it, the exit message (`replicator.cpp:46-47`).
Both come from one sender with normal priority; that CAF keeps them in order is assumed. `Stop` is the
handling of the tick, a last flush (`LastTick`), and `End` that of the exit message. What other senders
put between the two is handled between the two: it is buffered
(`replicator_actor.cpp:68-73`) and ends with the actor, as `End` empties `outbox`. `ending` are the
nodes between the two steps; `MaxStops` bounds how many are stopped. Messages to a
stopped replicator vanish, and the other nodes hear of it from their middleman some time later
(`PeerStopped`). What a stopped node had only itself is gone with it. `owed` is history: what a client
published, before the last tick, while its node knew another one.

### 2.7 StateObjects, Uri

An object has an owner, an id and a value; the owner may construct, copy, assign and destroy any
number of them in any order, and may merge a notification into any of its objects, since
`notify_atom` carries no id. Constructing subscribes for any text that is not empty;
destroying, also of a copy, unsubscribes for a valid id. `Copy` makes a new object or, as the
implicit `operator=` does, gives a bound one another owner, id and value, without a word to
anybody. The replicator and its replicas are
one mailbox here. The objects of one owner share the owner's slot in the counter:
`counted` (history) is how often the owner has counted on an id and `made` how often on all;
`unaware` says that it once did so on an object that had not heard of all of its counts on the id.
Since the objects of an owner share a slot, an object that merges the count its owner
made on another id continues from that one: `confused` says that it happened. What a notification is
about (`about`) is history as well, for the actor is not told. `bereft` are the objects whose owner
has since destroyed one of the same id, and `orphaned` the subscriptions of which an object was taken by
assignment.

`Uri` has the automaton of the parser: a scheme up to the colon, a slash, a path that may
end with a wildcard. The constructor ignores whether `parse` fails and keeps what was
consumed, so `ParseText` is all there is to know. `Parsing` has the parser after each
character.

### 2.8 VectorClock, MvRegister, LwwRegister

A clock is a function from the slots that have an entry to their counts, as
`map_` is, since `compare` and `merge` treat missing slots specially. The registers
name a value by the event that wrote it. With distinct values `register_`, a
`std::set` of value and clock, is an ordinary set up to repeated elements, although
the `operator<` of `vector_clock` is not a strict weak order; the proof of `GetIsExact` shows
that a merge of concurrent clocks never ends with one value only, so a repetition
does not change what `get` returns. What happens to equal values written by
different owners is not modelled. Copies are merged late, in any order, repeatedly
or never. `past`, `known` and `saw` are history: which writes a register includes,
and which ones the writer of a value had seen.

## 3. What is checked

| Run | Instance | Shows |
|---|---|---|
| `replicator` | 2 nodes, 1 id, 2 changes per node, 1 message of a node under way when a timer or hook sends | `IndexMatchesFilters`, `CaughtUpViewsAreExact`, `ViewsOnlyAdvance`, `OnlyWantedIdsSpread`, `CaughtUpPeersSend`, `ImplementsLayer`, `PairedNodesReconcile`, `HoldersShareStates` |
| `ids_unanswered` | arbitrary hosts, 2 nodes, 1 id, 1 change, unbounded messages | **violated**: `PullsAreAnswered` |
| `replica` | 1 client, 1 element, 2 replicas, 1 delete | `ReadsSeeAckedWrites`, `QuitReplicasOweNothing` |
| `replica_live` | 2 clients, 1 element, no delete | `NothingSkipsSubscribers`, `ChangesReachSubscribers` |
| `replica_deleted` | 1 client, 1 delete | **violated**: `ChangesReachSubscribers` |
| `read_write` | 3 nodes, 2 requests, 1 timeout, quorums all / majority / 0 / 1 | `SuccessMeansAccepted`, `ReadsSeeCompletedWrites`, `WaitingIsOwed`, `ImplementsQuorums`, `RequestsComplete` |
| `replication` | 2 nodes, 1 key, values 0 to 2, 2 changes, 1 fault | `DeltasLeaveNoGap`, `ImplementsStore`, `Converge` |
| `shutdown` | 3 nodes on a line, 1 key, 1 change, 1 stop, no losses | `NothingIsLeftBehind`, `RunningPeersConverge` |
| `state_objects` | 1 actor, 2 objects, 3 texts, 2 valid ids, 2 increments, 2 messages | `SubscribedWhileNoneIsDestroyed`, `OnlyUnawareIncrementsAreLost`, `TextsDenoteIds` |
| `mv_register` | 2 owners, 3 sets each | `CompareDecidesCausality`, `ConcurrentValuesSurvive`, `GetIsExact` |
| `mv_overwritten` | 2 owners, 2 sets each | **violated**: `SetHoldsOnlyCurrentValues` |
| `lww_register` | 2 owners, 2 sets each | **violated**: `LastWriterWins` |

The properties, in words:

- `IndexMatchesFilters`: `uri_to_nodes_` (used by flushes) and `store_` (used for
  interested nodes) describe the same relation.
- `CaughtUpViewsAreExact`: equal versions mean equal id sets, so `get_ids` is right
  to stay silent, whatever was lost, reordered or forgotten.
- `ViewsOnlyAdvance`: no late answer takes a known node's view back.
- `PairedNodesReconcile`: two nodes that stay connected with valid handles end up
  with exact views of each other's ids.
- `ImplementsLayer`: the replicator uses its distribution layer as the layer allows any
  host to; so what is proved of `DistributionLayer` holds of the composition.
- `OnlyWantedIdsSpread`: interest is not contagious. A node spawns and advertises a replica
  for whatever updates, reads and writes of other nodes reach it, but only such reach it that
  its own actors once asked for.
- `CaughtUpPeersSend`: whoever has a node's current ids sends it the updates of every replica
  it has, however that came to be.
- `HoldersShareStates`: two nodes that stay paired and hold an id go on sending each other
  its state without any client.
- `NothingSkipsSubscribers`: what the replica has and a subscriber has not is
  under way to it or still in the buffer.
- `ChangesReachSubscribers`: what the replica holds reaches every bound client.
- `ReadsSeeAckedWrites`: a local read that was sent after a write was acknowledged
  sees it, whichever replica acknowledged it and whichever answers; unless `delete_replica` was
  sent to the one that acknowledged it and another one answers, which starts empty.
- `QuitReplicasOweNothing`: a replica that quits has no subscriber and no
  unanswered request.
- `SuccessMeansAccepted`: a successful `write_all` or `write_majority` was accepted by
  all, or more than half, of the nodes of the view it used.
- `ReadsSeeCompletedWrites`: a read requested after a write had succeeded sees it if
  both used the same view, whatever quorums they asked for. The reason is not that
  majorities meet: all requests start with the same node.
- `WaitingIsOwed`: no request waits for nothing. While its result is due, a message to or
  from one of the nodes it asks is there; only a request that asks an invalid handle or
  0 nodes may have nothing but its timeout to wait for.
- `ImplementsQuorums`: requests that took different views of the nodes agree as far as the
  nodes they asked overlap: a read sees the completed writes that asked one of its nodes, and what an
  earlier read saw that asked no others; and each client is told one result, once.
- `RequestsComplete`: a request to reachable nodes completes without its timeout. A
  read from 0 nodes is excluded: it never does.
- `DeltasLeaveNoGap`: the deltas that `merge` returns are enough: what a replica has
  and its client has not is in the delta buffer.
- `ImplementsStore`: what a replica has only grows, and only by what somebody wrote,
  whatever is lost, repeated by the state tick, or late.
- `Converge`: what any replica has reaches every client on every node, although
  connections and messages are lost.
- `NothingIsLeftBehind`: what a client publishes gets to every node that its node knew at the
  time, even when that is stopped before the next flush, provided that the last tick of `stop` has
  not been handled yet.
- `RunningPeersConverge`: those who stay converge, also with what a stopped node had sent to
  one of them only, and across a node in the middle of a line. The buffer passes on
  no updates of other nodes: the state tick does it.
- `SubscribedWhileNoneIsDestroyed`: when an actor hears of a valid id: while it has an object
  of it and has destroyed none since it constructed the last one. So a copy that is
  destroyed takes the subscription with it, and an object that is assigned another id leaves
  its subscription behind, until an object of the old id is destroyed.
- `OnlyUnawareIncrementsAreLost`: a counter never counts too much, and an increment is
  lost only when it was made on an object that had not heard of another one of the same owner.
  This is so for an owner that is not `confused`: whoever has counters of two ids and lets one merge
  what the other was sent gets neither count right.
- `TextsDenoteIds`: every valid id is denoted by its own text, so that the hash, which goes by
  the text, agrees with `compare`, which goes by the parts. The run has all texts of up to 5
  characters, the proof all texts.
- `CompareDecidesCausality`: `compare` says how the events behind two clocks are
  related, for all clocks that ever were.
- `ConcurrentValuesSurvive`: a register gives up a value only for one that
  overwrote it.
- `GetIsExact`: when `get` returns a value, its writer had seen every write the
  register knows.

### Disagreements found

1. `lww_register::merge` keeps the *older* value: it compares the clocks the wrong
   way round, as the comment in `vector_clock.hpp:77` has it. With "greater" replaced
   by "smaller" in `Transfers`, `LastWriterWins` holds on the same instance. A replica
   of this type never accepts its first value.
2. `mv_register::merge` never removes a value that the other side overwrote when the
   clocks are concurrent, so `get_set` holds outdated values and `get` returns none.
3. `delete_replica` forgets a replica that refuses to quit. Its subscriber hears
   nothing of what the next replica of the same id receives.
4. A node whose lookup of a peer failed once never answers that peer's pulls.

Each is a run of its own; `findings` in `PROJECT.json` quotes the sentence of the
code base that the run contradicts.

Further observations, met while modelling and not run:

- `write_k_atom` is forwarded as `write_all_atom` with an extra argument that no
  handler takes, so that writes to k nodes fail (`RequestWriteK` in `ReadWrite`).
- A read from 0 nodes wraps `messages_left` around and ends in the timeout.
- An answer from a node whose lookup failed puts an invalid handle into the set of
  interested nodes, where it sorts first, so that every request of this node asks it.
- `gmap::merge` leaves a new entry out of its delta when the value is the default,
  so that subscribers do not hear of the key; a value below the default becomes the
  default wherever it is merged.
- A state object of a `gcounter` that is created anew counts from 0 until it is sent the
  state; what it counts before is lost in the maximum of its owner's slot.
- Copies, moved-from objects and temporaries of a bound object unsubscribe its owner when they
  are destroyed; an assignment to a bound object leaves a subscription that nobody has an object of, and
  does not subscribe for the new id.
- An update that is handled between the last tick of `stop` and the exit message is
  buffered and lost.
- A write that is acknowledged just before `delete_replica` is lost: the replica has
  not applied it when it quits, and the next replica starts empty in any case.
- An object made from a text without a path subscribes its owner, but never publishes and never
  unsubscribes. A text with rubbish behind the wildcard makes a valid id. Schemes
  are put in lower case by the parser but not where types are registered, so that a type
  registered under a name with capitals is never found.
- A deleted replica stays advertised and comes back with the next update.
- `gset::is_subset_of` hands `std::includes` the end of the other set as the end of its own.
- `mv_register` has no `empty()` and cannot be replicated.

### Bounds

`MaxVersion`, `MaxInFlight`, `MaxSpawn`, `MaxMail`, `MaxDelete`, `MaxOps`, `MaxUpdates`,
`MaxFaults`, `MaxStops`, `MaxTimeouts`, `MaxCount`, `MaxMailbox` and `MaxEvents` bound counters and queues in the guards of
the actions that raise them. Two nodes are enough for every pairwise property of the
distribution layer; with `MaxVersion = 2` a node is ahead, behind or level, and a view can be
two versions old, as a replica that was deleted is spawned and advertised again. `MaxInFlight`
limits only what a timer or hook adds, never an answer, so answers of different ages pile up beside it.
Several ids do not interact but through the version of the whole set; the proofs are for any
number of ids.
In `Replica` a second replica (`MaxSpawn = 2`) and one `delete_replica` produce the
orphan, and a write that one replica acknowledges and another one is asked for; `MaxMail = 2` lets two
requests cross the replica's message to itself. In `ReadWrite` 3 nodes give majorities that differ from "all"
and from "one", and two requests are what `ReadsSeeCompletedWrites` speaks about;
`SizeT = 8` is larger than any number of nodes, as `size_t` is, and one of the two requests may
time out (`MaxTimeouts`). A read after a read that saw a write takes three requests, more than the run has time for; an
instance with three, on two nodes, was searched up to 6 million states for the invariants and
`ImplementsQuorums`, without a violation but not to the end, and the proof has no such bound. Deadlock checking is
off there, because the system ends when `MaxOps` requests are finished. In `Replication` two changes are enough for a
value that is raised while an older one is under way, for concurrent changes of two
nodes and for one that is written behind the other's back (`WriteLocal`); one fault
loses a message or a connection at any point. Convergence of a pair is what the
convergence of more nodes is made of, as every node sends to every node it knows and the state
tick sends everything. An instance with 3 nodes, one value and one change (1.07 million
states) was run for the invariants and the refinement, with the same result. `Shutdown` has three nodes in a line so that a node is stopped
which is the only link, or which only one of the others knew; one change suffices to be owed
and flushed, and losses are left out to tell what stopping loses. Two stops (`MaxStops`) would leave no
two running neighbours, of whom `RunningPeersConverge` speaks; the proof of `NothingIsLeftBehind` has
any number. In `StateObjects` two
objects are an original and its copy, or two of different ids of which one is assigned to the
other; several owners would share only a
delta buffer, and `Replica` has that. `MaxMailbox = 2` lets each kind of
message stand before each other one. The texts are two ids, one with a wildcard, and a text
without a path. The proofs have any number of objects,
owners and messages. The invariants proved below do not depend on any bound.

### Fairness

CAF runs every actor that has mail, and the timers re-arm themselves with
`delayed_send`: handlers and ticks are weakly fair. Requests, hooks, losses, lookups,
destruction of state objects and the 10-second timeouts of readers and writers are
not fair. Fairness is per sender where several could keep a handler busy, and in
`Replicator` per answer: every message that is not lost is handled. Weak fairness of the
handlers of messages between nodes stands for "messages that are not lost arrive";
`PairedNodesReconcile` asks for it only while both nodes stay connected, and the timers
repeat every pull. In `Replicator` the two ticks that send are strongly fair, because
`MaxInFlight`, which the code does not have, disables them now and then. In `ReadWrite` one
weak fairness condition on all handling that moves a message is enough, as there are finitely
many of them.
In `Shutdown` only running replicators are fair. `Stop` is not, as nobody has to stop; `End` is, for the
exit message is in the mailbox by then.
In `Replication`, `Find` is weakly fair for the nodes in `Peer`: that connected nodes find
each other is `PairedNodesReconcile`. Losses are finitely many there (`MaxFaults`),
which stands for a network that is quiet for long enough.

## 4. What is proved

All theorems hold for every value of the constants under the named assumptions in
the modules (bounds are natural numbers). TLAPS checks them to the last leaf.

**DistributionLayer.** `TypeCorrect`, which the other proofs rest on and no run checks. `IndexesAgree` proves `IndexMatchesFilters` from
`IndexInv`, which adds that what was forgotten is empty (`ForgottenIsEmpty`): without
it a node that is entered again could come with old ids. `SilenceIsSound` proves
`CaughtUpViewsAreExact` from `SnapshotInv`: every version in an entry or in an answer
under way stands for the id set that its node had at that version, past versions are
never reused, and version 0 is the empty set. The last part is needed because an
entry of a node that was lost and found starts at 0. `ViewsAdvance` proves
`ViewsOnlyAdvance`.

**Replicator.** `ReplicatorImplementsLayer`: every step of the replicators is one of
`DistributionLayer` or leaves its variables alone, so the four theorems above hold of the
composition. `CaughtUpPeersDoSend` proves `CaughtUpPeersSend` from `HoldersAdvertise` (every replica
is advertised) and, by the refinement, from `SilenceIsSound` and `IndexesAgree`: this is the
chain by which an id gets into the flushes of the others. `InterestIsNotContagious` proves
`OnlyWantedIdsSpread` from `WantedInv`, which follows the ids wherever they go: answers, views
and indexes of the peers (`ViewsAreWanted`, `IndexIsWanted`) and the updates, reads and writes sent
because of them (`MessagesAreWanted`). `HostTypeCorrect` is for the types.

**Replica.** `TypeCorrect`. `QuitReplicasOweNobody` proves `QuitReplicasOweNothing` from
`LifeInv`: behind a `delete_replica` in a mailbox there are only the replica's messages to
itself unless the replica is still known, since the replicator stops sending in the step that sends
`delete_replica`. `ReadsSeeWrites` proves `ReadsSeeAckedWrites` from `ReadInv`: every write a
read must see is in the state or in a publish message that stands before the read
(`AppliedBefore`). That is about the replica that acknowledged the write; `DeletedInv` says that
where another one is asked, the first has been sent `delete_replica`, which is the only
way to be forgotten. `NothingSkips` proves `NothingSkipsSubscribers` from `NotifyInv`,
which extends it to clients that are about to be removed or have come back (`Told`,
`WillBeRemoved`).

**Replication.** `TypeCorrect`. `NoGap` proves `DeltasLeaveNoGap`, which is inductive together
with the types: the argument is that what `merge` changes is in its delta, and that
a client that merges the delta buffer is not behind it. `Implementation` proves
`ImplementsStore`: `Merge` is the least upper bound for `Includes`, and by
`SentIsKnown` the replica of a message's sender has all that the message carries, so
that a replica that merges it learns what some node has. `MergeIsJoin` says of `merge`
what makes the types CRDTs, that it is commutative, associative and idempotent, entries
with the default value included; `DeltasSuffice`, that
a delta may be forwarded in place of what it was made from, to anybody who has what
its replica had. The second is about values: the delta lacks new entries with the default.

**Shutdown.** `NothingLeft` proves `NothingIsLeftBehind`, which is inductive with the types
(`StopTypeOK`): whoever still runs and is owed something has it, has it under way, or is in the view
of a running node that has it in its outbox (`Covered`). What is covered stays so in every step
that takes nothing from a replica and nothing from the wire and the outboxes but by delivery
(`DropsNothing`); what `Vanish` and `PeerStopped` drop was for a node that has stopped.
An outbox counts only while it will still be flushed (`Flushing`, the running nodes without the
`ending`). There are three steps that do more: a client's change, which adds to what is
owed and to the outbox alike, or after the last tick to the outbox alone; `Stop`, which flushes
the outbox to the view before the node leaves `Flushing`; and `End`, which empties an outbox
that counts no longer. Other losses are not among the steps, so this is about stopping alone.

**ReadWrite.** The inductive invariant `IInv` (TLC has checked it on the instance of the run). A
reader or writer counts answers, not nodes, so it has to be shown
that it is the same: a message belongs to a request and to a node it asks (`MessagesAreAsked`), of
each there is one at the most, on the wire or in a mailbox (`OneOutstanding`), and
`messages_left` is what was needed less the nodes that have been heard of,
modulo the width of `size_t` (`AnswersAreCounted`). As no more nodes are contacted than answers are needed, all that
were asked have answered when a request succeeds. `TypeCorrect` proves `TypeOK`.
`SuccessIsAccepted` proves `SuccessMeansAccepted` with `WritesAreKept`: what has left for a
node and is not outstanding is in its state, or in a publish message to itself. `ReadsSee`
proves `ReadsSeeCompletedWrites` with `ReadsFollowWrites`: at a node that both asked, the write is in the
state or stands before the read in the mailbox (`HasBefore`), and the two have asked
the same first nodes of the set. `NoRequestWaitsInVain` proves `WaitingIsOwed`, the part of
`RequestsComplete` that is not about fairness: as many nodes are contacted as answers are needed
(`ContactedReaches`), so while one is lacking, somebody asked has still to be heard of. The
assumption `CountersFit`, that a `size_t` is greater than
the number of nodes by more than 2, makes the wrapped counter of a request for 0 answers
differ from any other.

`RequestsImplementQuorumSet` proves `ImplementsQuorums`. Besides `IInv` it needs `QInv`: replicas hold
and answer nothing but writes that were sent (`OnlyWritesAreStored`), every answer is still in
the state of the node it came from (`AnswersAreStored`), and what a read has returned is
in the state of a node it asked, which will answer a later read with no less or has done so
(`ReadsFollowReads`). `AnswersAreKept` is `QInv` itself.
Each step then begins, completes or gives up a request of `QuorumSet`, or is not seen by it
(`BeginMapped`, `OnAnswerMapped`, `TimeoutMapped`, `QuietMapped`).

**StateObjects.** `SubscriptionsFollowObjects` proves `SubscribedWhileNoneIsDestroyed` for any
texts and ids. It is inductive with the types (`ShapeOK`) and `BereftExist`; an actor keeps its subscription
for an object or for what an assignment left behind (`Keeps`), and the argument is what each message does
to the last word of an actor about an id (`HearsAfterWord`, `HearsAfterOther`, `HearsAfterHead`),
and that the one text for which an object does not subscribe, the empty one, makes no valid id
(`EmptyTextIsInvalid`).
`OnlyTheUnawareLose` proves `OnlyUnawareIncrementsAreLost`, and `TypeCorrect` proves `TypeOK`, from
`CountsInv`. It bounds what a slot may be where the counter of an id is meant, in a message, a
replica, a delta buffer or a notification (`Limit`): the owner's increments on that id, or, if the
owner is confused, all of its increments. An object has this bound for the slot of its
owner only, the others may come from another id; but they are not published. An
owner that has missed nothing finds its count in its replica or on the way there (`AwareAreKept`). There
is no hypothesis about the ids: that no owner is confused is a condition of the property, and it is needed, as
a notification carries no id (`replica.hpp:172`). Without it TLC finds the property
violated by an actor that counts on one id, is notified, and merges that into its object of the other.
`NoCountIsInvented` holds of confused owners as well: no slot, anywhere, exceeds the number of increments
its owner has made on all ids.

**Uri.** `ValidTextsDenote`: any text, of whatever length, that makes a valid id is what the id
gives out, in lower case, up to a wildcard at the most, and the id is found by it; `TextsDenote`
proves `TextsDenoteIds` from it. `Traces` says what a text must have been for the parser to be in
a state; it holds after each character (`TracesStep`), so no number of characters is the
least for which it does not (`ParsingTraces`). The one state in which the parser keeps an id that is not the whole
text is `failed`, and it gets there with a path only from behind a wildcard. Two texts
with the same beginning leave the same parser (`SameBeginning`), so that the
id's own text is parsed to it again.

**VectorClock.** `CompareIsPointwise`: `compare` is the slot-wise order with missing slots
counting 0. `MergeIsMaximum`: `merge` leaves the slot-wise maximum.

**MvRegister.** `TypeCorrect`, `ClocksDecideCausality`, `ConcurrentValuesAreKept`,
`GetReturnsTheLastValue`, all from `RegistersAreSound`: of every register that is current or
was sent, the clock stands for exactly its events (`Exact`), the values not
overwritten are there and a single value has seen all events (`Sound`), and no
owner's slot is ahead of the owner (`Behindhand`), so that a new event is new to all.

Only model-checked: the liveness properties (`PairedNodesReconcile`, `HoldersShareStates`,
`ChangesReachSubscribers`, `RequestsComplete`, `Converge`, `RunningPeersConverge`), which are out of
reach of the prover. Every other property of a passing run is stated by a theorem. `LwwRegister` has no
theorem, as its run shows a violation.

## 5. Not modelled

- Of `gcounter` and `gmap`: increments by 0, values below the default, sums. Equal values in
  `mv_register`, and the delta its `merge` returns. The queries of `gset`, `gmap` and `gcounter`,
  which change nothing.
- Moves of state objects (which unsubscribe as copies do), and an assignment of an object to itself.
- `init` and the four intervals: they are handed to CAF and to the timers, and no
  property depends on how long an interval is.
- What `parse` returns, which nobody uses.
- CAF itself: typed messages, serialization, scheduling beyond fairness.
- Examples and tests, which are read as evidence only.

## 6. Plan

All components that change state are modelled, and every safety property of a passing run is
proved. What is left:

1. The safety half of the other liveness properties, as `WaitingIsOwed` is that of
   `RequestsComplete`: that a replica which is behind a node that knows it has an
   update or a state tick to come. What remains then of `Converge` is fairness.
2. A theorem about `LwwRegister` that says what a merge does keep.
