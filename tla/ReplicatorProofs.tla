--------------------------- MODULE ReplicatorProofs ---------------------------
(***************************************************************************)
(* Proofs about Replicator for any nodes, ids, deltas, configurations and  *)
(* bounds: it implements DistributionLayer, so that the theorems of        *)
(* DistributionLayerProofs hold of it, and its two safety properties.      *)
(***************************************************************************)
EXTENDS Replicator, DistributionLayerProofs

--------------------------------------------------------------------------------
(***************************************************************************)
(* The replicator is a host of the layer: every step of it is a step of    *)
(* DistributionLayer or leaves its variables alone.                        *)
(***************************************************************************)

\* An actor's request changes the ids of n or nothing.
LEMMA RequestStep ==
  ASSUME NEW n \in Node, NEW u \in Uri, Request(n, u)
  PROVE  HostChangesIds(n) \/ UNCHANGED vars
BY DEF Request, FindActor, HostChangesIds, vars

LEMMA QueryStep ==
  ASSUME NEW n \in Node, NEW u \in Uri, Query(n, u)
  PROVE  HostRequests(n)
BY DEF Query, FindActor, HostRequests

LEMMA ClientPublishesStep ==
  ASSUME NEW n \in Node, NEW u \in Uri, ClientPublishes(n, u)
  PROVE  HostPublishes(n)
BY DEF ClientPublishes, FindActor, HostPublishes

LEMMA DeleteReplicaStep ==
  ASSUME NEW n \in Node, NEW u \in Uri, DeleteReplica(n, u)
  PROVE  HostChangesIds(n) \/ UNCHANGED vars
<1>1. CASE AddId(n, u)
  BY <1>1 DEF DeleteReplica, HostChangesIds
<1>2. CASE UNCHANGED local
  BY <1>2 DEF DeleteReplica, vars
<1>3. QED
  BY <1>1, <1>2 DEF DeleteReplica

LEMMA TickStateStep ==
  ASSUME NEW n \in Node, NEW u \in Uri, TickState(n, u)
  PROVE  HostPublishes(n)
BY DEF TickState, HostPublishes

LEMMA HandleDelegatedStep ==
  ASSUME NEW n \in Node, NEW m \in Node, HandleUpdates(n, m) \/ HandleLocal(n, m)
  PROVE  OnDelegated(n, m)
BY DEF HandleUpdates, HandleLocal, HandleDelegated, FindActor, OnDelegated

LEMMA NextImplements == [ReplicatorNext]_allVars => [Next]_vars
<1>1. SUFFICES ASSUME ReplicatorNext PROVE [Next]_vars
  BY DEF allVars
<1>2. ASSUME NEW n \in Node, NEW u \in Uri, OfHost(n, u)
      PROVE  [Next]_vars
  BY <1>2, RequestStep, QueryStep, ClientPublishesStep, DeleteReplicaStep, TickStateStep
     DEF OfHost, Next
<1>3. ASSUME NEW n \in Node, NEW m \in Node, HandleUpdates(n, m) \/ HandleLocal(n, m)
      PROVE  Next
  BY <1>3, HandleDelegatedStep DEF Next
<1>4. ASSUME NEW n \in Node, NEW m \in Node, Layer(OfLayer(n, m))
      PROVE  Next
  BY <1>4 DEF Layer, OfLayer, Next
<1>5. ASSUME NEW n \in Node, Layer(TickIds(n) \/ TickBuffer(n))
      PROVE  Next
  BY <1>5 DEF Layer, Next
<1>6. ASSUME NEW msg \in net, Layer(Lose(msg))
      PROVE  Next
  BY <1>6 DEF Layer, Next
<1>7. QED
  BY <1>1, <1>2, <1>3, <1>4, <1>5, <1>6 DEF ReplicatorNext

\* The replicator actors are hosts that DistributionLayer allows, so what is
\* proved there for any host holds of them.
THEOREM ReplicatorImplementsLayer == ReplicatorSpec => ImplementsLayer
<1>1. ReplicatorInit => Init
  BY DEF ReplicatorInit
<1>2. QED
  BY <1>1, NextImplements, PTL DEF ReplicatorSpec, ImplementsLayer, Spec

--------------------------------------------------------------------------------
(***************************************************************************)
(* The host's variables.                                                   *)
(***************************************************************************)

\* The replicas of a node are among the ids it advertises: find_actor enters an
\* id with add_id when it spawns, and nothing takes an id back.
HoldersAdvertise ==
  \A n \in Node : states[n] \subseteq local[n].filter

HostInv == TypeOK /\ HostTypeOK /\ HoldersAdvertise

\* What find_actor does to the two sets.
LEMMA FindActorSets ==
  ASSUME HostInv, NEW n \in Node, NEW u \in Uri, FindActor(n, u)
  PROVE  /\ states' \in [Node -> SUBSET Uri]
         /\ HoldersAdvertise'
         /\ \A k \in Node : states'[k] \cup local'[k].filter
                              \subseteq states[k] \cup local[k].filter \cup {u}
         /\ \A k \in Node \ {n} : /\ states'[k] = states[k]
                                  /\ local'[k] = local[k]
<1>1. CASE UNCHANGED <<states, local>>
  BY <1>1 DEF HostInv, HostTypeOK, HoldersAdvertise
<1>2. CASE states' = [states EXCEPT ![n] = @ \cup {u}] /\ AddId(n, u)
  <2>1. /\ states[n] \in SUBSET Uri
        /\ states' \in [Node -> SUBSET Uri]
        /\ states'[n] = states[n] \cup {u}
        /\ \A k \in Node \ {n} : states'[k] = states[k]
    BY <1>2 DEF HostInv, HostTypeOK
  <2>2. /\ local'[n].filter = local[n].filter \cup {u}
        /\ \A k \in Node \ {n} : local'[k] = local[k]
    BY <1>2 DEF HostInv, TypeOK, AddId, ModifyIds
  <2>3. QED
    BY <2>1, <2>2 DEF HostInv, HostTypeOK, HoldersAdvertise
<1>3. QED
  BY <1>1, <1>2 DEF FindActor

\* delete_replica leaves no replica of u, and at most advertises it.
LEMMA DeleteReplicaSets ==
  ASSUME HostInv, NEW n \in Node, NEW u \in Uri, DeleteReplica(n, u)
  PROVE  /\ states' \in [Node -> SUBSET Uri]
         /\ HoldersAdvertise'
         /\ \A k \in Node : states'[k] \cup local'[k].filter
                              \subseteq states[k] \cup local[k].filter \cup {u}
         /\ \A k \in Node \ {n} : /\ states'[k] = states[k]
                                  /\ local'[k] = local[k]
<1>1. /\ states[n] \in SUBSET Uri
      /\ states' \in [Node -> SUBSET Uri]
      /\ states'[n] = states[n] \ {u}
      /\ \A k \in Node \ {n} : states'[k] = states[k]
  BY DEF HostInv, HostTypeOK, DeleteReplica
<1>2. CASE UNCHANGED local
  BY <1>1, <1>2 DEF HostInv, HostTypeOK, HoldersAdvertise
<1>3. CASE AddId(n, u)
  <2>1. /\ local'[n].filter = local[n].filter \cup {u}
        /\ \A k \in Node \ {n} : local'[k] = local[k]
    BY <1>3 DEF HostInv, TypeOK, AddId, ModifyIds
  <2>2. QED
    BY <1>1, <2>1 DEF HostInv, HostTypeOK, HoldersAdvertise
<1>4. QED
  BY <1>2, <1>3 DEF DeleteReplica

\* A request of an actor enters u into wanted, and nothing else.
LEMMA AskedSets ==
  ASSUME HostInv, NEW n \in Node, NEW u \in Uri, Asked(n, u)
  PROVE  /\ wanted' \in [Node -> SUBSET Uri]
         /\ \A k \in Node : wanted[k] \subseteq wanted'[k]
         /\ u \in wanted'[n]
BY DEF HostInv, HostTypeOK, Asked

\* The steps of the layer alone.
LayerStep ==
  \/ \E n, m \in Node : OfLayer(n, m)
  \/ \E n \in Node : TickIds(n) \/ TickBuffer(n)
  \/ \E msg \in net : Lose(msg)

\* They change neither the ids nor the host.
LEMMA LayerStepHost ==
  ASSUME LayerStep
  PROVE  UNCHANGED local
<1>1. ASSUME NEW n \in Node, NEW m \in Node, OfLayer(n, m)
      PROVE  UNCHANGED local
  BY <1>1 DEF OfLayer, NewConnection, ConnectionLost, OnGetIds, OnIds, distVars
<1>2. QED
  BY <1>1 DEF LayerStep, TickIds, TickBuffer, Lose, distVars

\* A step of the replicators is one of its hosts or one of the layer.
LEMMA NextCases ==
  ASSUME ReplicatorNext
  PROVE  \/ \E n \in Node, u \in Uri : OfHost(n, u)
         \/ \E n, m \in Node : HandleUpdates(n, m) \/ HandleLocal(n, m)
         \/ LayerStep /\ UNCHANGED hostVars
BY DEF ReplicatorNext, Layer, LayerStep

LEMMA HostInvNext == HostInv /\ [ReplicatorNext]_allVars => HostInv'
<1> SUFFICES ASSUME HostInv, [ReplicatorNext]_allVars PROVE HostInv'
  OBVIOUS
<1>1. TypeOK'
  BY NextImplements, NextType DEF HostInv
<1>2. ASSUME NEW n \in Node, NEW u \in Uri, OfHost(n, u) PROVE HostInv'
  <2>1. CASE Request(n, u) \/ Query(n, u) \/ ClientPublishes(n, u)
    <3>1. FindActor(n, u) /\ Asked(n, u)
      BY <2>1 DEF Request, Query, ClientPublishes
    <3>2. QED
      BY <1>1, <3>1, FindActorSets, AskedSets DEF HostInv, HostTypeOK
  <2>2. CASE DeleteReplica(n, u)
    <3>1. Asked(n, u)
      BY <2>2 DEF DeleteReplica
    <3>2. QED
      BY <1>1, <2>2, <3>1, DeleteReplicaSets, AskedSets DEF HostInv, HostTypeOK
  <2>3. CASE TickState(n, u)
    BY <1>1, <2>3 DEF TickState, hostVars, HostInv, HostTypeOK, HoldersAdvertise
  <2>4. QED
    BY <1>2, <2>1, <2>2, <2>3 DEF OfHost
<1>3. ASSUME NEW n \in Node, NEW m \in Node, HandleUpdates(n, m) \/ HandleLocal(n, m)
      PROVE  HostInv'
  <2>1. PICK msg \in net : msg.type \in {"updates", "local"} /\ FindActor(n, msg.id)
    BY <1>3 DEF HandleUpdates, HandleLocal, HandleDelegated
  <2>2. msg.id \in Uri
    BY <2>1, MessageFields DEF HostInv, TypeOK
  <2>3. UNCHANGED wanted
    BY <1>3 DEF HandleUpdates, HandleLocal, HandleDelegated
  <2>4. QED
    BY <1>1, <2>1, <2>2, <2>3, FindActorSets DEF HostInv, HostTypeOK
<1>4. CASE LayerStep /\ UNCHANGED hostVars
  BY <1>1, <1>4, LayerStepHost DEF hostVars, HostInv, HostTypeOK, HoldersAdvertise
<1>5. CASE UNCHANGED allVars
  BY <1>1, <1>5 DEF allVars, vars, hostVars, HostInv, HostTypeOK, HoldersAdvertise
<1>6. QED
  BY <1>2, <1>3, <1>4, <1>5, NextCases

LEMMA HostInvInit == ReplicatorInit => HostInv
<1>1. ReplicatorInit => TypeOK
  BY DEF ReplicatorInit, Init, TypeOK, NoEntry
<1>2. QED
  BY <1>1 DEF ReplicatorInit, HostInv, HostTypeOK, HoldersAdvertise

\* The host's variables keep their types.
THEOREM HostTypeCorrect == ReplicatorSpec => []HostTypeOK
<1>1. HostInv => HostTypeOK
  BY DEF HostInv
<1>2. QED
  BY <1>1, HostInvInit, HostInvNext, PTL DEF ReplicatorSpec

\* Whoever has n's current version sends n the updates of every replica n has: the
\* replica's id is advertised, the version comparison is sound and the two indexes
\* agree (replicator_actor.cpp:55-70, distribution_layer.hpp:95-167).
THEOREM CaughtUpPeersDoSend == ReplicatorSpec => []CaughtUpPeersSend
<1>1. /\ HostTypeOK /\ HoldersAdvertise
      /\ IndexMatchesFilters /\ CaughtUpViewsAreExact
      => CaughtUpPeersSend
  <2>1. SUFFICES ASSUME HostTypeOK, HoldersAdvertise,
                        IndexMatchesFilters, CaughtUpViewsAreExact,
                        NEW n \in Node, NEW m \in Node, NEW u \in states[n],
                        store[m][n].known, store[m][n].version = local[n].version
                 PROVE  n \in uriNodes[m][u]
    BY DEF CaughtUpPeersSend
  <2>2. u \in Uri
    BY <2>1 DEF HostTypeOK
  <2>3. u \in store[m][n].filter
    BY <2>1 DEF HoldersAdvertise, CaughtUpViewsAreExact
  <2>4. n \in Intrested(m, u)
    BY <2>1, <2>3 DEF Intrested
  <2>5. QED
    BY <2>1, <2>2, <2>4 DEF IndexMatchesFilters
<1>2. HostInv => HostTypeOK /\ HoldersAdvertise
  BY DEF HostInv
<1>3. ReplicatorSpec => Spec
  BY ReplicatorImplementsLayer DEF ImplementsLayer
<1>4. QED
  BY <1>1, <1>2, <1>3, HostInvInit, HostInvNext, IndexesAgree, SilenceIsSound, PTL
     DEF ReplicatorSpec

--------------------------------------------------------------------------------
(***************************************************************************)
(* Interest is not contagious.  The invariant follows the ids of a node    *)
(* wherever they go: answers, the views and indexes of its peers, and the  *)
(* updates that peers send it because of them.                             *)
(***************************************************************************)

\* Nobody believes that a node holds an id that its actors have not asked for.
ViewsAreWanted ==
  \A n, m \in Node : store[n][m].filter \subseteq wanted[m]

IndexIsWanted ==
  \A n, m \in Node : \A u \in Uri : m \in uriNodes[n][u] => u \in wanted[m]

\* An answer lists ids its sender wants; updates, reads and writes are for ids their
\* addressee wants.
MessageIsWanted(msg) ==
  /\ msg.type = "ids" => msg.filter \subseteq wanted[msg.from]
  /\ msg.type \in {"updates", "local"} => msg.id \in wanted[msg.to]

MessagesAreWanted == \A msg \in net : MessageIsWanted(msg)

LayerIsWanted == ViewsAreWanted /\ IndexIsWanted /\ MessagesAreWanted

WantedInv == HostInv /\ OnlyWantedIdsSpread /\ LayerIsWanted

\* It is enough to look at the messages a step sends.
LEMMA WantedMessages ==
  ASSUME HostInv, MessagesAreWanted, UNCHANGED wanted, NEW New,
         net' \subseteq net \cup New,
         \A msg \in New : MessageIsWanted(msg)
  PROVE  MessagesAreWanted'
BY DEF MessagesAreWanted, MessageIsWanted

LEMMA NewConnectionWanted ==
  ASSUME WantedInv, NEW n \in Node, NEW m \in Node, NewConnection(n, m), UNCHANGED wanted
  PROVE  LayerIsWanted'
<1>1. MessagesAreWanted'
  <2>1. PICK New : net' \subseteq net \cup New /\ New = {GetIdsMsg(n, m, 0)}
    BY DEF NewConnection, AddNewNode
  <2>2. \A msg \in New : msg.type = "get_ids"
    BY <2>1 DEF GetIdsMsg
  <2>3. QED
    BY <2>1, <2>2, WantedMessages DEF WantedInv, LayerIsWanted, MessageIsWanted
<1>2. ASSUME NEW k \in Node, NEW l \in Node
      PROVE  store'[k][l].filter \subseteq store[k][l].filter
  <2>1. CASE UNCHANGED store
    BY <2>1
  <2>2. CASE store' = [store EXCEPT ![n][m] = IF @.known THEN @ ELSE NewEntry]
    <3>1. store \in [Node -> [Node -> Record]]
      BY DEF WantedInv, HostInv, TypeOK, Record
    <3>2. store'[k][l] = store[k][l] \/ store'[k][l] = NewEntry
      BY <2>2, <3>1
    <3>3. QED
      BY <3>2 DEF NewEntry
  <2>3. QED
    BY <2>1, <2>2 DEF NewConnection, AddNewNode
<1>3. ViewsAreWanted' /\ IndexIsWanted'
  BY <1>2 DEF NewConnection, ViewsAreWanted, IndexIsWanted, WantedInv, LayerIsWanted
<1>4. QED
  BY <1>1, <1>3 DEF LayerIsWanted

LEMMA ConnectionLostWanted ==
  ASSUME WantedInv, NEW n \in Node, NEW m \in Node, ConnectionLost(n, m), UNCHANGED wanted
  PROVE  LayerIsWanted'
<1>1. ASSUME NEW k \in Node, NEW l \in Node
      PROVE  /\ store'[k][l].filter \subseteq store[k][l].filter
             /\ \A u \in Uri : uriNodes'[k][u] \subseteq uriNodes[k][u]
  BY DEF ConnectionLost, RemoveNode, NoEntry, WantedInv, HostInv, TypeOK
<1>2. QED
  BY <1>1 DEF ConnectionLost, LayerIsWanted, ViewsAreWanted, IndexIsWanted,
              MessagesAreWanted, MessageIsWanted, WantedInv

LEMMA TickIdsWanted ==
  ASSUME WantedInv, NEW n \in Node, TickIds(n), UNCHANGED wanted
  PROVE  LayerIsWanted'
<1>1. PICK New : /\ net' = net \cup New
                 /\ New = UNION {Sent(n, m, GetIdsMsg(n, m, store[n][m].version)) :
                                   m \in {k \in Node : store[n][k].known}}
  BY DEF TickIds, PullIds
<1>2. \A msg \in New : msg.type = "get_ids"
  BY <1>1 DEF Sent, GetIdsMsg
<1>3. MessagesAreWanted'
  BY <1>1, <1>2, WantedMessages DEF WantedInv, LayerIsWanted, MessageIsWanted
<1>4. QED
  BY <1>3 DEF TickIds, distVars, LayerIsWanted, ViewsAreWanted, IndexIsWanted, WantedInv

LEMMA TickBufferWanted ==
  ASSUME WantedInv, NEW n \in Node, TickBuffer(n), UNCHANGED wanted
  PROVE  LayerIsWanted'
<1>1. PICK New :
        /\ net' = net \cup New
        /\ New = UNION {Sent(n, p[2], UpdatesMsg(n, p[2], p[1], buffer[n][p[1]])) :
                          p \in FlushTargets(n)}
  BY DEF TickBuffer, FlushBuffer
<1>2. ASSUME NEW p \in FlushTargets(n)
      PROVE  p[1] \in wanted[p[2]]
  BY DEF FlushTargets, WantedInv, LayerIsWanted, IndexIsWanted
<1>3. ASSUME NEW msg \in New
      PROVE  msg.type = "updates" /\ msg.id \in wanted[msg.to]
  <2>1. PICK p \in FlushTargets(n) :
          msg = UpdatesMsg(n, p[2], p[1], buffer[n][p[1]])
    BY <1>1 DEF Sent
  <2>2. QED
    BY <1>2, <2>1 DEF UpdatesMsg
<1>4. MessagesAreWanted'
  BY <1>1, <1>3, WantedMessages DEF WantedInv, LayerIsWanted, MessageIsWanted
<1>5. ASSUME NEW k \in Node, NEW l \in Node
      PROVE  store'[k][l].filter = store[k][l].filter
  BY DEF TickBuffer, FlushBuffer, Entry, WantedInv, HostInv, TypeOK
<1>6. QED
  BY <1>4, <1>5 DEF TickBuffer, LayerIsWanted, ViewsAreWanted, IndexIsWanted, WantedInv

LEMMA OnGetIdsWanted ==
  ASSUME WantedInv, NEW n \in Node, NEW m \in Node, OnGetIds(n, m), UNCHANGED wanted
  PROVE  LayerIsWanted'
<1>1. PICK old \in net : net' = (net \ {old}) \cup GetIds(n, m, old.seen)
  BY DEF OnGetIds
<1>2. local[n].filter \subseteq wanted[n]
  BY DEF WantedInv, OnlyWantedIdsSpread
<1>3. \A msg \in GetIds(n, m, old.seen) :
        msg.type = "ids" /\ msg.from = n /\ msg.filter = local[n].filter
  BY DEF GetIds, Sent, IdsMsg
<1>4. MessagesAreWanted'
  BY <1>1, <1>2, <1>3, WantedMessages DEF WantedInv, LayerIsWanted, MessageIsWanted
<1>5. QED
  BY <1>4 DEF OnGetIds, distVars, LayerIsWanted, ViewsAreWanted, IndexIsWanted, WantedInv

LEMMA OnIdsWanted ==
  ASSUME WantedInv, NEW n \in Node, NEW m \in Node, OnIds(n, m), UNCHANGED wanted
  PROVE  LayerIsWanted'
<1>1. PICK msg \in net : /\ msg.type = "ids" /\ msg.from = m
                         /\ Update(n, m, msg.version, msg.filter)
                         /\ net' = net \ {msg}
  BY DEF OnIds
<1>2. msg.filter \subseteq wanted[m]
  BY <1>1 DEF WantedInv, LayerIsWanted, MessagesAreWanted, MessageIsWanted
<1>3. MessagesAreWanted'
  BY <1>1 DEF WantedInv, LayerIsWanted, MessagesAreWanted, MessageIsWanted
<1>4. ASSUME NEW k \in Node, NEW l \in Node
      PROVE  \/ store'[k][l].filter = store[k][l].filter
             \/ l = m /\ store'[k][l].filter = msg.filter
  <2>1. store \in [Node -> [Node -> Record]] /\ Entry(n, m) \in Record
    BY EntryType DEF WantedInv, HostInv, TypeOK, Record
  <2>2. Entry(n, m).filter = store[n][m].filter
    BY <2>1 DEF Entry, Record
  <2>3. PICK r : /\ store' = [store EXCEPT ![n][m] = r]
                 /\ r.filter \in {store[n][m].filter, msg.filter}
    <3>1. [Entry(n, m) EXCEPT !.version = msg.version, !.filter = msg.filter].filter
            = msg.filter
      BY <2>1 DEF Record
    <3>2. QED
      BY <1>1, <2>2, <3>1 DEF Update
  <2>4. QED
    BY <2>1, <2>3
<1>5. ASSUME NEW k \in Node, NEW u \in Uri, NEW l \in uriNodes'[k][u]
      PROVE  l \in uriNodes[k][u] \/ (l = m /\ u \in msg.filter)
  <2>1. uriNodes \in [Node -> [Uri -> SUBSET Node]]
    BY DEF WantedInv, HostInv, TypeOK
  <2>2. CASE UNCHANGED uriNodes
    BY <2>2
  <2>3. CASE uriNodes' = Reindexed(n, m, store[n][m].filter, msg.filter)
    BY <2>1, <2>3 DEF Reindexed
  <2>4. QED
    BY <1>1, <2>2, <2>3 DEF Update
<1>6. ViewsAreWanted'
  BY <1>2, <1>4 DEF ViewsAreWanted, WantedInv, LayerIsWanted
<1>7. IndexIsWanted'
  BY <1>2, <1>5 DEF IndexIsWanted, WantedInv, LayerIsWanted
<1>8. QED
  BY <1>3, <1>6, <1>7 DEF LayerIsWanted

\* The handlers of the layer keep the ids where they are wanted.
LEMMA LayerStepWanted ==
  ASSUME WantedInv, LayerStep, UNCHANGED wanted
  PROVE  LayerIsWanted'
<1>1. ASSUME NEW n \in Node, NEW m \in Node, OfLayer(n, m)
      PROVE  LayerIsWanted'
  BY <1>1, NewConnectionWanted, ConnectionLostWanted, OnGetIdsWanted, OnIdsWanted
     DEF OfLayer
<1>2. ASSUME NEW msg \in net, Lose(msg)
      PROVE  LayerIsWanted'
  BY <1>2 DEF Lose, distVars, WantedInv, LayerIsWanted, ViewsAreWanted, IndexIsWanted,
              MessagesAreWanted, MessageIsWanted
<1>3. QED
  BY <1>1, <1>2, TickIdsWanted, TickBufferWanted DEF LayerStep

\* All that a step sends are reads and writes for ids their addressees want.
SentAreWanted ==
  \A msg \in net' \ net :
    msg.type = "local" /\ msg.to \in Node /\ msg.id \in wanted[msg.to]

\* So do those of the host: actors only ask for more, and readers and writers only
\* ask nodes that want the id.
LEMMA HostStepWanted ==
  ASSUME WantedInv, UNCHANGED <<store, uriNodes>>, SentAreWanted,
         \A k \in Node : wanted[k] \subseteq wanted'[k]
  PROVE  LayerIsWanted'
<1>1. ViewsAreWanted' /\ IndexIsWanted'
  BY DEF WantedInv, LayerIsWanted, ViewsAreWanted, IndexIsWanted
<1>2. ASSUME NEW msg \in net'
      PROVE  MessageIsWanted(msg)'
  <2>1. CASE msg \in net
    <3>1. msg.from \in Node /\ msg.to \in Node
      BY <2>1, MessageFields DEF WantedInv, HostInv, TypeOK
    <3>2. QED
      BY <2>1, <3>1 DEF WantedInv, LayerIsWanted, MessagesAreWanted, MessageIsWanted
  <2>2. CASE msg \notin net
    BY <2>2 DEF SentAreWanted, MessageIsWanted
  <2>3. QED
    BY <2>1, <2>2
<1>3. QED
  BY <1>1, <1>2 DEF LayerIsWanted, MessagesAreWanted

\* What readers and writers send goes to nodes that want the id, as the view of their
\* node has it.
LEMMA LocalsAreWanted ==
  ASSUME WantedInv, NEW n \in Node, NEW u \in Uri, SendLocals(n, u)
  PROVE  SentAreWanted
<1>1. \A m \in Intrested(n, u) : m \in Node /\ u \in wanted[m]
  BY DEF Intrested, WantedInv, LayerIsWanted, ViewsAreWanted
<1>2. ASSUME NEW msg \in {LocalMsg(n, m, u) : m \in Intrested(n, u)}
      PROVE  msg.type = "local" /\ msg.to \in Node /\ msg.id \in wanted[msg.to]
  <2>1. PICK m \in Intrested(n, u) : msg = LocalMsg(n, m, u)
    OBVIOUS
  <2>2. QED
    BY <1>1, <2>1 DEF LocalMsg
<1>3. QED
  BY <1>2, SendLocalsSends DEF SentAreWanted

LEMMA WantedInvNext == WantedInv /\ [ReplicatorNext]_allVars => WantedInv'
<1> SUFFICES ASSUME WantedInv, [ReplicatorNext]_allVars PROVE WantedInv'
  OBVIOUS
<1>1. HostInv'
  BY HostInvNext DEF WantedInv
<1>2. ASSUME NEW n \in Node, NEW u \in Uri, OfHost(n, u) PROVE WantedInv'
  <2>1. CASE Request(n, u) \/ Query(n, u) \/ ClientPublishes(n, u) \/ DeleteReplica(n, u)
    <3>1. /\ Asked(n, u) /\ UNCHANGED <<store, uriNodes>>
          /\ SendLocals(n, u) \/ UNCHANGED net
      BY <2>1 DEF Request, Query, ClientPublishes, DeleteReplica
    <3>2. FindActor(n, u) \/ DeleteReplica(n, u)
      BY <2>1 DEF Request, Query, ClientPublishes
    <3>3. /\ \A k \in Node : states'[k] \cup local'[k].filter
                               \subseteq states[k] \cup local[k].filter \cup {u}
          /\ \A k \in Node \ {n} : states'[k] = states[k] /\ local'[k] = local[k]
      BY <3>2, FindActorSets, DeleteReplicaSets DEF WantedInv
    <3>4. u \in wanted'[n] /\ \A k \in Node : wanted[k] \subseteq wanted'[k]
      BY <3>1, AskedSets DEF WantedInv
    <3>5. OnlyWantedIdsSpread'
      BY <3>3, <3>4 DEF WantedInv, OnlyWantedIdsSpread
    <3>6. SentAreWanted
      BY <3>1, LocalsAreWanted DEF SentAreWanted
    <3>7. QED
      BY <1>1, <3>1, <3>4, <3>5, <3>6, HostStepWanted DEF WantedInv
  <2>2. CASE TickState(n, u)
    BY <1>1, <2>2, HostStepWanted
       DEF TickState, hostVars, SentAreWanted, WantedInv, OnlyWantedIdsSpread
  <2>3. QED
    BY <1>2, <2>1, <2>2 DEF OfHost
<1>3. ASSUME NEW n \in Node, NEW m \in Node, HandleUpdates(n, m) \/ HandleLocal(n, m)
      PROVE  WantedInv'
  <2>1. PICK msg \in net : /\ msg.type \in {"updates", "local"} /\ msg.to = n
                           /\ FindActor(n, msg.id)
                           /\ net' = net \ {msg}
    BY <1>3 DEF HandleUpdates, HandleLocal, HandleDelegated
  <2>2. msg.id \in Uri /\ msg.id \in wanted[n]
    BY <2>1, MessageFields
       DEF WantedInv, HostInv, TypeOK, LayerIsWanted, MessagesAreWanted, MessageIsWanted
  <2>3. UNCHANGED <<wanted, store, uriNodes>>
    BY <1>3 DEF HandleUpdates, HandleLocal, HandleDelegated
  <2>4. OnlyWantedIdsSpread'
    <3>1. /\ \A k \in Node : states'[k] \cup local'[k].filter
                               \subseteq states[k] \cup local[k].filter \cup {msg.id}
          /\ \A k \in Node \ {n} : states'[k] = states[k] /\ local'[k] = local[k]
      BY <2>1, <2>2, FindActorSets DEF WantedInv
    <3>2. QED
      BY <2>2, <2>3, <3>1 DEF WantedInv, OnlyWantedIdsSpread
  <2>5. QED
    BY <1>1, <2>1, <2>3, <2>4, HostStepWanted DEF SentAreWanted, WantedInv
<1>4. CASE LayerStep /\ UNCHANGED hostVars
  BY <1>1, <1>4, LayerStepHost, LayerStepWanted DEF hostVars, WantedInv, OnlyWantedIdsSpread
<1>5. CASE UNCHANGED allVars
  BY <1>1, <1>5, HostStepWanted
     DEF allVars, vars, hostVars, SentAreWanted, WantedInv, OnlyWantedIdsSpread
<1>6. QED
  BY <1>2, <1>3, <1>4, <1>5, NextCases

\* No node ever holds or advertises an id that none of its own actors has asked
\* for, although it spawns a replica for any updates, reads and writes of other nodes
\* that reach it (replicator_actor.cpp:74-77, 136-138, 159-164, 185-196).
THEOREM InterestIsNotContagious == ReplicatorSpec => []OnlyWantedIdsSpread
<1>1. ReplicatorInit => WantedInv
  BY HostInvInit DEF ReplicatorInit, Init, NoEntry, WantedInv, OnlyWantedIdsSpread,
     LayerIsWanted, ViewsAreWanted, IndexIsWanted, MessagesAreWanted
<1>2. WantedInv => OnlyWantedIdsSpread
  BY DEF WantedInv
<1>3. QED
  BY <1>1, <1>2, WantedInvNext, PTL DEF ReplicatorSpec

================================================================================
