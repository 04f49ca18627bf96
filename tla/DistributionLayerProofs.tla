----------------------- MODULE DistributionLayerProofs -----------------------
(***************************************************************************)
(* Proofs about DistributionLayer for any set of nodes, ids and deltas and *)
(* any bounds: type correctness, the agreement of the two indexes, and the *)
(* soundness of the version comparison that lets get_ids stay silent.      *)
(***************************************************************************)
EXTENDS DistributionLayer, TLAPS

Record == [known : BOOLEAN, version : Nat, replicator : BOOLEAN, filter : SUBSET Uri]

--------------------------------------------------------------------------------
(***************************************************************************)
(* Type correctness.                                                       *)
(***************************************************************************)

\* The four kinds of messages have the fields their handlers read.
LEMMA MessageFields ==
  ASSUME NEW msg \in Message
  PROVE  /\ msg.from \in Node /\ msg.to \in Node
         /\ msg.type = "get_ids" => msg.seen \in Nat
         /\ msg.type = "ids" => msg.version \in Nat /\ msg.filter \in SUBSET Uri
         /\ msg.type = "updates" => msg.id \in Uri /\ msg.msgs \in SUBSET Delta
         /\ msg.type = "local" => msg.id \in Uri
BY DEF Message

\* The constructors build messages of the right type.
LEMMA MessagesBuilt ==
  ASSUME NEW n \in Node, NEW m \in Node
  PROVE  /\ \A v \in Nat : GetIdsMsg(n, m, v) \in Message
         /\ \A v \in Nat, f \in SUBSET Uri : IdsMsg(n, m, v, f) \in Message
         /\ \A u \in Uri, s \in SUBSET Delta : UpdatesMsg(n, m, u, s) \in Message
         /\ \A u \in Uri : LocalMsg(n, m, u) \in Message
BY DEF GetIdsMsg, IdsMsg, UpdatesMsg, LocalMsg, Message

\* A send adds the message or nothing.
LEMMA SentAtMost ==
  ASSUME NEW n, NEW m, NEW msg
  PROVE  Sent(n, m, msg) \subseteq {msg}
BY DEF Sent

\* Changing fields of an entry gives an entry.
LEMMA RecordFields ==
  ASSUME NEW r \in Record, NEW v \in Nat, NEW f \in SUBSET Uri
  PROVE  /\ [r EXCEPT !.known = TRUE] \in Record
         /\ [r EXCEPT !.version = v, !.filter = f] \in Record
<1>1. [r EXCEPT !.known = TRUE] \in Record
  BY Zenon DEF Record
<1>2. [r EXCEPT !.version = v, !.filter = f] \in Record
  BY Zenon DEF Record
<1>3. QED
  BY <1>1, <1>2

\* What operator[] leaves behind is an entry.
LEMMA EntryType ==
  ASSUME TypeOK, NEW n \in Node, NEW m \in Node
  PROVE  /\ store[n][m] \in Record
         /\ Entry(n, m) \in Record
<1>1. store[n][m] \in Record
  BY DEF TypeOK, Record
<1>2. QED
  BY <1>1, RecordFields DEF Entry

\* The handlers of the replicator preserve the types of the variables they
\* assign.
LEMMA ModifyIdsType ==
  ASSUME TypeOK, NEW n \in Node, NEW f \in SUBSET Uri, ModifyIds(n, f)
  PROVE  local' \in [Node -> [version : Nat, filter : SUBSET Uri]]
BY DEF TypeOK, ModifyIds

LEMMA AddIdType ==
  ASSUME TypeOK, NEW n \in Node, NEW u \in Uri, AddId(n, u) \/ RemoveId(n, u)
  PROVE  local' \in [Node -> [version : Nat, filter : SUBSET Uri]]
<1>1. local[n].filter \in SUBSET Uri
  BY DEF TypeOK
<1>2. local[n].filter \cup {u} \in SUBSET Uri /\ local[n].filter \ {u} \in SUBSET Uri
  BY <1>1
<1>3. QED
  BY <1>2, ModifyIdsType DEF AddId, RemoveId

LEMMA ReindexedType ==
  ASSUME TypeOK, NEW n \in Node, NEW m \in Node, NEW old, NEW new
  PROVE  Reindexed(n, m, old, new) \in [Node -> [Uri -> SUBSET Node]]
BY DEF TypeOK, Reindexed

LEMMA StoreWithEntryType ==
  ASSUME TypeOK, NEW n \in Node, NEW m \in Node, NEW r \in Record
  PROVE  [store EXCEPT ![n][m] = r] \in [Node -> [Node -> Record]]
BY DEF TypeOK, Record

LEMMA NewConnectionType ==
  ASSUME TypeOK, NEW n \in Node, NEW m \in Node, NewConnection(n, m)
  PROVE  TypeOK'
<1>1. CASE UNCHANGED <<store, net>>
  BY <1>1 DEF TypeOK, NewConnection
<1>2. CASE /\ store' = [store EXCEPT ![n][m] =
                          IF @.known THEN @ ELSE NewEntry]
           /\ net' = net \cup {GetIdsMsg(n, m, 0)}
  <2>1. store[n][m] \in Record /\ NewEntry \in Record
    BY EntryType DEF NewEntry, Record
  <2>2. store' \in [Node -> [Node -> Record]]
    BY <1>2, <2>1 DEF TypeOK, Record
  <2>3. net' \in SUBSET Message
    <3>1. GetIdsMsg(n, m, 0) \in Message
      BY MessagesBuilt
    <3>2. QED
      BY <1>2, <3>1 DEF TypeOK
  <2>4. QED
    BY <2>2, <2>3 DEF TypeOK, NewConnection, Record
<1>3. QED
  BY <1>1, <1>2 DEF NewConnection, AddNewNode

LEMMA ConnectionLostType ==
  ASSUME TypeOK, NEW n \in Node, NEW m \in Node, ConnectionLost(n, m)
  PROVE  TypeOK'
<1>1. store' \in [Node -> [Node -> Record]]
  BY StoreWithEntryType DEF ConnectionLost, RemoveNode, NoEntry, Record
<1>2. uriNodes' \in [Node -> [Uri -> SUBSET Node]]
  BY DEF TypeOK, ConnectionLost, RemoveNode
<1>3. QED
  BY <1>1, <1>2 DEF TypeOK, ConnectionLost, Record

LEMMA TickIdsType ==
  ASSUME TypeOK, NEW n \in Node, TickIds(n)
  PROVE  TypeOK'
<1>1. ASSUME NEW m \in Node
      PROVE  Sent(n, m, GetIdsMsg(n, m, store[n][m].version)) \in SUBSET Message
  <2>1. store[n][m].version \in Nat
    BY DEF TypeOK
  <2>2. GetIdsMsg(n, m, store[n][m].version) \in Message
    BY <2>1, MessagesBuilt
  <2>3. QED
    BY <2>2, SentAtMost
<1>2. net' \in SUBSET Message
  BY <1>1 DEF TypeOK, TickIds, PullIds
<1>3. QED
  BY <1>2 DEF TypeOK, TickIds, distVars

LEMMA TickBufferType ==
  ASSUME TypeOK, NEW n \in Node, TickBuffer(n)
  PROVE  TypeOK'
<1>1. ASSUME NEW p \in FlushTargets(n)
      PROVE  Sent(n, p[2], UpdatesMsg(n, p[2], p[1], buffer[n][p[1]])) \in SUBSET Message
  <2>1. p[1] \in Uri /\ p[2] \in Node
    BY DEF FlushTargets
  <2>2. buffer[n][p[1]] \in SUBSET Delta
    BY <2>1 DEF TypeOK
  <2>3. UpdatesMsg(n, p[2], p[1], buffer[n][p[1]]) \in Message
    BY <2>1, <2>2, MessagesBuilt
  <2>4. QED
    BY <2>3, SentAtMost
<1>2. net' \in SUBSET Message
  BY <1>1 DEF TypeOK, TickBuffer, FlushBuffer
<1>3. \A m \in Node : store[n][m] \in Record /\ Entry(n, m) \in Record
  BY EntryType
<1>4. store' \in [Node -> [Node -> Record]]
  BY <1>3 DEF TypeOK, TickBuffer, FlushBuffer, Record
<1>5. buffer' \in [Node -> [Uri -> SUBSET Delta]]
  BY DEF TypeOK, TickBuffer, FlushBuffer
<1>6. QED
  BY <1>2, <1>4, <1>5 DEF TypeOK, TickBuffer, Record

LEMMA OnGetIdsType ==
  ASSUME TypeOK, NEW n \in Node, NEW m \in Node, OnGetIds(n, m)
  PROVE  TypeOK'
<1>1. local[n].version \in Nat /\ local[n].filter \in SUBSET Uri
  BY DEF TypeOK
<1>2. IdsMsg(n, m, local[n].version, local[n].filter) \in Message
  BY <1>1, MessagesBuilt
<1>3. \A seen : GetIds(n, m, seen) \in SUBSET Message
  BY <1>2, SentAtMost DEF GetIds
<1>4. net' \in SUBSET Message
  BY <1>3 DEF TypeOK, OnGetIds
<1>5. QED
  BY <1>4 DEF TypeOK, OnGetIds, distVars

LEMMA OnIdsType ==
  ASSUME TypeOK, NEW n \in Node, NEW m \in Node, OnIds(n, m)
  PROVE  TypeOK'
<1>1. PICK msg \in net : /\ msg.type = "ids" /\ msg.to = n /\ msg.from = m
                         /\ Update(n, m, msg.version, msg.filter)
                         /\ net' = net \ {msg}
  BY DEF OnIds
<1>2. msg.version \in Nat /\ msg.filter \in SUBSET Uri
  BY <1>1, MessageFields DEF TypeOK
<1>3. /\ Entry(n, m) \in Record
      /\ [Entry(n, m) EXCEPT !.version = msg.version, !.filter = msg.filter] \in Record
  BY <1>2, EntryType, RecordFields
<1>4. store' \in [Node -> [Node -> Record]]
  BY <1>1, <1>3, StoreWithEntryType DEF Update
<1>5. uriNodes' \in [Node -> [Uri -> SUBSET Node]]
  BY <1>1, ReindexedType DEF Update, TypeOK
<1>6. QED
  BY <1>1, <1>4, <1>5 DEF TypeOK, OnIds, Record

LEMMA OnDelegatedType ==
  ASSUME TypeOK, NEW n \in Node, NEW m \in Node, OnDelegated(n, m)
  PROVE  TypeOK'
<1>1. PICK msg \in net : /\ msg.type \in {"updates", "local"}
                         /\ AddId(n, msg.id) \/ UNCHANGED local
                         /\ net' = net \ {msg}
  BY DEF OnDelegated
<1>2. msg.id \in Uri
  BY <1>1, MessageFields DEF TypeOK
<1>3. local' \in [Node -> [version : Nat, filter : SUBSET Uri]]
  BY <1>1, <1>2, AddIdType DEF TypeOK
<1>4. QED
  BY <1>1, <1>3 DEF TypeOK, OnDelegated

LEMMA HostPublishesType ==
  ASSUME TypeOK, NEW n \in Node, HostPublishes(n)
  PROVE  TypeOK'
<1>1. PICK u \in Uri, d \in Delta : Publish(n, u, d) /\ (AddId(n, u) \/ UNCHANGED local)
  BY DEF HostPublishes
<1>2. local' \in [Node -> [version : Nat, filter : SUBSET Uri]]
  BY <1>1, AddIdType DEF TypeOK
<1>3. buffer' \in [Node -> [Uri -> SUBSET Delta]]
  BY <1>1 DEF TypeOK, Publish
<1>4. QED
  BY <1>2, <1>3 DEF TypeOK, HostPublishes

\* What readers and writers send are messages of type local.
LEMMA SendLocalsSends ==
  ASSUME NEW n \in Node, NEW u \in Uri, SendLocals(n, u)
  PROVE  \E New \in SUBSET {LocalMsg(n, m, u) : m \in Intrested(n, u)} : net' = net \cup New
<1>1. PICK to \in SUBSET Intrested(n, u) :
        net' = net \cup UNION {Sent(n, m, LocalMsg(n, m, u)) : m \in to}
  BY DEF SendLocals
<1>2. UNION {Sent(n, m, LocalMsg(n, m, u)) : m \in to}
        \in SUBSET {LocalMsg(n, m, u) : m \in Intrested(n, u)}
  BY DEF Sent
<1>3. QED
  BY <1>1, <1>2

LEMMA HostRequestsType ==
  ASSUME TypeOK, NEW n \in Node, HostRequests(n)
  PROVE  TypeOK'
<1>1. PICK u \in Uri : SendLocals(n, u) /\ (AddId(n, u) \/ UNCHANGED local)
  BY DEF HostRequests
<1>2. local' \in [Node -> [version : Nat, filter : SUBSET Uri]]
  BY <1>1, AddIdType DEF TypeOK
<1>3. \A m \in Node : LocalMsg(n, m, u) \in Message
  BY MessagesBuilt
<1>4. {LocalMsg(n, m, u) : m \in Intrested(n, u)} \subseteq Message
  BY <1>3 DEF Intrested
<1>5. PICK New \in SUBSET {LocalMsg(n, m, u) : m \in Intrested(n, u)} : net' = net \cup New
  BY <1>1, SendLocalsSends
<1>6. net' \in SUBSET Message
  BY <1>4, <1>5 DEF TypeOK
<1>7. QED
  BY <1>2, <1>6 DEF TypeOK, HostRequests

LEMMA NextType == TypeOK /\ [Next]_vars => TypeOK'
<1> SUFFICES ASSUME TypeOK, [Next]_vars PROVE TypeOK'
  OBVIOUS
<1>1. ASSUME NEW n \in Node, HostPublishes(n) PROVE TypeOK'
  BY <1>1, HostPublishesType
<1>2. ASSUME NEW n \in Node, HostChangesIds(n) PROVE TypeOK'
  BY <1>2, AddIdType DEF HostChangesIds, TypeOK
<1>3. ASSUME NEW n \in Node, NEW m \in Node, NewConnection(n, m) PROVE TypeOK'
  BY <1>3, NewConnectionType
<1>4. ASSUME NEW n \in Node, NEW m \in Node, ConnectionLost(n, m) PROVE TypeOK'
  BY <1>4, ConnectionLostType
<1>5. ASSUME NEW n \in Node, TickIds(n) PROVE TypeOK'
  BY <1>5, TickIdsType
<1>6. ASSUME NEW n \in Node, TickBuffer(n) PROVE TypeOK'
  BY <1>6, TickBufferType
<1>7. ASSUME NEW n \in Node, NEW m \in Node, OnGetIds(n, m) PROVE TypeOK'
  BY <1>7, OnGetIdsType
<1>8. ASSUME NEW n \in Node, NEW m \in Node, OnIds(n, m) PROVE TypeOK'
  BY <1>8, OnIdsType
<1>9. ASSUME NEW n \in Node, NEW m \in Node, OnDelegated(n, m) PROVE TypeOK'
  BY <1>9, OnDelegatedType
<1>10. ASSUME NEW msg \in net, Lose(msg) PROVE TypeOK'
  BY <1>10 DEF Lose, TypeOK, distVars
<1>11. ASSUME NEW n \in Node, HostRequests(n) PROVE TypeOK'
  BY <1>11, HostRequestsType
<1>12. CASE UNCHANGED vars
  BY <1>12 DEF vars, TypeOK
<1>13. QED
  BY <1>1, <1>2, <1>3, <1>4, <1>5, <1>6, <1>7, <1>8, <1>9, <1>10, <1>11, <1>12 DEF Next

\* The variables keep their types.
THEOREM TypeCorrect == Spec => []TypeOK
<1>1. Init => TypeOK
  BY DEF Init, TypeOK, NoEntry
<1>2. QED
  BY <1>1, NextType, PTL DEF Spec

--------------------------------------------------------------------------------
(***************************************************************************)
(* The inductive invariant.  Both indexes and all answers under way are    *)
(* snapshots of a peer's id set: an entry that was forgotten is empty, and *)
(* a snapshot whose version is current has the current ids.                *)
(***************************************************************************)

\* There are no ids in an entry that does not exist.
ForgottenIsEmpty ==
  \A n, m \in Node : ~store[n][m].known => store[n][m].filter = {}

\* (version, filter) is a snapshot of m's ids: not from the future, and exact
\* when it has m's version.
Snapshot(m, version, filter) ==
  /\ version <= local[m].version
  /\ version = local[m].version => filter = local[m].filter

EntriesAreSnapshots ==
  \A n, m \in Node : Snapshot(m, store[n][m].version, store[n][m].filter)

AnswersAreSnapshots ==
  \A msg \in net : msg.type = "ids" => Snapshot(msg.from, msg.version, msg.filter)

\* What makes a default-inserted entry a snapshot too.
ZeroIsEmpty ==
  \A m \in Node : Snapshot(m, 0, {})

IndexInv == TypeOK /\ IndexMatchesFilters /\ ForgottenIsEmpty

SnapshotInv == TypeOK /\ EntriesAreSnapshots /\ AnswersAreSnapshots /\ ZeroIsEmpty

--------------------------------------------------------------------------------
(***************************************************************************)
(* The two indexes agree.                                                  *)
(***************************************************************************)

\* The agreement, one node at a time.
LEMMA IndexPointwise ==
  ASSUME TypeOK
  PROVE  IndexMatchesFilters <=>
           \A n, m \in Node, u \in Uri :
             m \in uriNodes[n][u] <=> store[n][m].known /\ u \in store[n][m].filter
BY DEF IndexMatchesFilters, Intrested, TypeOK

\* A new entry has no ids, and emplace leaves an old one alone.
LEMMA NewConnectionIndex ==
  ASSUME IndexInv, NEW n \in Node, NEW m \in Node, NewConnection(n, m)
  PROVE  /\ uriNodes' = uriNodes
         /\ \A k, l \in Node :
              /\ store'[k][l].filter = store[k][l].filter
              /\ ~store'[k][l].known => ~store[k][l].known
              /\ store'[k][l].known /\ ~store[k][l].known => store[k][l].filter = {}
<1>1. uriNodes' = uriNodes
  BY DEF NewConnection
<1>2. CASE UNCHANGED <<store, net>>
  BY <1>1, <1>2
<1>3. CASE store' = [store EXCEPT ![n][m] = IF @.known THEN @ ELSE NewEntry]
  BY <1>1, <1>3 DEF IndexInv, TypeOK, ForgottenIsEmpty, NewEntry
<1>4. QED
  BY <1>2, <1>3 DEF NewConnection, AddNewNode

\* Forgetting a node removes it from both indexes.
LEMMA ConnectionLostIndex ==
  ASSUME IndexInv, NEW n \in Node, NEW m \in Node, ConnectionLost(n, m), TypeOK'
  PROVE  IndexInv'
<1>1. /\ store' = [store EXCEPT ![n][m] = NoEntry]
      /\ uriNodes' = [uriNodes EXCEPT ![n] = [u \in Uri |-> @[u] \ {m}]]
  BY DEF ConnectionLost, RemoveNode
<1>2. ForgottenIsEmpty'
  BY <1>1 DEF IndexInv, TypeOK, ForgottenIsEmpty, NoEntry
<1>3. ASSUME NEW k \in Node, NEW l \in Node, NEW u \in Uri
      PROVE  l \in uriNodes'[k][u] <=> store'[k][l].known /\ u \in store'[k][l].filter
  <2>1. l \in uriNodes[k][u] <=> store[k][l].known /\ u \in store[k][l].filter
    BY IndexPointwise DEF IndexInv
  <2>2. CASE k = n /\ l = m
    BY <1>1, <2>2 DEF IndexInv, TypeOK, NoEntry
  <2>3. CASE ~(k = n /\ l = m)
    BY <1>1, <2>1, <2>3 DEF IndexInv, TypeOK
  <2>4. QED
    BY <2>2, <2>3
<1>4. IndexMatchesFilters'
  BY <1>3, TypeOK' DEF IndexMatchesFilters, Intrested, TypeOK
<1>5. QED
  BY <1>2, <1>4 DEF IndexInv

\* A flush writes only to entries that exist.
LEMMA TickBufferIndex ==
  ASSUME IndexInv, NEW n \in Node, TickBuffer(n)
  PROVE  store' = store /\ uriNodes' = uriNodes
<1>1. uriNodes' = uriNodes
  BY DEF TickBuffer
<1>2. ASSUME NEW m \in Node, \E u \in Uri : <<u, m>> \in FlushTargets(n)
      PROVE  Entry(n, m) = store[n][m]
  <2>1. store[n][m].known
    BY <1>2 DEF FlushTargets, IndexInv, IndexMatchesFilters, Intrested
  <2>2. QED
    BY <2>1 DEF IndexInv, TypeOK, Entry
<1>3. [m \in Node |-> IF \E u \in Uri : <<u, m>> \in FlushTargets(n)
                      THEN Entry(n, m) ELSE store[n][m]] = store[n]
  BY <1>2 DEF IndexInv, TypeOK
<1>4. store' = store
  BY <1>3 DEF IndexInv, TypeOK, TickBuffer, FlushBuffer
<1>5. QED
  BY <1>1, <1>4

\* An answer moves the sender from its old ids to its new ones in both indexes.
LEMMA OnIdsIndex ==
  ASSUME IndexInv, NEW n \in Node, NEW m \in Node, OnIds(n, m), TypeOK'
  PROVE  IndexInv'
<1>1. PICK msg \in net : /\ msg.type = "ids" /\ msg.from = m
                         /\ Update(n, m, msg.version, msg.filter)
  BY DEF OnIds
<1>2. msg.version \in Nat /\ msg.filter \in SUBSET Uri
  BY <1>1, MessageFields DEF IndexInv, TypeOK
<1>3. CASE /\ store' = [store EXCEPT ![n][m] =
                          [Entry(n, m) EXCEPT !.version = msg.version, !.filter = msg.filter]]
           /\ uriNodes' = Reindexed(n, m, store[n][m].filter, msg.filter)
  <2>1. store'[n][m].known /\ store'[n][m].filter = msg.filter
    BY <1>3, <1>2 DEF IndexInv, TypeOK, Entry
  <2>2. \A k, l \in Node : ~(k = n /\ l = m) => store'[k][l] = store[k][l]
    BY <1>3 DEF IndexInv, TypeOK
  <2>3. ForgottenIsEmpty'
    BY <2>1, <2>2 DEF IndexInv, ForgottenIsEmpty
  <2>4. ASSUME NEW k \in Node, NEW l \in Node, NEW u \in Uri
        PROVE  l \in uriNodes'[k][u] <=> store'[k][l].known /\ u \in store'[k][l].filter
    <3>1. l \in uriNodes[k][u] <=> store[k][l].known /\ u \in store[k][l].filter
      BY IndexPointwise DEF IndexInv
    <3>2. CASE k = n /\ l = m
      <4>1. m \in uriNodes[n][u] => u \in store[n][m].filter
        BY <3>1, <3>2
      <4>2. m \in uriNodes'[n][u] <=> u \in msg.filter
        BY <1>3, <4>1 DEF Reindexed, IndexInv, TypeOK
      <4>3. QED
        BY <2>1, <3>2, <4>2
    <3>3. CASE ~(k = n /\ l = m)
      <4>1. l \in uriNodes'[k][u] <=> l \in uriNodes[k][u]
        BY <1>3, <3>3 DEF Reindexed, IndexInv, TypeOK
      <4>2. QED
        BY <2>2, <3>1, <3>3, <4>1
    <3>4. QED
      BY <3>2, <3>3
  <2>5. IndexMatchesFilters'
    BY <2>4, TypeOK' DEF IndexMatchesFilters, Intrested, TypeOK
  <2>6. QED
    BY <2>3, <2>5 DEF IndexInv
<1>4. CASE store' = [store EXCEPT ![n][m] = Entry(n, m)] /\ UNCHANGED uriNodes
  <2>1. Entry(n, m).known /\ Entry(n, m).filter = store[n][m].filter
    BY DEF IndexInv, TypeOK, Entry
  <2>2. store'[n][m] = Entry(n, m)
    BY <1>4 DEF IndexInv, TypeOK
  <2>3. \A k, l \in Node : ~(k = n /\ l = m) => store'[k][l] = store[k][l]
    BY <1>4 DEF IndexInv, TypeOK
  <2>4. \A k, l \in Node :
          /\ store'[k][l].filter = store[k][l].filter
          /\ ~store'[k][l].known => ~store[k][l].known
          /\ store'[k][l].known /\ ~store[k][l].known => store[k][l].filter = {}
    BY <2>1, <2>2, <2>3 DEF IndexInv, ForgottenIsEmpty
  <2>5. QED
    BY <1>4, <2>3, <2>4 DEF IndexInv, IndexMatchesFilters, Intrested, ForgottenIsEmpty
<1>5. QED
  BY <1>1, <1>3, <1>4 DEF Update

LEMMA NextIndex == IndexInv /\ [Next]_vars => IndexInv'
<1> SUFFICES ASSUME IndexInv, [Next]_vars PROVE IndexInv'
  OBVIOUS
<1>1. TypeOK'
  BY NextType DEF IndexInv
<1>2. ASSUME UNCHANGED <<store, uriNodes>> PROVE IndexInv'
  BY <1>1, <1>2 DEF IndexInv, IndexMatchesFilters, Intrested, ForgottenIsEmpty
<1>3. ASSUME NEW n \in Node, NEW m \in Node, NewConnection(n, m) PROVE IndexInv'
  BY <1>1, <1>3, NewConnectionIndex
     DEF IndexInv, IndexMatchesFilters, Intrested, ForgottenIsEmpty
<1>4. ASSUME NEW n \in Node, NEW m \in Node, ConnectionLost(n, m) PROVE IndexInv'
  BY <1>1, <1>4, ConnectionLostIndex
<1>5. ASSUME NEW n \in Node, TickBuffer(n) PROVE IndexInv'
  BY <1>2, <1>5, TickBufferIndex
<1>6. ASSUME NEW n \in Node, NEW m \in Node, OnIds(n, m) PROVE IndexInv'
  BY <1>1, <1>6, OnIdsIndex
<1>7. ASSUME NEW n \in Node, HostPublishes(n) \/ HostChangesIds(n) \/ HostRequests(n)
                             \/ TickIds(n)
      PROVE  IndexInv'
  BY <1>2, <1>7 DEF HostPublishes, HostChangesIds, HostRequests, TickIds, distVars
<1>8. ASSUME NEW n \in Node, NEW m \in Node, OnGetIds(n, m) \/ OnDelegated(n, m)
      PROVE  IndexInv'
  BY <1>2, <1>8 DEF OnGetIds, OnDelegated, distVars
<1>9. ASSUME NEW msg \in net, Lose(msg) PROVE IndexInv'
  BY <1>2, <1>9 DEF Lose, distVars
<1>10. CASE UNCHANGED vars
  BY <1>2, <1>10 DEF vars
<1>11. QED
  BY <1>3, <1>4, <1>5, <1>6, <1>7, <1>8, <1>9, <1>10 DEF Next

\* store_ and uri_to_nodes_ always describe the same relation, so a flush sends
\* to exactly the nodes get_intrested reports (distribution_layer.hpp:143-167).
THEOREM IndexesAgree == Spec => []IndexMatchesFilters
<1>1. Init => IndexInv
  <2>1. Init => TypeOK
    BY DEF Init, TypeOK, NoEntry
  <2>2. Init => IndexMatchesFilters /\ ForgottenIsEmpty
    BY DEF Init, IndexMatchesFilters, Intrested, ForgottenIsEmpty, NoEntry
  <2>3. QED
    BY <2>1, <2>2 DEF IndexInv
<1>2. IndexInv => IndexMatchesFilters
  BY DEF IndexInv
<1>3. QED
  BY <1>1, <1>2, NextIndex, PTL DEF Spec

--------------------------------------------------------------------------------
(***************************************************************************)
(* Equal versions mean equal ids.                                          *)
(***************************************************************************)

\* A change of one id set keeps every snapshot one: it becomes older.
LEMMA SnapshotsAge ==
  ASSUME TypeOK, NEW n \in Node,
         \/ \E u \in Uri : AddId(n, u) \/ RemoveId(n, u)
         \/ UNCHANGED local,
         NEW m \in Node, NEW version \in Nat, NEW filter, Snapshot(m, version, filter)
  PROVE  Snapshot(m, version, filter)'
<1>1. CASE UNCHANGED local
  BY <1>1 DEF Snapshot
<1>2. CASE \E u \in Uri : AddId(n, u) \/ RemoveId(n, u)
  <2>1. PICK f : ModifyIds(n, f)
    BY <1>2 DEF AddId, RemoveId
  <2>2. CASE m = n
    <3>1. local[m].version \in Nat /\ local'[m].version = local[m].version + 1
      BY <2>1, <2>2 DEF ModifyIds, TypeOK
    <3>2. QED
      BY <3>1 DEF Snapshot
  <2>3. CASE m # n
    BY <2>1, <2>3 DEF ModifyIds, TypeOK, Snapshot
  <2>4. QED
    BY <2>2, <2>3
<1>3. QED
  BY <1>1, <1>2

\* A step that changes only the id set of one node, drops messages, and sends
\* nothing that is an answer.
LEMMA LocalStepSnapshot ==
  ASSUME SnapshotInv, TypeOK', NEW n \in Node,
         \/ \E u \in Uri : AddId(n, u) \/ RemoveId(n, u)
         \/ UNCHANGED local,
         UNCHANGED store, \A msg \in net' : msg \in net \/ msg.type # "ids"
  PROVE  SnapshotInv'
<1>1. EntriesAreSnapshots'
  <2>1. ASSUME NEW k \in Node, NEW m \in Node
        PROVE  Snapshot(m, store[k][m].version, store[k][m].filter)'
    <3>1. Snapshot(m, store[k][m].version, store[k][m].filter)
      BY DEF SnapshotInv, EntriesAreSnapshots
    <3>2. store[k][m].version \in Nat
      BY DEF SnapshotInv, TypeOK
    <3>3. store'[k][m] = store[k][m]
      OBVIOUS
    <3>4. QED
      BY <3>1, <3>2, <3>3, SnapshotsAge DEF SnapshotInv, Snapshot
  <2>2. QED
    BY <2>1 DEF EntriesAreSnapshots
<1>2. AnswersAreSnapshots'
  <2>1. ASSUME NEW msg \in net', msg.type = "ids"
        PROVE  Snapshot(msg.from, msg.version, msg.filter)'
    <3>1. /\ Snapshot(msg.from, msg.version, msg.filter)
          /\ msg.from \in Node /\ msg.version \in Nat
      BY <2>1, MessageFields DEF SnapshotInv, AnswersAreSnapshots, TypeOK
    <3>2. QED
      BY <3>1, SnapshotsAge DEF SnapshotInv
  <2>2. QED
    BY <2>1 DEF AnswersAreSnapshots
<1>3. ZeroIsEmpty'
  BY SnapshotsAge DEF SnapshotInv, ZeroIsEmpty
<1>4. QED
  BY <1>1, <1>2, <1>3 DEF SnapshotInv

\* A step that leaves the id sets alone: it suffices that every new entry and
\* every new answer is a snapshot.
LEMMA OtherStepSnapshot ==
  ASSUME SnapshotInv, TypeOK', UNCHANGED local,
         \A n, m \in Node : \/ store'[n][m].version = store[n][m].version
                              /\ store'[n][m].filter = store[n][m].filter
                           \/ Snapshot(m, store'[n][m].version, store'[n][m].filter),
         \A msg \in net' : msg \in net \/ (msg.type = "ids" =>
                             Snapshot(msg.from, msg.version, msg.filter))
  PROVE  SnapshotInv'
<1>1. EntriesAreSnapshots'
  BY DEF SnapshotInv, EntriesAreSnapshots, Snapshot
<1>2. AnswersAreSnapshots'
  BY DEF SnapshotInv, AnswersAreSnapshots, Snapshot
<1>3. ZeroIsEmpty'
  BY DEF SnapshotInv, ZeroIsEmpty, Snapshot
<1>4. QED
  BY <1>1, <1>2, <1>3 DEF SnapshotInv

LEMMA NewConnectionSnapshot ==
  ASSUME SnapshotInv, TypeOK', NEW n \in Node, NEW m \in Node, NewConnection(n, m)
  PROVE  SnapshotInv'
<1>1. UNCHANGED local
  BY DEF NewConnection
<1>2. \A k, l \in Node : \/ store'[k][l] = store[k][l]
                         \/ store'[k][l].version = 0 /\ store'[k][l].filter = {}
  <2>1. \/ UNCHANGED store
        \/ store' = [store EXCEPT ![n][m] = IF @.known THEN @ ELSE NewEntry]
    BY DEF NewConnection, AddNewNode
  <2>2. NewEntry.version = 0 /\ NewEntry.filter = {}
    BY DEF NewEntry
  <2>3. CASE store' = [store EXCEPT ![n][m] = IF @.known THEN @ ELSE NewEntry]
    <3>1. \A k, l \in Node : ~(k = n /\ l = m) => store'[k][l] = store[k][l]
      BY <2>3 DEF SnapshotInv, TypeOK
    <3>2. store'[n][m] \in {store[n][m], NewEntry}
      BY <2>3 DEF SnapshotInv, TypeOK
    <3>3. QED
      BY <2>2, <3>1, <3>2
  <2>4. QED
    BY <2>1, <2>3
<1>3. \A k, l \in Node : \/ store'[k][l] = store[k][l]
                         \/ Snapshot(l, store'[k][l].version, store'[k][l].filter)
  BY <1>2 DEF SnapshotInv, ZeroIsEmpty
<1>4. \A msg \in net' : msg \in net \/ msg.type # "ids"
  BY DEF NewConnection, AddNewNode, GetIdsMsg
<1>5. QED
  BY <1>1, <1>3, <1>4, OtherStepSnapshot

LEMMA ConnectionLostSnapshot ==
  ASSUME SnapshotInv, TypeOK', NEW n \in Node, NEW m \in Node, ConnectionLost(n, m)
  PROVE  SnapshotInv'
<1>1. UNCHANGED <<local, net>>
  BY DEF ConnectionLost
<1>2. \A k, l \in Node : \/ store'[k][l] = store[k][l]
                         \/ store'[k][l].version = 0 /\ store'[k][l].filter = {}
  BY DEF ConnectionLost, RemoveNode, NoEntry, SnapshotInv, TypeOK
<1>3. \A k, l \in Node : \/ store'[k][l] = store[k][l]
                         \/ Snapshot(l, store'[k][l].version, store'[k][l].filter)
  BY <1>2 DEF SnapshotInv, ZeroIsEmpty
<1>4. QED
  BY <1>1, <1>3, OtherStepSnapshot

LEMMA TickIdsSnapshot ==
  ASSUME SnapshotInv, TypeOK', NEW n \in Node, TickIds(n)
  PROVE  SnapshotInv'
<1>1. \A msg \in net' : msg \in net \/ msg.type # "ids"
  BY DEF TickIds, PullIds, Sent, GetIdsMsg
<1>2. QED
  BY <1>1, OtherStepSnapshot DEF TickIds, distVars

LEMMA TickBufferSnapshot ==
  ASSUME SnapshotInv, TypeOK', NEW n \in Node, TickBuffer(n)
  PROVE  SnapshotInv'
<1>1. \A msg \in net' : msg \in net \/ msg.type # "ids"
  BY DEF TickBuffer, FlushBuffer, Sent, UpdatesMsg
<1>2. \A m \in Node : /\ Entry(n, m).version = store[n][m].version
                      /\ Entry(n, m).filter = store[n][m].filter
  BY DEF SnapshotInv, TypeOK, Entry
<1>3. \A k, l \in Node : /\ store'[k][l].version = store[k][l].version
                         /\ store'[k][l].filter = store[k][l].filter
  <2>1. \A m \in Node : store'[n][m] \in {store[n][m], Entry(n, m)}
    BY DEF TickBuffer, FlushBuffer, SnapshotInv, TypeOK
  <2>2. \A k, m \in Node : k # n => store'[k][m] = store[k][m]
    BY DEF TickBuffer, FlushBuffer, SnapshotInv, TypeOK
  <2>3. QED
    BY <1>2, <2>1, <2>2
<1>4. QED
  BY <1>1, <1>3, OtherStepSnapshot DEF TickBuffer

\* The answer is the sender's current set: a snapshot.
LEMMA OnGetIdsSnapshot ==
  ASSUME SnapshotInv, TypeOK', NEW n \in Node, NEW m \in Node, OnGetIds(n, m)
  PROVE  SnapshotInv'
<1>1. Snapshot(n, local[n].version, local[n].filter)
  BY DEF Snapshot, SnapshotInv, TypeOK
<1>2. \A msg \in net' : msg \in net \/ Snapshot(msg.from, msg.version, msg.filter)
  BY <1>1 DEF OnGetIds, GetIds, Sent, IdsMsg
<1>3. QED
  BY <1>2, OtherStepSnapshot DEF OnGetIds, distVars

\* An entry becomes the answer it took, or stays as it was.
LEMMA OnIdsSnapshot ==
  ASSUME SnapshotInv, TypeOK', NEW n \in Node, NEW m \in Node, OnIds(n, m)
  PROVE  SnapshotInv'
<1>1. PICK msg \in net : /\ msg.type = "ids" /\ msg.from = m
                         /\ Update(n, m, msg.version, msg.filter)
                         /\ net' = net \ {msg}
  BY DEF OnIds
<1>2. Snapshot(m, msg.version, msg.filter)
  BY <1>1 DEF SnapshotInv, AnswersAreSnapshots
<1>3. \A k, l \in Node : ~(k = n /\ l = m) => store'[k][l] = store[k][l]
  BY <1>1 DEF Update, SnapshotInv, TypeOK
<1>4. \/ /\ store'[n][m].version = store[n][m].version
         /\ store'[n][m].filter = store[n][m].filter
      \/ Snapshot(m, store'[n][m].version, store'[n][m].filter)
  <2>1. CASE store' = [store EXCEPT ![n][m] =
                         [Entry(n, m) EXCEPT !.version = msg.version, !.filter = msg.filter]]
    <3>1. store'[n][m].version = msg.version /\ store'[n][m].filter = msg.filter
      BY <2>1 DEF Entry, SnapshotInv, TypeOK
    <3>2. QED
      BY <3>1, <1>2
  <2>2. CASE store' = [store EXCEPT ![n][m] = Entry(n, m)]
    BY <2>2 DEF Entry, SnapshotInv, TypeOK
  <2>3. QED
    BY <1>1, <2>1, <2>2 DEF Update
<1>5. QED
  BY <1>1, <1>3, <1>4, OtherStepSnapshot DEF OnIds

LEMMA NextSnapshot == SnapshotInv /\ [Next]_vars => SnapshotInv'
<1> SUFFICES ASSUME SnapshotInv, [Next]_vars PROVE SnapshotInv'
  OBVIOUS
<1>1. TypeOK'
  BY NextType DEF SnapshotInv
<1>2. ASSUME NEW n \in Node, HostPublishes(n) \/ HostChangesIds(n) PROVE SnapshotInv'
  BY <1>1, <1>2, LocalStepSnapshot DEF HostPublishes, HostChangesIds
<1>3. ASSUME NEW n \in Node, NEW m \in Node, NewConnection(n, m) PROVE SnapshotInv'
  BY <1>1, <1>3, NewConnectionSnapshot
<1>4. ASSUME NEW n \in Node, NEW m \in Node, ConnectionLost(n, m) PROVE SnapshotInv'
  BY <1>1, <1>4, ConnectionLostSnapshot
<1>5. ASSUME NEW n \in Node, TickIds(n) PROVE SnapshotInv'
  BY <1>1, <1>5, TickIdsSnapshot
<1>6. ASSUME NEW n \in Node, TickBuffer(n) PROVE SnapshotInv'
  BY <1>1, <1>6, TickBufferSnapshot
<1>7. ASSUME NEW n \in Node, NEW m \in Node, OnGetIds(n, m) PROVE SnapshotInv'
  BY <1>1, <1>7, OnGetIdsSnapshot
<1>8. ASSUME NEW n \in Node, NEW m \in Node, OnIds(n, m) PROVE SnapshotInv'
  BY <1>1, <1>8, OnIdsSnapshot
<1>9. ASSUME NEW n \in Node, NEW m \in Node, OnDelegated(n, m) PROVE SnapshotInv'
  <2>1. PICK msg \in net : /\ msg.type \in {"updates", "local"}
                           /\ AddId(n, msg.id) \/ UNCHANGED local
                           /\ net' = net \ {msg}
    BY <1>9 DEF OnDelegated
  <2>2. msg.id \in Uri
    BY <2>1, MessageFields DEF SnapshotInv, TypeOK
  <2>3. QED
    BY <1>1, <1>9, <2>1, <2>2, LocalStepSnapshot DEF OnDelegated
<1>10. ASSUME NEW msg \in net, Lose(msg) PROVE SnapshotInv'
  BY <1>1, <1>10, OtherStepSnapshot DEF Lose, distVars
<1>11. ASSUME NEW n \in Node, HostRequests(n) PROVE SnapshotInv'
  <2>1. PICK u \in Uri : SendLocals(n, u) /\ (AddId(n, u) \/ UNCHANGED local)
    BY <1>11 DEF HostRequests
  <2>2. \A msg \in net' : msg \in net \/ msg.type # "ids"
    BY <2>1, SendLocalsSends DEF LocalMsg
  <2>3. QED
    BY <1>1, <1>11, <2>1, <2>2, LocalStepSnapshot DEF HostRequests
<1>12. CASE UNCHANGED vars
  BY <1>1, <1>12, OtherStepSnapshot DEF vars
<1>13. QED
  BY <1>2, <1>3, <1>4, <1>5, <1>6, <1>7, <1>8, <1>9, <1>10, <1>11, <1>12 DEF Next

\* A node whose version of a peer's ids is current has the peer's current ids,
\* so get_ids may stay silent on equal versions (distribution_layer.hpp:126),
\* whatever was lost, reordered or forgotten before.
THEOREM SilenceIsSound == Spec => []CaughtUpViewsAreExact
<1>1. Init => SnapshotInv
  <2>1. Init => TypeOK
    BY DEF Init, TypeOK, NoEntry
  <2>2. ASSUME Init
        PROVE  EntriesAreSnapshots /\ AnswersAreSnapshots /\ ZeroIsEmpty
    <3>1. \A n, m \in Node : store[n][m].version = 0 /\ store[n][m].filter = {}
      BY <2>2 DEF Init, NoEntry
    <3>2. \A m \in Node : local[m].version = 0 /\ local[m].filter = {}
      BY <2>2 DEF Init
    <3>3. \A m \in Node : Snapshot(m, 0, {})
      <4>1. 0 <= 0
        OBVIOUS
      <4>2. QED
        BY <3>2, <4>1, Zenon DEF Snapshot
    <3>4. EntriesAreSnapshots /\ ZeroIsEmpty
      BY <3>1, <3>3, Zenon DEF EntriesAreSnapshots, ZeroIsEmpty
    <3>5. AnswersAreSnapshots
      BY <2>2 DEF Init, AnswersAreSnapshots
    <3>6. QED
      BY <3>4, <3>5
  <2>3. QED
    BY <2>1, <2>2 DEF SnapshotInv
<1>2. SnapshotInv => CaughtUpViewsAreExact
  BY DEF SnapshotInv, EntriesAreSnapshots, Snapshot, CaughtUpViewsAreExact
<1>3. QED
  BY <1>1, <1>2, NextSnapshot, PTL DEF Spec

--------------------------------------------------------------------------------
(***************************************************************************)
(* Late answers do not take a view back.                                   *)
(***************************************************************************)

\* While n keeps an entry for m its version of m's ids never decreases, in
\* whatever order the answers arrive (distribution_layer.hpp:88).
THEOREM ViewsAdvance == Spec => ViewsOnlyAdvance
<1> DEFINE Advances(n, m) ==
             store[n][m].known /\ store'[n][m].known
               => store'[n][m].version >= store[n][m].version
           Step == \A n, m \in Node : Advances(n, m)
<1>1. TypeOK /\ [Next]_vars => [Step]_vars
  <2> SUFFICES ASSUME TypeOK, Next PROVE Step
    OBVIOUS
  <2>1. \A n, m \in Node : store[n][m].version \in Nat /\ NoEntry.known = FALSE
    BY DEF TypeOK, NoEntry
  <2>2. ASSUME UNCHANGED store PROVE Step
    BY <2>1, <2>2
  <2>3. ASSUME NEW n \in Node, NEW m \in Node, NewConnection(n, m) PROVE Step
    <3>1. CASE store' = [store EXCEPT ![n][m] = IF @.known THEN @ ELSE NewEntry]
      <4>1. \A k, l \in Node : ~(k = n /\ l = m) => store'[k][l] = store[k][l]
        BY <3>1 DEF TypeOK
      <4>2. store[n][m].known => store'[n][m] = store[n][m]
        BY <3>1 DEF TypeOK
      <4>3. QED
        BY <2>1, <4>1, <4>2
    <3>2. QED
      BY <2>2, <2>3, <3>1 DEF NewConnection, AddNewNode
  <2>4. ASSUME NEW n \in Node, NEW m \in Node, ConnectionLost(n, m) PROVE Step
    <3>1. \A k, l \in Node : ~(k = n /\ l = m) => store'[k][l] = store[k][l]
      BY <2>4 DEF ConnectionLost, RemoveNode, TypeOK
    <3>2. store'[n][m].known = FALSE
      BY <2>1, <2>4 DEF ConnectionLost, RemoveNode, TypeOK
    <3>3. QED
      BY <2>1, <3>1, <3>2
  <2>5. ASSUME NEW n \in Node, TickBuffer(n) PROVE Step
    <3>1. \A m \in Node : Entry(n, m).version = store[n][m].version
      BY DEF TypeOK, Entry
    <3>2. \A m \in Node : store'[n][m] \in {store[n][m], Entry(n, m)}
      BY <2>5 DEF TickBuffer, FlushBuffer, TypeOK
    <3>3. \A k, m \in Node : k # n => store'[k][m] = store[k][m]
      BY <2>5 DEF TickBuffer, FlushBuffer, TypeOK
    <3>4. QED
      BY <2>1, <3>1, <3>2, <3>3
  <2>6. ASSUME NEW n \in Node, NEW m \in Node, OnIds(n, m) PROVE Step
    <3>1. PICK msg \in net : msg.type = "ids" /\ Update(n, m, msg.version, msg.filter)
      BY <2>6 DEF OnIds
    <3>2. msg.version \in Nat
      BY <3>1, MessageFields DEF TypeOK
    <3>3. \A k, l \in Node : ~(k = n /\ l = m) => store'[k][l] = store[k][l]
      BY <3>1 DEF Update, TypeOK
    <3>4. store'[n][m].version >= store[n][m].version
      <4>1. CASE /\ msg.version > store[n][m].version
                 /\ store' = [store EXCEPT ![n][m] =
                       [Entry(n, m) EXCEPT !.version = msg.version, !.filter = msg.filter]]
        <5>1. store'[n][m].version = msg.version
          BY <4>1 DEF Entry, TypeOK
        <5>2. QED
          BY <2>1, <3>2, <4>1, <5>1
      <4>2. CASE store' = [store EXCEPT ![n][m] = Entry(n, m)]
        <5>1. store'[n][m].version = store[n][m].version
          BY <4>2 DEF Entry, TypeOK
        <5>2. QED
          BY <2>1, <5>1
      <4>3. QED
        BY <3>1, <4>1, <4>2 DEF Update
    <3>5. QED
      BY <2>1, <3>3, <3>4
  <2>7. ASSUME NEW n \in Node, NEW m \in Node,
               \/ HostPublishes(n) \/ HostChangesIds(n) \/ HostRequests(n) \/ TickIds(n)
               \/ OnGetIds(n, m) \/ OnDelegated(n, m)
        PROVE  Step
    BY <2>2, <2>7
       DEF HostPublishes, HostChangesIds, HostRequests, TickIds, OnGetIds, OnDelegated, distVars
  <2>8. ASSUME NEW msg \in net, Lose(msg) PROVE Step
    BY <2>2, <2>8 DEF Lose, distVars
  <2>9. QED
    BY <2>3, <2>4, <2>5, <2>6, <2>7, <2>8 DEF Next
<1>2. QED
  BY <1>1, TypeCorrect, PTL DEF Spec, ViewsOnlyAdvance

================================================================================
