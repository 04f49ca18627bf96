----------------------------- MODULE ReplicaProofs -----------------------------
(***************************************************************************)
(* Proofs about Replica for any clients, elements and bounds: type         *)
(* correctness and the three safety properties.                            *)
(***************************************************************************)
EXTENDS Replica, TLAPS

--------------------------------------------------------------------------------
(***************************************************************************)
(* Mailboxes.                                                              *)
(***************************************************************************)

\* Append adds one message at the end.
LEMMA Appended ==
  ASSUME NEW S, NEW s \in Seq(S), NEW m \in S
  PROVE  /\ Append(s, m) \in Seq(S)
         /\ Len(Append(s, m)) = Len(s) + 1 /\ Len(s) \in Nat
         /\ DOMAIN Append(s, m) = 1 .. Len(s) + 1
         /\ \A i \in 1 .. Len(s) : Append(s, m)[i] = s[i]
         /\ Append(s, m)[Len(s) + 1] = m
OBVIOUS

\* Tail drops the first message and moves the others up.
LEMMA Tailed ==
  ASSUME NEW S, NEW s \in Seq(S), s # <<>>
  PROVE  /\ Tail(s) \in Seq(S)
         /\ Head(s) = s[1] /\ Head(s) \in S
         /\ Len(s) \in Nat \ {0} /\ DOMAIN s = 1 .. Len(s)
         /\ Len(Tail(s)) = Len(s) - 1 /\ DOMAIN Tail(s) = 1 .. Len(s) - 1
         /\ \A i \in 1 .. Len(s) - 1 : Tail(s)[i] = s[i + 1]
OBVIOUS

\* The messages have the fields their handlers read.
LEMMA MessageFields ==
  ASSUME NEW m \in Message
  PROVE  /\ m.type \in {"subscribe", "unsubscribe"} => m.from \in Client
         /\ m.type \in {"publish", "write_local"} => m.elems \in SUBSET Elem
         /\ m.type = "read_local" => m.after \in [Inst -> SUBSET Elem]
         /\ m.type \in {"subscribe", "unsubscribe", "publish", "write_local",
                        "read_local", "delete_replica"}
BY DEF Message, Delete

LEMMA MessagesBuilt ==
  /\ \A c \in Client : Subscribe(c) \in Message /\ Unsubscribe(c) \in Message
  /\ \A E \in SUBSET Elem : /\ PublishMsg(E) \in Message /\ WriteLocal(E) \in Message
  /\ \A A \in [Inst -> SUBSET Elem] : ReadLocal(A) \in Message
  /\ Delete \in Message
BY DEF Message, Subscribe, Unsubscribe, PublishMsg, WriteLocal, ReadLocal, Delete

--------------------------------------------------------------------------------
(***************************************************************************)
(* Type correctness.                                                       *)
(***************************************************************************)

\* The replicator forwards a message.
LEMMA DelegateToType ==
  ASSUME TypeOK, NEW r, NEW m \in Message, DelegateTo(r, m)
  PROVE  /\ r \in Inst
         /\ spawned' \in 0 .. MaxSpawn
         /\ running' \in [Inst -> BOOLEAN]
         /\ mailbox' \in [Inst -> Seq(Message)]
         /\ UNCHANGED <<cvrdt, buffer, subs, acked>>
<1>1. r \in Inst
  BY DEF DelegateTo
<1>2. Append(mailbox[r], m) \in Seq(Message)
  BY <1>1, Appended DEF TypeOK
<1>3. mailbox' \in [Inst -> Seq(Message)]
  BY <1>1, <1>2 DEF TypeOK, DelegateTo
<1>4. spawned' \in 0 .. MaxSpawn
  BY <1>1, ReplicaBoundsAreNat DEF TypeOK, DelegateTo, Inst
<1>5. running' \in [Inst -> BOOLEAN]
  BY DEF TypeOK, DelegateTo
<1>6. QED
  BY <1>1, <1>3, <1>4, <1>5 DEF DelegateTo

LEMMA ForwardType ==
  ASSUME TypeOK, NEW m \in Message, Forward(m),
         bound' \in [Client -> BOOLEAN], view' \in [Client -> SUBSET Elem],
         UNCHANGED inbox
  PROVE  TypeOK'
<1>1. PICK r \in Inst : DelegateTo(r, m) /\ states' = r /\ UNCHANGED deleted
  BY DEF Forward
<1>2. QED
  BY <1>1, DelegateToType DEF TypeOK

LEMMA RequestsType ==
  ASSUME TypeOK, RequestRead \/ RequestWrite \/ RemoteUpdates \/ DeleteReplica
  PROVE  TypeOK'
<1>1. CASE RequestRead
  <2>1. ReadLocal(acked) \in Message
    BY MessagesBuilt DEF TypeOK
  <2>2. QED
    BY <1>1, <2>1, ForwardType DEF RequestRead, clientVars, TypeOK
<1>2. CASE RequestWrite
  <2>1. PICK e \in Elem : Forward(WriteLocal({e}))
    BY <1>2 DEF RequestWrite
  <2>2. WriteLocal({e}) \in Message
    BY MessagesBuilt
  <2>3. QED
    BY <1>2, <2>1, <2>2, ForwardType DEF RequestWrite, clientVars, TypeOK
<1>3. CASE RemoteUpdates
  <2>1. PICK elems \in SUBSET Elem : Forward(PublishMsg(elems))
    BY <1>3 DEF RemoteUpdates
  <2>2. QED
    BY <1>3, <2>1, MessagesBuilt, ForwardType DEF RemoteUpdates, clientVars, TypeOK
<1>4. CASE DeleteReplica
  <2>1. PICK r \in Inst :
          DelegateTo(r, Delete) /\ states' = NoReplica /\ deleted' = deleted \cup {r}
    BY <1>4 DEF DeleteReplica
  <2>2. deleted' \in SUBSET Inst
    BY <2>1 DEF TypeOK
  <2>3. QED
    BY <1>4, <2>1, <2>2, DelegateToType, MessagesBuilt
       DEF DeleteReplica, clientVars, TypeOK
<1>5. QED
  BY <1>1, <1>2, <1>3, <1>4

LEMMA ClientType ==
  ASSUME TypeOK, NEW c \in Client,
         Construct(c) \/ Destroy(c) \/ Insert(c) \/ OnNotified(c)
  PROVE  TypeOK'
<1>1. CASE Construct(c)
  BY <1>1, MessagesBuilt, ForwardType DEF Construct, TypeOK
<1>2. CASE Destroy(c)
  BY <1>2, MessagesBuilt, ForwardType DEF Destroy, TypeOK
<1>3. CASE Insert(c)
  <2>1. PICK elems \in SUBSET Elem :
          /\ view' = [view EXCEPT ![c] = @ \cup elems]
          /\ Forward(PublishMsg(elems \ view[c]))
    BY <1>3 DEF Insert
  <2>2. PublishMsg(elems \ view[c]) \in Message
    BY MessagesBuilt
  <2>3. view' \in [Client -> SUBSET Elem]
    BY <2>1 DEF TypeOK
  <2>4. QED
    BY <1>3, <2>1, <2>2, <2>3, ForwardType DEF Insert, TypeOK
<1>4. CASE OnNotified(c)
  <2>1. /\ Tail(inbox[c]) \in Seq(SUBSET Elem)
        /\ Head(inbox[c]) \in SUBSET Elem
    BY <1>4, Tailed DEF OnNotified, TypeOK
  <2>2. inbox' \in [Client -> Seq(SUBSET Elem)] /\ view' \in [Client -> SUBSET Elem]
    BY <1>4, <2>1 DEF OnNotified, TypeOK
  <2>3. QED
    BY <1>4, <2>2 DEF OnNotified, TypeOK, replicaVars
<1>5. QED
  BY <1>1, <1>2, <1>3, <1>4

LEMMA NotifyType ==
  ASSUME TypeOK, NEW to, NEW delta \in SUBSET Elem, Notify(to, delta)
  PROVE  inbox' \in [Client -> Seq(SUBSET Elem)]
<1>1. \A c \in Client : Append(inbox[c], delta) \in Seq(SUBSET Elem)
  BY Appended DEF TypeOK
<1>2. QED
  BY <1>1 DEF Notify, TypeOK

LEMMA HandleType ==
  ASSUME TypeOK, NEW r \in Inst, Handle(r)
  PROVE  TypeOK'
<1> DEFINE m == Head(mailbox[r])
<1>1. mailbox[r] # <<>> /\ mailbox[r] \in Seq(Message)
  BY DEF Handle, OnPublish, OnSubscribe, OnUnsubscribe, OnReadLocal, OnWriteLocal,
         OnDelete, Handles, TypeOK
<1>2. m \in Message /\ Tail(mailbox[r]) \in Seq(Message)
  BY <1>1, Tailed
<1>3. Handled(r) => mailbox' \in [Inst -> Seq(Message)]
  BY <1>2 DEF Handled, TypeOK
<1>4. CASE OnPublish(r)
  <2>1. m.elems \in SUBSET Elem
    BY <1>2, <1>4, MessageFields DEF OnPublish, Handles
  <2>2. cvrdt' \in [Inst -> SUBSET Elem] /\ buffer' \in [Inst -> SUBSET Elem]
    BY <1>4, <2>1 DEF OnPublish, TypeOK
  <2>3. QED
    BY <1>3, <1>4, <2>2 DEF OnPublish, ReplicatorUnchanged, clientVars, TypeOK
<1>5. CASE OnSubscribe(r)
  <2>1. m.from \in Client
    BY <1>2, <1>5, MessageFields DEF OnSubscribe, Handles
  <2>2. subs' \in [Inst -> SUBSET Client]
    BY <1>5, <2>1 DEF OnSubscribe, TypeOK
  <2>3. inbox' \in [Client -> Seq(SUBSET Elem)]
    BY <1>5, NotifyType DEF OnSubscribe, TypeOK
  <2>4. QED
    BY <1>3, <1>5, <2>2, <2>3 DEF OnSubscribe, ReplicatorUnchanged, TypeOK
<1>6. CASE OnUnsubscribe(r)
  BY <1>3, <1>6 DEF OnUnsubscribe, ReplicatorUnchanged, clientVars, TypeOK
<1>7. CASE OnReadLocal(r)
  BY <1>3, <1>7 DEF OnReadLocal, ReplicatorUnchanged, clientVars, TypeOK
<1>8. CASE OnWriteLocal(r)
  <2>1. m.elems \in SUBSET Elem
    BY <1>2, <1>8, MessageFields DEF OnWriteLocal, Handles
  <2>2. Append(Tail(mailbox[r]), PublishMsg(m.elems)) \in Seq(Message)
    BY <1>2, <2>1, MessagesBuilt, Appended
  <2>3. mailbox' \in [Inst -> Seq(Message)] /\ acked' \in [Inst -> SUBSET Elem]
    BY <1>8, <2>1, <2>2 DEF OnWriteLocal, TypeOK
  <2>4. QED
    BY <1>8, <2>3 DEF OnWriteLocal, ReplicatorUnchanged, clientVars, TypeOK
<1>9. CASE OnDelete(r)
  <2>1. running' \in [Inst -> BOOLEAN]
    BY <1>9 DEF OnDelete, TypeOK
  <2>2. QED
    BY <1>3, <1>9, <2>1 DEF OnDelete, ReplicatorUnchanged, clientVars, TypeOK
<1>10. QED
  BY <1>4, <1>5, <1>6, <1>7, <1>8, <1>9 DEF Handle

LEMMA OnNotifyTickType ==
  ASSUME TypeOK, NEW r \in Inst, OnNotifyTick(r)
  PROVE  TypeOK'
<1>1. inbox' \in [Client -> Seq(SUBSET Elem)]
  BY NotifyType DEF OnNotifyTick, TypeOK
<1>2. QED
  BY <1>1 DEF OnNotifyTick, ReplicatorUnchanged, TypeOK

LEMMA InitType == Init => TypeOK
<1>1. /\ <<>> \in Seq(Message) /\ <<>> \in Seq(SUBSET Elem)
      /\ 0 \in 0 .. MaxSpawn /\ 0 \in 0 .. MaxDelete
  BY ReplicaBoundsAreNat
<1>2. QED
  BY <1>1 DEF Init, TypeOK

LEMMA NextType == TypeOK /\ [Next]_vars => TypeOK'
<1>1. ASSUME TypeOK, UNCHANGED vars PROVE TypeOK'
  BY <1>1 DEF vars, replicaVars, clientVars, TypeOK
<1>2. QED
  BY <1>1, RequestsType, ClientType, HandleType, OnNotifyTickType DEF Next

\* The variables keep their types.
THEOREM TypeCorrect == Spec => []TypeOK
BY InitType, NextType, PTL DEF Spec

--------------------------------------------------------------------------------
(***************************************************************************)
(* The invariants.                                                         *)
(***************************************************************************)

\* The life of a replica: not yet spawned, known to the replicator, forgotten
\* (delete_replica is on its way, and nothing but the replica's own messages is
\* behind it), and gone.
Life(r) ==
  /\ r > spawned => ~running[r] /\ mailbox[r] = <<>> /\ subs[r] = {}
  /\ r = states => /\ running[r]
                   /\ \A i \in DOMAIN mailbox[r] : mailbox[r][i].type # "delete_replica"
  /\ \A i, j \in DOMAIN mailbox[r] :
       i < j /\ mailbox[r][i].type = "delete_replica" => mailbox[r][j].type = "publish"
  /\ r <= spawned /\ ~running[r]
       => /\ subs[r] = {}
          /\ \A i \in DOMAIN mailbox[r] : mailbox[r][i].type = "publish"

LifeInv == TypeOK /\ states <= spawned /\ \A r \in Inst : Life(r)

\* r has e or will have it before it handles message k.
AppliedBefore(r, k, e) ==
  \/ e \in cvrdt[r]
  \/ \E j \in DOMAIN mailbox[r] :
       j < k /\ mailbox[r][j].type = "publish" /\ e \in mailbox[r][j].elems

\* Acknowledged writes are applied or in the mailbox, and reads are behind them.
WritesPrecedeReads(r) ==
  /\ \A e \in acked[r] : AppliedBefore(r, Len(mailbox[r]) + 1, e)
  /\ \A k \in DOMAIN mailbox[r] :
       mailbox[r][k].type = "read_local"
         => \A e \in mailbox[r][k].after[r] : AppliedBefore(r, k, e)

ReadInv == TypeOK /\ \A r \in Inst : WritesPrecedeReads(r)

\* Only replicas that were sent delete_replica run, or have acknowledged anything,
\* without being the one that the replicator finds.
ForgottenIsDeleted(q) ==
  running[q] \/ acked[q] # {} => q = states \/ q \in deleted

\* The reads in r's mailbox come after no write that another replica acknowledged,
\* unless that was sent delete_replica.
OthersAreDeleted(r) ==
  \A k \in DOMAIN mailbox[r] :
    mailbox[r][k].type = "read_local"
      => \A q \in Inst \ {r} : q \in deleted \/ mailbox[r][k].after[q] = {}

DeletedInv ==
  TypeOK /\ \A r \in Inst : ForgottenIsDeleted(r) /\ OthersAreDeleted(r)

\* When everything in r's mailbox is handled, c is not subscribed.
WillBeRemoved(r, c) ==
  /\ c \in subs[r] =>
       \E j \in DOMAIN mailbox[r] : mailbox[r][j] = Unsubscribe(c)
  /\ \A i \in DOMAIN mailbox[r] :
       mailbox[r][i] = Subscribe(c) =>
         \E j \in DOMAIN mailbox[r] : i < j /\ mailbox[r][j] = Unsubscribe(c)

\* r's mailbox has no request of c to be removed.
Stays(r, c) == \A i \in DOMAIN mailbox[r] : mailbox[r][i] # Unsubscribe(c)

\* What r has and its subscriber c has not is under way or buffered.
Told(r, c) ==
  c \in subs[r] /\ bound[c] /\ Stays(r, c)
    => cvrdt[r] \subseteq view[c] \cup InTransit(c) \cup buffer[r]

\* A client without a state object will be removed: a new object of that client,
\* which starts empty, is not taken for the old one.
NotifyInv ==
  /\ LifeInv
  /\ states # NoReplica =>
       \A c \in Client : Told(states, c) /\ (~bound[c] => WillBeRemoved(states, c))

--------------------------------------------------------------------------------
(***************************************************************************)
(* What the steps do to the mailboxes.                                     *)
(***************************************************************************)

\* The replicator appends one message to the mailbox of the replica it found.
LEMMA DelegateToMail ==
  ASSUME TypeOK, NEW r, NEW m \in Message, DelegateTo(r, m)
  PROVE  /\ r \in Inst
         /\ states = NoReplica => r = spawned + 1 /\ spawned' = r /\ running'[r]
         /\ states # NoReplica => r = states /\ spawned' = spawned /\ running' = running
         /\ mailbox'[r] = Append(mailbox[r], m)
         /\ \A q \in Inst : q # r => mailbox'[q] = mailbox[q] /\ running'[q] = running[q]
         /\ UNCHANGED <<cvrdt, buffer, subs, acked>>
BY DEF DelegateTo, Found, TypeOK

\* mailbox'[r] is mailbox[r] without its head, with at most one of r's own
\* messages behind it.
Shifted(r) ==
  /\ running[r] /\ mailbox[r] # <<>>
  /\ \A q \in Inst : q # r => mailbox'[q] = mailbox[q]
  /\ \/ mailbox'[r] = Tail(mailbox[r])
     \/ \E E \in SUBSET Elem : mailbox'[r] = Append(Tail(mailbox[r]), PublishMsg(E))

\* In the new mailbox, what is not r's own message was one place further back.
LEMMA ShiftedMail ==
  ASSUME TypeOK, NEW r \in Inst, Shifted(r)
  PROVE  /\ DOMAIN mailbox[r] = 1 .. Len(mailbox[r]) /\ Len(mailbox[r]) \in Nat \ {0}
         /\ Head(mailbox[r]) = mailbox[r][1] /\ mailbox[r][1] \in Message
         /\ DOMAIN mailbox'[r] = 1 .. Len(mailbox'[r]) /\ Len(mailbox'[r]) \in Nat
         /\ Len(mailbox'[r]) >= Len(mailbox[r]) - 1
         /\ \A i \in 1 .. Len(mailbox[r]) - 1 : mailbox'[r][i] = mailbox[r][i + 1]
         /\ \A i \in DOMAIN mailbox'[r] :
              \/ i + 1 \in DOMAIN mailbox[r] /\ mailbox'[r][i] = mailbox[r][i + 1]
              \/ i = Len(mailbox[r]) /\ mailbox'[r][i].type = "publish"
<1> DEFINE s == mailbox[r]
           t == Tail(s)
<1>1. s \in Seq(Message) /\ s # <<>>
  BY DEF TypeOK, Shifted
<1>2. /\ t \in Seq(Message)
      /\ Head(s) = s[1] /\ Head(s) \in Message
      /\ Len(s) \in Nat \ {0} /\ DOMAIN s = 1 .. Len(s)
      /\ Len(t) = Len(s) - 1 /\ DOMAIN t = 1 .. Len(s) - 1
      /\ \A i \in 1 .. Len(s) - 1 : t[i] = s[i + 1]
  BY <1>1, Tailed
<1> HIDE DEF t
<1>3. CASE mailbox'[r] = t
  BY <1>2, <1>3
<1>4. CASE \E E \in SUBSET Elem : mailbox'[r] = Append(t, PublishMsg(E))
  <2>1. PICK E \in SUBSET Elem : mailbox'[r] = Append(t, PublishMsg(E))
    BY <1>4
  <2>2. PublishMsg(E) \in Message /\ PublishMsg(E).type = "publish"
    BY MessagesBuilt DEF PublishMsg
  <2>3. /\ Len(mailbox'[r]) = Len(t) + 1
        /\ DOMAIN mailbox'[r] = 1 .. Len(t) + 1
        /\ \A i \in 1 .. Len(t) : mailbox'[r][i] = t[i]
        /\ mailbox'[r][Len(t) + 1] = PublishMsg(E)
    BY <1>2, <2>1, <2>2, Appended
  <2>4. QED
    BY <1>2, <2>2, <2>3
<1>5. QED
  BY <1>3, <1>4 DEF Shifted, t

\* Every message a replica handles shifts its mailbox.
LEMMA HandleShifts ==
  ASSUME TypeOK, NEW r \in Inst, Handle(r)
  PROVE  Shifted(r) /\ UNCHANGED <<states, spawned, deleted, bound, view>>
<1>1. mailbox[r] # <<>> /\ running[r]
  BY DEF Handle, OnPublish, OnSubscribe, OnUnsubscribe, OnReadLocal, OnWriteLocal,
         OnDelete, Handles
<1>2. Head(mailbox[r]) \in Message
  BY <1>1, Tailed DEF TypeOK
<1>3. CASE OnWriteLocal(r)
  <2>1. Head(mailbox[r]).elems \in SUBSET Elem
    BY <1>2, <1>3, MessageFields DEF OnWriteLocal, Handles
  <2>2. QED
    BY <1>1, <1>3, <2>1 DEF OnWriteLocal, Shifted, TypeOK, ReplicatorUnchanged, clientVars
<1>4. CASE OnPublish(r) \/ OnSubscribe(r) \/ OnUnsubscribe(r) \/ OnReadLocal(r) \/ OnDelete(r)
  <2>1. Handled(r)
    BY <1>4 DEF OnPublish, OnSubscribe, OnUnsubscribe, OnReadLocal, OnDelete
  <2>2. Shifted(r)
    BY <1>1, <2>1 DEF Handled, Shifted, TypeOK
  <2>3. UNCHANGED <<states, spawned, deleted, bound, view>>
    BY <1>4 DEF OnPublish, OnSubscribe, OnUnsubscribe, OnReadLocal, OnDelete,
                ReplicatorUnchanged, clientVars
  <2>4. QED
    BY <2>2, <2>3
<1>5. QED
  BY <1>3, <1>4 DEF Handle

--------------------------------------------------------------------------------
(***************************************************************************)
(* The life of the replicas.                                               *)
(***************************************************************************)

\* A request, or delete_replica with which the replica is forgotten.
LEMMA DelegateToLife ==
  ASSUME LifeInv, TypeOK', NEW r, NEW m \in Message, DelegateTo(r, m),
         \/ states' = r /\ m.type # "delete_replica"
         \/ states' = NoReplica
  PROVE  LifeInv'
<1>1. /\ r \in Inst /\ r # NoReplica
      /\ states \in Nat /\ spawned \in Nat /\ r \in Nat
  <2>1. r \in Inst
    BY DelegateToMail DEF LifeInv
  <2>2. states \in Inst \cup {NoReplica} /\ spawned \in 0 .. MaxSpawn
    BY DEF LifeInv, TypeOK
  <2>3. QED
    BY <2>1, <2>2, ReplicaBoundsAreNat DEF Inst, NoReplica
<1>2. /\ states = NoReplica => r = spawned + 1 /\ spawned' = r /\ running'[r]
      /\ states # NoReplica => r = states /\ spawned' = spawned /\ running' = running
      /\ mailbox'[r] = Append(mailbox[r], m)
      /\ \A q \in Inst : q # r => mailbox'[q] = mailbox[q] /\ running'[q] = running[q]
      /\ UNCHANGED subs
  BY DelegateToMail DEF LifeInv
<1>3. /\ DOMAIN mailbox[r] = 1 .. Len(mailbox[r]) /\ Len(mailbox[r]) \in Nat
      /\ DOMAIN mailbox'[r] = 1 .. Len(mailbox[r]) + 1
      /\ \A i \in 1 .. Len(mailbox[r]) : mailbox'[r][i] = mailbox[r][i]
      /\ mailbox'[r][Len(mailbox[r]) + 1] = m
  BY <1>1, <1>2, Appended DEF LifeInv, TypeOK
<1>4. /\ \A i \in DOMAIN mailbox[r] : mailbox[r][i].type # "delete_replica"
      /\ running'[r] /\ r <= spawned'
  <2>1. CASE states = NoReplica
    <3>1. r > spawned /\ Life(r)
      BY <1>1, <1>2, <2>1 DEF LifeInv
    <3>2. QED
      BY <1>1, <1>2, <2>1, <3>1 DEF Life
  <2>2. CASE states # NoReplica
    <3>1. r = states /\ states <= spawned /\ Life(r)
      BY <1>1, <1>2, <2>2 DEF LifeInv
    <3>2. QED
      BY <1>2, <2>2, <3>1 DEF Life
  <2>3. QED
    BY <2>1, <2>2
<1>5. Life(r)'
  <2>1. spawned' \in Nat /\ ~(r > spawned')
    BY <1>1, <1>2, <1>4
  <2>2. r = states' => \A i \in DOMAIN mailbox'[r] : mailbox'[r][i].type # "delete_replica"
    BY <1>1, <1>3, <1>4
  <2>3. \A i, j \in DOMAIN mailbox'[r] :
          i < j => i \in DOMAIN mailbox[r] /\ mailbox'[r][i] = mailbox[r][i]
    BY <1>3
  <2>4. QED
    BY <1>4, <2>1, <2>2, <2>3 DEF Life
<1>6. ASSUME NEW q \in Inst, q # r PROVE Life(q)'
  <2>1. Life(q) /\ q \in Nat
    BY ReplicaBoundsAreNat DEF LifeInv, Inst
  <2>2. /\ q # states' /\ q # states
        /\ q > spawned' <=> q > spawned
        /\ q <= spawned' <=> q <= spawned
    BY <1>1, <1>2, <1>6, <2>1, ReplicaBoundsAreNat DEF NoReplica, Inst
  <2>3. QED
    BY <1>2, <1>6, <2>1, <2>2 DEF Life
<1>7. states' <= spawned'
  BY <1>1, <1>2 DEF LifeInv, NoReplica
<1>8. QED
  BY <1>5, <1>6, <1>7 DEF LifeInv

\* A replica that handles a message.
LEMMA HandleLife ==
  ASSUME LifeInv, TypeOK', NEW r \in Inst, Handle(r)
  PROVE  LifeInv'
<1>1. Shifted(r) /\ UNCHANGED <<states, spawned>>
  BY HandleShifts DEF LifeInv
<1>2. /\ \A q \in Inst : q # r => subs'[q] = subs[q] /\ running'[q] = running[q]
      /\ running'[r] \/ (mailbox[r][1].type = "delete_replica" /\ subs'[r] = {})
  <2>1. CASE OnDelete(r)
    BY <1>1, <2>1, ShiftedMail DEF OnDelete, Handles, LifeInv, TypeOK
  <2>2. CASE OnPublish(r) \/ OnSubscribe(r) \/ OnUnsubscribe(r) \/ OnReadLocal(r)
             \/ OnWriteLocal(r)
    <3>1. running' = running /\ running[r]
      BY <2>2 DEF OnPublish, OnSubscribe, OnUnsubscribe, OnReadLocal, OnWriteLocal, Handles
    <3>2. \A q \in Inst : q # r => subs'[q] = subs[q]
      BY <2>2 DEF OnPublish, OnSubscribe, OnUnsubscribe, OnReadLocal, OnWriteLocal,
                  LifeInv, TypeOK
    <3>3. QED
      BY <3>1, <3>2
  <2>3. QED
    BY <2>1, <2>2 DEF Handle
<1>3. Life(r) /\ running[r] /\ r \in Nat /\ spawned \in Nat
  BY <1>1, ReplicaBoundsAreNat DEF LifeInv, TypeOK, Shifted, Inst
<1>4. r <= spawned
  BY <1>3 DEF Life
<1>5. /\ DOMAIN mailbox[r] = 1 .. Len(mailbox[r]) /\ Len(mailbox[r]) \in Nat \ {0}
      /\ DOMAIN mailbox'[r] = 1 .. Len(mailbox'[r]) /\ Len(mailbox'[r]) \in Nat
      /\ \A i \in DOMAIN mailbox'[r] :
           \/ i + 1 \in DOMAIN mailbox[r] /\ mailbox'[r][i] = mailbox[r][i + 1]
           \/ i = Len(mailbox[r]) /\ mailbox'[r][i].type = "publish"
  BY <1>1, ShiftedMail DEF LifeInv
<1>6. Life(r)'
  <2>1. r = states => running'[r]
    BY <1>2, <1>3, <1>5 DEF Life
  <2>2. r = states => \A i \in DOMAIN mailbox'[r] : mailbox'[r][i].type # "delete_replica"
    BY <1>3, <1>5 DEF Life
  <2>3. ASSUME NEW i \in DOMAIN mailbox'[r], NEW j \in DOMAIN mailbox'[r],
               i < j, mailbox'[r][i].type = "delete_replica"
        PROVE  mailbox'[r][j].type = "publish"
    <3>1. i + 1 \in DOMAIN mailbox[r] /\ mailbox[r][i + 1].type = "delete_replica"
      BY <1>5, <2>3
    <3>2. CASE j + 1 \in DOMAIN mailbox[r] /\ mailbox'[r][j] = mailbox[r][j + 1]
      <4>1. i + 1 < j + 1
        BY <1>5, <2>3
      <4>2. QED
        BY <1>3, <3>1, <3>2, <4>1 DEF Life
    <3>3. QED
      BY <1>5, <3>2
  <2>4. ~running'[r] => \A i \in DOMAIN mailbox'[r] : mailbox'[r][i].type = "publish"
    <3>1. SUFFICES ASSUME ~running'[r], NEW i \in DOMAIN mailbox'[r]
                   PROVE  mailbox'[r][i].type = "publish"
      OBVIOUS
    <3>2. 1 \in DOMAIN mailbox[r] /\ mailbox[r][1].type = "delete_replica"
      BY <1>2, <1>5, <3>1
    <3>3. CASE i + 1 \in DOMAIN mailbox[r] /\ mailbox'[r][i] = mailbox[r][i + 1]
      <4>1. 1 < i + 1
        BY <1>5
      <4>2. QED
        BY <1>3, <3>2, <3>3, <4>1 DEF Life
    <3>4. QED
      BY <1>5, <3>3
  <2>5. QED
    BY <1>1, <1>2, <1>3, <1>4, <2>1, <2>2, <2>3, <2>4 DEF Life
<1>7. ASSUME NEW q \in Inst, q # r PROVE Life(q)'
  BY <1>1, <1>2, <1>7 DEF LifeInv, Life, Shifted
<1>8. QED
  BY <1>1, <1>6, <1>7 DEF LifeInv

\* A step that touches neither the replicator nor a mailbox.
LEMMA OtherLife ==
  ASSUME LifeInv, TypeOK', UNCHANGED <<states, spawned, running, mailbox, subs>>
  PROVE  LifeInv'
BY DEF LifeInv, Life

LEMMA ForwardLife ==
  ASSUME LifeInv, TypeOK', NEW m \in Message, Forward(m), m.type # "delete_replica"
  PROVE  LifeInv'
BY DelegateToLife DEF Forward

LEMMA NextLife == LifeInv /\ [Next]_vars => LifeInv'
<1> SUFFICES ASSUME LifeInv, [Next]_vars PROVE LifeInv'
  OBVIOUS
<1>1. TypeOK /\ TypeOK'
  BY NextType DEF LifeInv
<1>2. ASSUME NEW c \in Client, Construct(c) \/ Destroy(c) PROVE LifeInv'
  <2>1. /\ Subscribe(c) \in Message /\ Subscribe(c).type # "delete_replica"
        /\ Unsubscribe(c) \in Message /\ Unsubscribe(c).type # "delete_replica"
    BY MessagesBuilt DEF Subscribe, Unsubscribe
  <2>2. QED
    BY <1>1, <1>2, <2>1, ForwardLife DEF Construct, Destroy
<1>3. ASSUME NEW c \in Client, Insert(c) PROVE LifeInv'
  <2>1. PICK E \in SUBSET Elem : Forward(PublishMsg(E))
    BY <1>3 DEF Insert
  <2>2. PublishMsg(E) \in Message /\ PublishMsg(E).type # "delete_replica"
    BY MessagesBuilt DEF PublishMsg
  <2>3. QED
    BY <1>1, <2>1, <2>2, ForwardLife
<1>4. ASSUME NEW c \in Client, OnNotified(c) PROVE LifeInv'
  BY <1>1, <1>4, OtherLife DEF OnNotified, replicaVars
<1>5. CASE RequestRead
  <2> DEFINE m == ReadLocal(acked)
  <2>1. acked \in [Inst -> SUBSET Elem]
    BY <1>1 DEF TypeOK
  <2>2. m \in Message /\ m.type # "delete_replica"
    BY <2>1, MessagesBuilt DEF ReadLocal
  <2>3. QED
    BY <1>1, <1>5, <2>2, ForwardLife DEF RequestRead
<1>6. CASE RequestWrite
  <2>1. PICK e \in Elem : Forward(WriteLocal({e}))
    BY <1>6 DEF RequestWrite
  <2>2. WriteLocal({e}) \in Message /\ WriteLocal({e}).type # "delete_replica"
    BY MessagesBuilt DEF WriteLocal
  <2>3. QED
    BY <1>1, <2>1, <2>2, ForwardLife
<1>7. CASE RemoteUpdates
  <2>1. PICK E \in SUBSET Elem : Forward(PublishMsg(E))
    BY <1>7 DEF RemoteUpdates
  <2>2. PublishMsg(E) \in Message /\ PublishMsg(E).type # "delete_replica"
    BY MessagesBuilt DEF PublishMsg
  <2>3. QED
    BY <1>1, <2>1, <2>2, ForwardLife
<1>8. CASE DeleteReplica
  <2>1. PICK r \in Inst : DelegateTo(r, Delete) /\ states' = NoReplica
    BY <1>8 DEF DeleteReplica
  <2>2. QED
    BY <1>1, <2>1, MessagesBuilt, DelegateToLife
<1>9. ASSUME NEW r \in Inst, Handle(r) PROVE LifeInv'
  BY <1>1, <1>9, HandleLife
<1>10. ASSUME NEW r \in Inst, OnNotifyTick(r) PROVE LifeInv'
  BY <1>1, <1>10, OtherLife DEF OnNotifyTick, ReplicatorUnchanged
<1>11. CASE UNCHANGED vars
  BY <1>1, <1>11, OtherLife DEF vars, replicaVars
<1>12. QED
  BY <1>2, <1>3, <1>4, <1>5, <1>6, <1>7, <1>8, <1>9, <1>10, <1>11 DEF Next

LEMMA InitLife == Init => LifeInv
<1> SUFFICES ASSUME Init PROVE LifeInv
  OBVIOUS
<1>1. TypeOK /\ states <= spawned
  BY InitType DEF Init, NoReplica
<1>2. ASSUME NEW r \in Inst PROVE Life(r)
  <2>1. r \in Nat /\ r > 0
    BY ReplicaBoundsAreNat DEF Inst
  <2>2. /\ states = 0 /\ spawned = 0 /\ ~running[r]
        /\ mailbox[r] = <<>> /\ subs[r] = {}
    BY DEF Init, NoReplica
  <2>3. DOMAIN mailbox[r] = {}
    BY <2>2
  <2>4. QED
    BY <2>1, <2>2, <2>3 DEF Life
<1>3. QED
  BY <1>1, <1>2 DEF LifeInv

\* delete_replica is the last request a replica gets, so a replica that quits
\* leaves no request unanswered and no subscriber behind
\* (replicator_actor.cpp:165-169, replica.hpp:237-240).
THEOREM QuitReplicasOweNobody == Spec => []QuitReplicasOweNothing
<1>1. LifeInv => QuitReplicasOweNothing
  BY DEF LifeInv, Life, QuitReplicasOweNothing, Waiting
<1>2. QED
  BY <1>1, InitLife, NextLife, PTL DEF Spec

--------------------------------------------------------------------------------
(***************************************************************************)
(* Reads and acknowledged writes.                                          *)
(***************************************************************************)

\* A message at the end of the mailbox leaves everything ahead of it in place.
LEMMA AppendKeepsApplied ==
  ASSUME TypeOK, NEW r, NEW m \in Message, DelegateTo(r, m),
         NEW q \in Inst, NEW k, NEW e, AppliedBefore(q, k, e)
  PROVE  AppliedBefore(q, k, e)'
<1>1. /\ r \in Inst /\ mailbox'[r] = Append(mailbox[r], m) /\ cvrdt' = cvrdt
      /\ q # r => mailbox'[q] = mailbox[q]
  BY DelegateToMail
<1>2. \A j \in DOMAIN mailbox[q] : j \in DOMAIN mailbox'[q] /\ mailbox'[q][j] = mailbox[q][j]
  <2>1. CASE q = r
    <3>1. mailbox[r] \in Seq(Message)
      BY <1>1 DEF TypeOK
    <3>2. DOMAIN mailbox[r] = 1 .. Len(mailbox[r]) /\ Len(mailbox[r]) \in Nat
      BY <3>1
    <3>3. QED
      BY <1>1, <2>1, <3>1, <3>2, Appended
  <2>2. QED
    BY <1>1, <2>1
<1>3. QED
  BY <1>1, <1>2 DEF AppliedBefore

\* Handling a message moves the messages one place ahead, and what the first one
\* published is in the state.
LEMMA ShiftKeepsApplied ==
  ASSUME TypeOK, NEW r \in Inst, Shifted(r), cvrdt[r] \subseteq cvrdt'[r],
         mailbox[r][1].type = "publish" => mailbox[r][1].elems \subseteq cvrdt'[r],
         NEW k \in Nat, NEW e, AppliedBefore(r, k + 1, e)
  PROVE  AppliedBefore(r, k, e)'
<1>1. CASE e \in cvrdt[r]
  BY <1>1 DEF AppliedBefore
<1>2. CASE \E j \in DOMAIN mailbox[r] :
             j < k + 1 /\ mailbox[r][j].type = "publish" /\ e \in mailbox[r][j].elems
  <2>1. PICK j \in DOMAIN mailbox[r] :
          j < k + 1 /\ mailbox[r][j].type = "publish" /\ e \in mailbox[r][j].elems
    BY <1>2
  <2>2. CASE j = 1
    BY <2>1, <2>2 DEF AppliedBefore
  <2>3. CASE j # 1
    <3>1. /\ j - 1 \in 1 .. Len(mailbox[r]) - 1 /\ j - 1 \in DOMAIN mailbox'[r]
          /\ j - 1 < k /\ (j - 1) + 1 = j
      BY <2>1, <2>3, ShiftedMail
    <3>2. mailbox'[r][j - 1] = mailbox[r][j]
      BY <3>1, ShiftedMail
    <3>3. QED
      BY <2>1, <3>1, <3>2 DEF AppliedBefore
  <2>4. QED
    BY <2>2, <2>3
<1>3. QED
  BY <1>1, <1>2 DEF AppliedBefore

\* A request; a read comes with the writes acknowledged so far.
LEMMA DelegateToRead ==
  ASSUME ReadInv, TypeOK', NEW r, NEW m \in Message, DelegateTo(r, m),
         m.type = "read_local" => m.after[r] \subseteq acked[r]
  PROVE  ReadInv'
<1>1. TypeOK /\ r \in Inst /\ acked' = acked
  BY DelegateToMail DEF ReadInv
<1>2. ASSUME NEW q \in Inst, q # r PROVE WritesPrecedeReads(q)'
  <2>1. mailbox'[q] = mailbox[q] /\ WritesPrecedeReads(q)
    BY <1>1, <1>2, DelegateToMail DEF ReadInv
  <2>2. QED
    BY <1>1, <2>1, AppendKeepsApplied DEF WritesPrecedeReads
<1>3. WritesPrecedeReads(r)'
  <2>1. /\ mailbox'[r] = Append(mailbox[r], m) /\ mailbox[r] \in Seq(Message)
        /\ WritesPrecedeReads(r)
    BY <1>1, DelegateToMail DEF ReadInv, TypeOK
  <2>2. /\ Len(mailbox[r]) \in Nat /\ Len(mailbox'[r]) = Len(mailbox[r]) + 1
        /\ DOMAIN mailbox[r] = 1 .. Len(mailbox[r])
        /\ DOMAIN mailbox'[r] = 1 .. Len(mailbox[r]) + 1
        /\ \A i \in 1 .. Len(mailbox[r]) : mailbox'[r][i] = mailbox[r][i]
        /\ mailbox'[r][Len(mailbox[r]) + 1] = m
    BY <2>1, Appended
  <2>len. PICK n \in Nat : n = Len(mailbox[r]) + 1
    BY <2>2
  <2>3. ASSUME NEW e \in acked[r] PROVE AppliedBefore(r, n, e)'
    <3>1. AppliedBefore(r, n, e)
      BY <2>1, <2>len DEF WritesPrecedeReads
    <3>2. QED
      BY <1>1, <3>1, AppendKeepsApplied DEF ReadInv
  <2>4. ASSUME NEW e \in acked'[r] PROVE AppliedBefore(r, n + 1, e)'
    <3>1. AppliedBefore(r, n, e)'
      BY <1>1, <2>3
    <3>2. \A j \in DOMAIN mailbox'[r] : j < n => j < n + 1
      BY <2>2
    <3>3. QED
      BY <3>1, <3>2 DEF AppliedBefore
  <2>5. ASSUME NEW k \in DOMAIN mailbox'[r], mailbox'[r][k].type = "read_local",
               NEW e \in mailbox'[r][k].after[r]
        PROVE  AppliedBefore(r, k, e)'
    <3>1. CASE k \in DOMAIN mailbox[r]
      <4>1. AppliedBefore(r, k, e)
        BY <2>1, <2>2, <2>5, <3>1 DEF WritesPrecedeReads
      <4>2. QED
        BY <1>1, <4>1, AppendKeepsApplied
    <3>2. CASE k = n
      <4>1. e \in acked[r]
        BY <2>2, <2>len, <2>5, <3>2
      <4>2. QED
        BY <2>3, <3>2, <4>1
    <3>3. QED
      BY <2>2, <2>len, <2>5, <3>1, <3>2
  <2>6. Len(mailbox'[r]) + 1 = n + 1
    BY <2>2, <2>len
  <2>7. QED
    BY <2>4, <2>5, <2>6 DEF WritesPrecedeReads
<1>4. QED
  BY <1>2, <1>3 DEF ReadInv

\* A replica that handles a message: the acknowledged writes are those of before,
\* and the one whose publication goes to the end of the mailbox.
LEMMA HandleRead ==
  ASSUME ReadInv, TypeOK', NEW r \in Inst, Handle(r)
  PROVE  ReadInv'
<1>1. TypeOK /\ Shifted(r) /\ WritesPrecedeReads(r)
  BY HandleShifts DEF ReadInv
<1>2. /\ DOMAIN mailbox[r] = 1 .. Len(mailbox[r]) /\ Len(mailbox[r]) \in Nat \ {0}
      /\ Head(mailbox[r]) = mailbox[r][1] /\ mailbox[r][1] \in Message
      /\ DOMAIN mailbox'[r] = 1 .. Len(mailbox'[r]) /\ Len(mailbox'[r]) \in Nat
      /\ Len(mailbox'[r]) >= Len(mailbox[r]) - 1
      /\ \A i \in DOMAIN mailbox'[r] :
           \/ i + 1 \in DOMAIN mailbox[r] /\ mailbox'[r][i] = mailbox[r][i + 1]
           \/ i = Len(mailbox[r]) /\ mailbox'[r][i].type = "publish"
  BY <1>1, ShiftedMail
<1>3. /\ cvrdt[r] \subseteq cvrdt'[r]
      /\ mailbox[r][1].type = "publish" => mailbox[r][1].elems \subseteq cvrdt'[r]
      /\ \A q \in Inst : q # r => cvrdt'[q] = cvrdt[q] /\ acked'[q] = acked[q]
      /\ \/ acked'[r] = acked[r]
         \/ /\ acked'[r] = acked[r] \cup mailbox[r][1].elems
            /\ mailbox'[r] = Append(Tail(mailbox[r]), PublishMsg(mailbox[r][1].elems))
            /\ mailbox[r][1].type = "write_local"
  <2>1. CASE OnPublish(r)
    BY <1>1, <1>2, <2>1 DEF OnPublish, Handles, TypeOK
  <2>2. CASE OnWriteLocal(r)
    BY <1>1, <1>2, <2>2 DEF OnWriteLocal, Handles, TypeOK
  <2>3. CASE OnSubscribe(r) \/ OnUnsubscribe(r) \/ OnReadLocal(r) \/ OnDelete(r)
    BY <1>1, <1>2, <2>3 DEF OnSubscribe, OnUnsubscribe, OnReadLocal, OnDelete, Handles
  <2>4. QED
    BY <2>1, <2>2, <2>3 DEF Handle
<1>4. ASSUME NEW k \in Nat, NEW e, AppliedBefore(r, k + 1, e)
      PROVE  AppliedBefore(r, k, e)'
  BY <1>1, <1>3, <1>4, ShiftKeepsApplied
<1>5. ASSUME NEW q \in Inst, q # r PROVE WritesPrecedeReads(q)'
  BY <1>1, <1>3, <1>5 DEF ReadInv, WritesPrecedeReads, AppliedBefore, Shifted
<1>6. WritesPrecedeReads(r)'
  <2>len. PICK n \in Nat : n = Len(mailbox'[r])
    BY <1>2
  <2>1. ASSUME NEW e \in acked'[r] PROVE AppliedBefore(r, n + 1, e)'
    <3>1. CASE e \in acked[r]
      <4>len. PICK k \in Nat : k + 1 = Len(mailbox[r]) + 1
        BY <1>2
      <4>old. AppliedBefore(r, k + 1, e)
        BY <1>1, <4>len, <3>1 DEF WritesPrecedeReads
      <4>1. AppliedBefore(r, k, e)'
        BY <1>4, <4>old
      <4>2. \A j \in DOMAIN mailbox'[r] : j < n + 1
        BY <1>2, <2>len
      <4>3. QED
        BY <4>1, <4>2 DEF AppliedBefore
    <3>2. CASE e \notin acked[r]
      <4> DEFINE E == mailbox[r][1].elems
      <4>1. /\ e \in E /\ E \in SUBSET Elem
            /\ mailbox'[r] = Append(Tail(mailbox[r]), PublishMsg(E))
        BY <1>2, <1>3, <2>1, <3>2, MessageFields
      <4>2. Tail(mailbox[r]) \in Seq(Message) /\ PublishMsg(E) \in Message
        BY <1>1, <4>1, Tailed, MessagesBuilt DEF TypeOK, Shifted
      <4>3. n \in DOMAIN mailbox'[r] /\ mailbox'[r][n] = PublishMsg(E)
        BY <1>2, <2>len, <4>1, <4>2, Appended
      <4>4. n < n + 1 /\ PublishMsg(E).type = "publish" /\ PublishMsg(E).elems = E
        BY DEF PublishMsg
      <4>5. QED
        BY <4>1, <4>3, <4>4 DEF AppliedBefore
    <3>3. QED
      BY <3>1, <3>2
  <2>2. ASSUME NEW k \in DOMAIN mailbox'[r], mailbox'[r][k].type = "read_local",
               NEW e \in mailbox'[r][k].after[r]
        PROVE  AppliedBefore(r, k, e)'
    <3>1. k \in Nat /\ k + 1 \in DOMAIN mailbox[r] /\ mailbox'[r][k] = mailbox[r][k + 1]
      BY <1>2, <2>2
    <3>2. AppliedBefore(r, k + 1, e)
      BY <1>1, <2>2, <3>1 DEF WritesPrecedeReads
    <3>3. QED
      BY <1>4, <3>1, <3>2
  <2>3. QED
    BY <2>len, <2>1, <2>2 DEF WritesPrecedeReads
<1>7. QED
  BY <1>5, <1>6 DEF ReadInv

LEMMA OtherRead ==
  ASSUME ReadInv, TypeOK', UNCHANGED <<mailbox, cvrdt, acked>>
  PROVE  ReadInv'
BY DEF ReadInv, WritesPrecedeReads, AppliedBefore

LEMMA ForwardRead ==
  ASSUME ReadInv, TypeOK', NEW m \in Message, Forward(m), m.type # "read_local"
  PROVE  ReadInv'
BY DelegateToRead DEF Forward

LEMMA NextRead == ReadInv /\ [Next]_vars => ReadInv'
<1> SUFFICES ASSUME ReadInv, [Next]_vars PROVE ReadInv'
  OBVIOUS
<1>1. TypeOK /\ TypeOK'
  BY NextType DEF ReadInv
<1>2. ASSUME NEW c \in Client, Construct(c) \/ Destroy(c) PROVE ReadInv'
  <2>1. /\ Subscribe(c) \in Message /\ Subscribe(c).type # "read_local"
        /\ Unsubscribe(c) \in Message /\ Unsubscribe(c).type # "read_local"
    BY MessagesBuilt DEF Subscribe, Unsubscribe
  <2>2. QED
    BY <1>1, <1>2, <2>1, ForwardRead DEF Construct, Destroy
<1>3. ASSUME NEW E \in SUBSET Elem, Forward(PublishMsg(E)) \/ Forward(WriteLocal(E))
      PROVE  ReadInv'
  <2>1. /\ PublishMsg(E) \in Message /\ PublishMsg(E).type # "read_local"
        /\ WriteLocal(E) \in Message /\ WriteLocal(E).type # "read_local"
    BY MessagesBuilt DEF PublishMsg, WriteLocal
  <2>2. QED
    BY <1>1, <1>3, <2>1, ForwardRead
<1>4. CASE RequestWrite \/ RemoteUpdates \/ \E c \in Client : Insert(c)
  <2>1. PICK E \in SUBSET Elem : Forward(PublishMsg(E)) \/ Forward(WriteLocal(E))
    BY <1>4 DEF RequestWrite, RemoteUpdates, Insert
  <2>2. QED
    BY <1>3, <2>1
<1>5. CASE RequestRead
  <2>1. PICK r \in Inst : DelegateTo(r, ReadLocal(acked))
    BY <1>5 DEF RequestRead, Forward
  <2>2. ReadLocal(acked) \in Message /\ ReadLocal(acked).after = acked
    BY <1>1, MessagesBuilt DEF ReadLocal, TypeOK
  <2>3. QED
    BY <1>1, <2>1, <2>2, DelegateToRead
<1>6. CASE DeleteReplica
  <2>1. PICK r \in Inst : DelegateTo(r, Delete)
    BY <1>6 DEF DeleteReplica
  <2>2. Delete \in Message /\ Delete.type # "read_local"
    BY MessagesBuilt DEF Delete
  <2>3. QED
    BY <1>1, <2>1, <2>2, DelegateToRead
<1>7. ASSUME NEW r \in Inst, Handle(r) PROVE ReadInv'
  BY <1>1, <1>7, HandleRead
<1>8. ASSUME \/ \E c \in Client : OnNotified(c)
             \/ \E r \in Inst : OnNotifyTick(r)
             \/ UNCHANGED vars
      PROVE  ReadInv'
  BY <1>1, <1>8, OtherRead DEF OnNotified, OnNotifyTick, replicaVars, vars
<1>9. QED
  BY <1>2, <1>4, <1>5, <1>6, <1>7, <1>8 DEF Next

LEMMA InitRead == Init => ReadInv
<1> SUFFICES ASSUME Init PROVE ReadInv
  OBVIOUS
<1>1. ASSUME NEW r \in Inst PROVE mailbox[r] = <<>> /\ acked[r] = {}
  BY DEF Init
<1>2. ASSUME NEW r \in Inst PROVE WritesPrecedeReads(r)
  <2>1. DOMAIN mailbox[r] = {}
    BY <1>1
  <2>2. QED
    BY <1>1, <2>1 DEF WritesPrecedeReads
<1>3. QED
  BY <1>2, InitType DEF ReadInv

\* A request reaches the replica that the replicator finds, which is not forgotten.
LEMMA DelegateToDeleted ==
  ASSUME DeletedInv, TypeOK', NEW r, NEW m \in Message, DelegateTo(r, m),
         \/ states' = r /\ deleted' = deleted
         \/ states' = NoReplica /\ deleted' = deleted \cup {r},
         m.type = "read_local" => m.after = acked
  PROVE  DeletedInv'
<1>1. TypeOK /\ r \in Inst /\ acked' = acked /\ deleted \subseteq deleted'
      /\ NoReplica \notin Inst
  BY DelegateToMail, ReplicaBoundsAreNat DEF DeletedInv, Inst, NoReplica
<1>2. ASSUME NEW q \in Inst \ {r}
      PROVE  q # states /\ (running[q] \/ acked[q] # {} => q \in deleted)
  <2>1. q # states
    BY <1>1, <1>2, DelegateToMail
  <2>2. QED
    BY <2>1 DEF DeletedInv, ForgottenIsDeleted
<1>3. ASSUME NEW q \in Inst PROVE ForgottenIsDeleted(q)'
  <2>1. CASE q = r
    BY <2>1 DEF ForgottenIsDeleted
  <2>2. CASE q # r
    <3>1. running'[q] = running[q]
      BY <1>1, <2>2, DelegateToMail
    <3>2. QED
      BY <1>1, <1>2, <2>2, <3>1 DEF ForgottenIsDeleted
  <2>3. QED
    BY <2>1, <2>2
<1>4. ASSUME NEW q \in Inst \ {r} PROVE OthersAreDeleted(q)'
  <2>1. mailbox'[q] = mailbox[q]
    BY <1>1, <1>4, DelegateToMail
  <2>2. QED
    BY <1>1, <2>1 DEF DeletedInv, OthersAreDeleted
<1>5. OthersAreDeleted(r)'
  <2>1. mailbox'[r] = Append(mailbox[r], m) /\ mailbox[r] \in Seq(Message)
    BY <1>1, DelegateToMail DEF TypeOK
  <2>2. /\ DOMAIN mailbox[r] = 1 .. Len(mailbox[r]) /\ Len(mailbox[r]) \in Nat
        /\ DOMAIN mailbox'[r] = 1 .. Len(mailbox[r]) + 1
        /\ \A i \in 1 .. Len(mailbox[r]) : mailbox'[r][i] = mailbox[r][i]
        /\ mailbox'[r][Len(mailbox[r]) + 1] = m
    BY <2>1, Appended
  <2>3. ASSUME NEW k \in DOMAIN mailbox'[r], mailbox'[r][k].type = "read_local",
               NEW q \in Inst \ {r}
        PROVE  q \in deleted' \/ mailbox'[r][k].after[q] = {}
    <3>1. CASE k \in DOMAIN mailbox[r]
      BY <1>1, <2>2, <2>3, <3>1 DEF DeletedInv, OthersAreDeleted
    <3>2. CASE k = Len(mailbox[r]) + 1
      BY <1>1, <1>2, <2>2, <2>3, <3>2
    <3>3. QED
      BY <2>2, <2>3, <3>1, <3>2
  <2>4. QED
    BY <2>3 DEF OthersAreDeleted
<1>6. QED
  BY <1>3, <1>4, <1>5 DEF DeletedInv

\* Only a running replica acknowledges.
LEMMA HandleDeleted ==
  ASSUME DeletedInv, TypeOK', NEW r \in Inst, Handle(r)
  PROVE  DeletedInv'
<1>1. TypeOK /\ Shifted(r) /\ UNCHANGED <<states, deleted>>
  BY HandleShifts DEF DeletedInv
<1>2. /\ running[r]
      /\ \A q \in Inst : q # r => running'[q] = running[q] /\ acked'[q] = acked[q]
  <2>1. CASE OnPublish(r) \/ OnSubscribe(r) \/ OnUnsubscribe(r) \/ OnReadLocal(r)
    BY <2>1 DEF OnPublish, OnSubscribe, OnUnsubscribe, OnReadLocal, Handles
  <2>2. CASE OnWriteLocal(r) \/ OnDelete(r)
    BY <1>1, <2>2 DEF OnWriteLocal, OnDelete, Handles, TypeOK
  <2>3. QED
    BY <2>1, <2>2 DEF Handle
<1>3. \A q \in Inst : ForgottenIsDeleted(q)'
  BY <1>1, <1>2 DEF DeletedInv, ForgottenIsDeleted
<1>4. ASSUME NEW q \in Inst, q # r PROVE OthersAreDeleted(q)'
  BY <1>1, <1>4 DEF DeletedInv, OthersAreDeleted, Shifted
<1>5. OthersAreDeleted(r)'
  <2>1. \A k \in DOMAIN mailbox'[r] :
          mailbox'[r][k].type = "read_local"
            => k + 1 \in DOMAIN mailbox[r] /\ mailbox'[r][k] = mailbox[r][k + 1]
    BY <1>1, ShiftedMail
  <2>2. QED
    BY <1>1, <2>1 DEF DeletedInv, OthersAreDeleted
<1>6. QED
  BY <1>3, <1>4, <1>5 DEF DeletedInv

LEMMA ForwardDeleted ==
  ASSUME DeletedInv, TypeOK', NEW m \in Message, Forward(m),
         m.type = "read_local" => m.after = acked
  PROVE  DeletedInv'
BY DelegateToDeleted DEF Forward

LEMMA NextDeleted == DeletedInv /\ [Next]_vars => DeletedInv'
<1> SUFFICES ASSUME DeletedInv, [Next]_vars PROVE DeletedInv'
  OBVIOUS
<1>1. TypeOK /\ TypeOK'
  BY NextType DEF DeletedInv
<1>2. ASSUME NEW c \in Client, Construct(c) \/ Destroy(c) PROVE DeletedInv'
  <2>1. /\ Subscribe(c) \in Message /\ Subscribe(c).type # "read_local"
        /\ Unsubscribe(c) \in Message /\ Unsubscribe(c).type # "read_local"
    BY MessagesBuilt DEF Subscribe, Unsubscribe
  <2>2. QED
    BY <1>1, <1>2, <2>1, ForwardDeleted DEF Construct, Destroy
<1>3. CASE RequestWrite \/ RemoteUpdates \/ \E c \in Client : Insert(c)
  <2>1. PICK E \in SUBSET Elem : Forward(PublishMsg(E)) \/ Forward(WriteLocal(E))
    BY <1>3 DEF RequestWrite, RemoteUpdates, Insert
  <2>2. /\ PublishMsg(E) \in Message /\ PublishMsg(E).type # "read_local"
        /\ WriteLocal(E) \in Message /\ WriteLocal(E).type # "read_local"
    BY MessagesBuilt DEF PublishMsg, WriteLocal
  <2>3. QED
    BY <1>1, <2>1, <2>2, ForwardDeleted
<1>4. CASE RequestRead
  <2>1. ReadLocal(acked) \in Message /\ ReadLocal(acked).after = acked
    BY <1>1, MessagesBuilt DEF ReadLocal, TypeOK
  <2>2. QED
    BY <1>1, <1>4, <2>1, ForwardDeleted DEF RequestRead
<1>5. CASE DeleteReplica
  <2>1. PICK r \in Inst :
          DelegateTo(r, Delete) /\ states' = NoReplica /\ deleted' = deleted \cup {r}
    BY <1>5 DEF DeleteReplica
  <2>2. Delete \in Message /\ Delete.type # "read_local"
    BY MessagesBuilt DEF Delete
  <2>3. QED
    BY <1>1, <2>1, <2>2, DelegateToDeleted
<1>6. ASSUME NEW r \in Inst, Handle(r) PROVE DeletedInv'
  BY <1>1, <1>6, HandleDeleted
<1>7. ASSUME \/ \E c \in Client : OnNotified(c)
             \/ \E r \in Inst : OnNotifyTick(r)
             \/ UNCHANGED vars
      PROVE  DeletedInv'
  <2>1. UNCHANGED <<states, running, mailbox, acked, deleted>>
    BY <1>7 DEF OnNotified, OnNotifyTick, ReplicatorUnchanged, replicaVars, vars
  <2>2. QED
    BY <1>1, <2>1 DEF DeletedInv, ForgottenIsDeleted, OthersAreDeleted
<1>8. QED
  BY <1>2, <1>3, <1>4, <1>5, <1>6, <1>7 DEF Next

LEMMA InitDeleted == Init => DeletedInv
<1> SUFFICES ASSUME Init PROVE DeletedInv
  OBVIOUS
<1>1. ASSUME NEW r \in Inst PROVE ForgottenIsDeleted(r) /\ OthersAreDeleted(r)
  <2>1. ~running[r] /\ acked[r] = {} /\ mailbox[r] = <<>>
    BY DEF Init
  <2>2. DOMAIN mailbox[r] = {}
    BY <2>1
  <2>3. QED
    BY <2>1, <2>2 DEF ForgottenIsDeleted, OthersAreDeleted
<1>2. QED
  BY <1>1, InitType DEF DeletedInv

\* A read sent after a write was acknowledged, by whichever replica, sees it although
\* replicas acknowledge before they apply (replica.hpp:228-236), unless
\* delete_replica was sent to the replica that acknowledged it and another one
\* answers (replicator_actor.cpp:165-169, 185-196).
THEOREM ReadsSeeWrites == Spec => []ReadsSeeAckedWrites
<1>1. ReadInv /\ DeletedInv => ReadsSeeAckedWrites
  <2>1. SUFFICES ASSUME ReadInv, DeletedInv, NEW r \in Inst, NEW q \in Inst,
                        mailbox[r] # <<>>, Head(mailbox[r]).type = "read_local",
                        q \notin deleted \ {r}, NEW e \in Head(mailbox[r]).after[q]
                 PROVE  e \in cvrdt[r]
    BY DEF ReadsSeeAckedWrites
  <2>2. /\ Head(mailbox[r]) = mailbox[r][1] /\ 1 \in DOMAIN mailbox[r]
        /\ \A j \in DOMAIN mailbox[r] : ~(j < 1)
    <3>1. mailbox[r] \in Seq(Message)
      BY <2>1 DEF ReadInv, TypeOK
    <3>2. QED
      BY <2>1, <3>1, Tailed
  <2>3. q = r
    BY <2>1, <2>2 DEF DeletedInv, OthersAreDeleted
  <2>4. AppliedBefore(r, 1, e)
    BY <2>1, <2>2, <2>3 DEF ReadInv, WritesPrecedeReads
  <2>5. QED
    BY <2>2, <2>4 DEF AppliedBefore
<1>2. QED
  BY <1>1, InitRead, NextRead, InitDeleted, NextDeleted, PTL DEF Spec

--------------------------------------------------------------------------------
(***************************************************************************)
(* Subscribers.                                                            *)
(***************************************************************************)

\* A notification under way when another is sent stays under way.
LEMMA NotifyAdds ==
  ASSUME TypeOK, NEW to, NEW delta \in SUBSET Elem, Notify(to, delta),
         NEW c \in Client
  PROVE  /\ InTransit(c) \subseteq InTransit(c)'
         /\ c \in to => delta \subseteq InTransit(c)'
<1>1. inbox[c] \in Seq(SUBSET Elem)
  BY DEF TypeOK
<1>2. CASE c \in to
  <2>1. inbox'[c] = Append(inbox[c], delta)
    BY <1>2 DEF Notify
  <2>2. /\ DOMAIN inbox[c] = 1 .. Len(inbox[c]) /\ Len(inbox[c]) \in Nat
        /\ DOMAIN inbox'[c] = 1 .. Len(inbox[c]) + 1
        /\ \A i \in 1 .. Len(inbox[c]) : inbox'[c][i] = inbox[c][i]
        /\ inbox'[c][Len(inbox[c]) + 1] = delta
    BY <1>1, <2>1, Appended
  <2>3. /\ \A i \in DOMAIN inbox[c] : i \in DOMAIN inbox'[c] /\ inbox'[c][i] = inbox[c][i]
        /\ \E i \in DOMAIN inbox'[c] : inbox'[c][i] = delta
    BY <2>2
  <2>4. QED
    BY <2>3 DEF InTransit
<1>3. CASE c \notin to
  BY <1>3 DEF Notify, InTransit
<1>4. QED
  BY <1>2, <1>3

\* A notification handled is in the view.
LEMMA NotifiedMoves ==
  ASSUME TypeOK, NEW c \in Client, OnNotified(c), NEW d \in Client, bound[d]
  PROVE  view[d] \cup InTransit(d) \subseteq view'[d] \cup InTransit(d)'
<1>1. CASE d = c
  <2>1. inbox[c] \in Seq(SUBSET Elem) /\ inbox[c] # <<>>
    BY DEF TypeOK, OnNotified
  <2>2. inbox'[c] = Tail(inbox[c]) /\ view'[c] = view[c] \cup Head(inbox[c])
    BY <1>1 DEF TypeOK, OnNotified
  <2>3. /\ Head(inbox[c]) = inbox[c][1]
        /\ DOMAIN inbox[c] = 1 .. Len(inbox[c]) /\ Len(inbox[c]) \in Nat \ {0}
        /\ DOMAIN inbox'[c] = 1 .. Len(inbox[c]) - 1
        /\ \A i \in 1 .. Len(inbox[c]) - 1 : inbox'[c][i] = inbox[c][i + 1]
    BY <2>1, <2>2, Tailed
  <2>4. ASSUME NEW i \in DOMAIN inbox[c]
        PROVE  \/ inbox[c][i] = Head(inbox[c])
               \/ \E j \in DOMAIN inbox'[c] : inbox[c][i] = inbox'[c][j]
    <3>1. CASE i = 1
      BY <2>3, <3>1
    <3>2. CASE i # 1
      <4>1. i - 1 \in 1 .. Len(inbox[c]) - 1 /\ (i - 1) + 1 = i
        BY <2>3, <3>2
      <4>2. QED
        BY <2>3, <4>1
    <3>3. QED
      BY <3>1, <3>2
  <2>5. QED
    BY <1>1, <2>2, <2>4 DEF InTransit
<1>2. CASE d # c
  <2>1. inbox'[d] = inbox[d] /\ view'[d] = view[d]
    BY <1>2 DEF OnNotified, TypeOK
  <2>2. QED
    BY <2>1 DEF InTransit
<1>3. QED
  BY <1>1, <1>2

\* A new replica has no subscribers and no mail.
LEMMA NewReplica ==
  ASSUME LifeInv, NEW r, NEW m \in Message, DelegateTo(r, m), states = NoReplica
  PROVE  subs'[r] = {} /\ mailbox'[r] = Append(<<>>, m)
<1>1. r \in Inst /\ r = spawned + 1 /\ spawned \in Nat /\ Life(r)
      /\ subs' = subs /\ mailbox'[r] = Append(mailbox[r], m)
  BY DelegateToMail DEF LifeInv, TypeOK
<1>2. r > spawned
  BY <1>1
<1>3. subs[r] = {} /\ mailbox[r] = <<>>
  BY <1>1, <1>2 DEF Life
<1>4. QED
  BY <1>1, <1>3

\* A request: only who subscribes gets a state object, only who asks to be removed
\* loses it, and the views of the others do not shrink.
LEMMA ForwardNotify ==
  ASSUME NotifyInv, LifeInv', NEW m \in Message, Forward(m), UNCHANGED inbox,
         \A c \in Client :
           \/ m = Subscribe(c) /\ ~bound[c] /\ bound'[c]
           \/ m = Unsubscribe(c) /\ ~bound'[c]
           \/ m # Subscribe(c) /\ bound'[c] = bound[c] /\ view[c] \subseteq view'[c]
  PROVE  NotifyInv'
<1>1. PICK r \in Inst : DelegateTo(r, m) /\ states' = r
  BY DEF Forward
<1>2. /\ TypeOK /\ LifeInv
      /\ mailbox'[r] = Append(mailbox[r], m) /\ mailbox[r] \in Seq(Message)
      /\ UNCHANGED <<cvrdt, buffer, subs>>
  BY <1>1, DelegateToMail DEF NotifyInv, LifeInv, TypeOK
<1>3. /\ DOMAIN mailbox[r] = 1 .. Len(mailbox[r]) /\ Len(mailbox[r]) \in Nat
      /\ DOMAIN mailbox'[r] = 1 .. Len(mailbox[r]) + 1
      /\ \A i \in 1 .. Len(mailbox[r]) : mailbox'[r][i] = mailbox[r][i]
      /\ mailbox'[r][Len(mailbox[r]) + 1] = m
  BY <1>2, Appended
<1>4. ASSUME NEW c \in Client
      PROVE  Told(r, c)' /\ (~bound'[c] => WillBeRemoved(r, c)')
  <2>1. InTransit(c)' = InTransit(c)
    BY DEF InTransit
  <2>2. Subscribe(c) # Unsubscribe(c)
    BY DEF Subscribe, Unsubscribe
  <2>3. CASE states = NoReplica
    <3>1. subs'[r] = {} /\ DOMAIN mailbox[r] = {} /\ mailbox[r] = <<>>
      <4>1. subs'[r] = {} /\ mailbox'[r] = Append(<<>>, m)
        BY <1>1, <1>2, <2>3, NewReplica
      <4>2. Life(r) /\ r > spawned
        BY <1>1, <1>2, <2>3, DelegateToMail DEF LifeInv, TypeOK
      <4>3. QED
        BY <4>1, <4>2 DEF Life
    <3>2. Told(r, c)'
      BY <3>1 DEF Told
    <3>3. ASSUME ~bound'[c] PROVE m # Subscribe(c)
      BY <2>2, <3>3
    <3>4. \A i \in DOMAIN mailbox'[r] : mailbox'[r][i] = m
      BY <1>3, <3>1
    <3>5. QED
      BY <3>1, <3>2, <3>3, <3>4 DEF WillBeRemoved, Subscribe
  <2>4. CASE states # NoReplica
    <3>1. /\ states = r /\ Told(r, c)
          /\ ~bound[c] => WillBeRemoved(r, c)
      BY <1>1, <2>4 DEF NotifyInv, DelegateTo, Found
    <3>2. \A i \in DOMAIN mailbox[r] :
            i \in DOMAIN mailbox'[r] /\ mailbox'[r][i] = mailbox[r][i]
      BY <1>3
    <3>3. Stays(r, c)' => Stays(r, c)
      BY <3>2 DEF Stays, Unsubscribe
    <3>4. CASE m = Subscribe(c) /\ ~bound[c] /\ bound'[c]
      <4>1. c \in subs[r] => ~Stays(r, c)
        BY <3>1, <3>4 DEF WillBeRemoved, Stays
      <4>2. QED
        BY <1>2, <3>3, <3>4, <4>1 DEF Told
    <3>5. CASE m = Unsubscribe(c) /\ ~bound'[c]
      <4>1. PICK n \in Nat : n = Len(mailbox[r]) + 1
        BY <1>3
      <4>2. n \in DOMAIN mailbox'[r] /\ mailbox'[r][n] = Unsubscribe(c)
        BY <1>3, <3>5, <4>1
      <4>3. \A i \in DOMAIN mailbox'[r] : mailbox'[r][i] = Subscribe(c) => i < n
        BY <1>3, <2>2, <3>5, <4>1
      <4>4. Unsubscribe(c)' = Unsubscribe(c) /\ Subscribe(c)' = Subscribe(c)
        BY DEF Subscribe, Unsubscribe
      <4>5. WillBeRemoved(r, c)'
        BY <4>2, <4>3, <4>4 DEF WillBeRemoved
      <4>6. Told(r, c)'
        BY <3>5 DEF Told
      <4>7. QED
        BY <4>5, <4>6
    <3>6. CASE m # Subscribe(c) /\ bound'[c] = bound[c] /\ view[c] \subseteq view'[c]
      <4>1. Told(r, c)'
        BY <1>2, <2>1, <3>1, <3>3, <3>6 DEF Told
      <4>2. ASSUME ~bound'[c] PROVE WillBeRemoved(r, c)'
        <5>1. WillBeRemoved(r, c)
          BY <3>1, <3>6, <4>2
        <5>2. \A i \in DOMAIN mailbox'[r] :
                mailbox'[r][i] = Subscribe(c) =>
                  i \in DOMAIN mailbox[r] /\ mailbox[r][i] = Subscribe(c)
          BY <1>3, <3>6
        <5>3. QED
          BY <1>2, <3>2, <5>1, <5>2 DEF WillBeRemoved, Subscribe, Unsubscribe
      <4>3. QED
        BY <4>1, <4>2
    <3>7. QED
      BY <3>4, <3>5, <3>6
  <2>5. QED
    BY <2>3, <2>4
<1>5. QED
  BY <1>1, <1>4 DEF NotifyInv

\* The known replica handles a message.
LEMMA HandleNotify ==
  ASSUME NotifyInv, LifeInv', NEW r \in Inst, Handle(r), r = states,
         NEW c \in Client
  PROVE  Told(r, c)' /\ (~bound'[c] => WillBeRemoved(r, c)')
<1> DEFINE m == mailbox[r][1]
<1>1. /\ TypeOK /\ LifeInv /\ Shifted(r) /\ UNCHANGED <<states, bound, view>>
      /\ Told(r, c) /\ (~bound[c] => WillBeRemoved(r, c)) /\ r # NoReplica
  BY HandleShifts, ReplicaBoundsAreNat DEF NotifyInv, LifeInv, Inst, NoReplica
<1>2. /\ DOMAIN mailbox[r] = 1 .. Len(mailbox[r]) /\ Len(mailbox[r]) \in Nat \ {0}
      /\ Head(mailbox[r]) = m /\ m \in Message
      /\ DOMAIN mailbox'[r] = 1 .. Len(mailbox'[r]) /\ Len(mailbox'[r]) \in Nat
      /\ Len(mailbox'[r]) >= Len(mailbox[r]) - 1
      /\ \A i \in 1 .. Len(mailbox[r]) - 1 : mailbox'[r][i] = mailbox[r][i + 1]
      /\ \A i \in DOMAIN mailbox'[r] :
           \/ i + 1 \in DOMAIN mailbox[r] /\ mailbox'[r][i] = mailbox[r][i + 1]
           \/ i = Len(mailbox[r]) /\ mailbox'[r][i].type = "publish"
  BY <1>1, ShiftedMail
<1> HIDE DEF m
<1>3. ASSUME NEW i \in DOMAIN mailbox[r], i # 1
      PROVE  \E j \in DOMAIN mailbox'[r] : j + 1 = i /\ mailbox'[r][j] = mailbox[r][i]
  <2>1. i - 1 \in 1 .. Len(mailbox[r]) - 1 /\ i - 1 \in DOMAIN mailbox'[r] /\ (i - 1) + 1 = i
    BY <1>2, <1>3
  <2>2. mailbox'[r][i - 1] = mailbox[r][i]
    BY <1>2, <2>1
  <2>3. QED
    BY <2>1, <2>2
<1>4. Stays(r, c)' => Stays(r, c) \/ m = Unsubscribe(c)
  BY <1>2, <1>3 DEF Stays, Unsubscribe, m
<1>5. /\ m.type = "subscribe" /\ subs'[r] = subs[r] \cup {m.from} /\ m.from \in Client
         /\ Notify(IF cvrdt[r] = {} THEN {} ELSE {m.from}, cvrdt[r])
         /\ cvrdt' = cvrdt /\ buffer' = buffer
      \/ /\ m.type = "unsubscribe" /\ subs'[r] = subs[r] \ {m.from} /\ m.from \in Client
         /\ inbox' = inbox /\ cvrdt' = cvrdt /\ buffer' = buffer
      \/ /\ m.type \notin {"subscribe", "unsubscribe"}
         /\ subs'[r] = subs[r] /\ inbox' = inbox
         /\ cvrdt'[r] \cup buffer[r] \subseteq cvrdt[r] \cup buffer'[r]
         /\ buffer[r] \subseteq buffer'[r]
  <2>1. CASE OnPublish(r)
    BY <1>1, <1>2, <2>1 DEF OnPublish, Handles, TypeOK, clientVars
  <2>2. CASE OnSubscribe(r)
    BY <1>1, <1>2, <2>2, MessageFields DEF OnSubscribe, Handles, TypeOK
  <2>3. CASE OnUnsubscribe(r)
    BY <1>1, <1>2, <2>3, MessageFields DEF OnUnsubscribe, Handles, TypeOK, clientVars
  <2>4. CASE OnReadLocal(r) \/ OnWriteLocal(r) \/ OnDelete(r)
    BY <1>1, <1>2, <2>4 DEF OnReadLocal, OnWriteLocal, OnDelete, Handles, clientVars
  <2>5. QED
    BY <2>1, <2>2, <2>3, <2>4 DEF Handle
<1>6. /\ m.type = "subscribe" => (m.from = c <=> m = Subscribe(c))
      /\ m.type = "unsubscribe" => (m.from = c <=> m = Unsubscribe(c))
      /\ m.type # "subscribe" => m # Subscribe(c)
      /\ m.type # "unsubscribe" => m # Unsubscribe(c)
  BY <1>2 DEF Message, Subscribe, Unsubscribe, Delete
<1>7. InTransit(c) \subseteq InTransit(c)'
  <2>1. CASE inbox' = inbox
    BY <2>1 DEF InTransit
  <2>2. CASE Notify(IF cvrdt[r] = {} THEN {} ELSE {m.from}, cvrdt[r])
    BY <1>1, <2>2, NotifyAdds DEF TypeOK
  <2>3. QED
    BY <1>5, <2>1, <2>2
<1>8. Told(r, c)'
  <2>1. SUFFICES ASSUME c \in subs'[r], bound[c], Stays(r, c)'
                 PROVE  cvrdt'[r] \subseteq view[c] \cup InTransit(c)' \cup buffer'[r]
    BY <1>1 DEF Told
  <2>2. m # Unsubscribe(c) /\ Stays(r, c)
    <3>1. m # Unsubscribe(c)
      BY <1>5, <1>6, <2>1 DEF Unsubscribe
    <3>2. QED
      BY <1>4, <2>1, <3>1
  <2>3. CASE c \in subs[r]
    <3>1. cvrdt[r] \subseteq view[c] \cup InTransit(c) \cup buffer[r]
      BY <1>1, <2>1, <2>2, <2>3 DEF Told
    <3>2. QED
      BY <1>5, <1>7, <3>1
  <2>4. CASE c \notin subs[r]
    <3>1. Notify(IF cvrdt[r] = {} THEN {} ELSE {c}, cvrdt[r]) /\ cvrdt' = cvrdt
      BY <1>5, <2>1, <2>4
    <3>2. cvrdt[r] \in SUBSET Elem
      BY <1>1 DEF TypeOK
    <3>3. cvrdt[r] # {} => cvrdt[r] \subseteq InTransit(c)'
      BY <1>1, <3>1, <3>2, NotifyAdds
    <3>4. QED
      BY <3>1, <3>3
  <2>5. QED
    BY <2>3, <2>4
<1>9. ASSUME ~bound'[c] PROVE WillBeRemoved(r, c)'
  <2>1. WillBeRemoved(r, c)
    BY <1>1, <1>9
  <2>2. Unsubscribe(c).type = "unsubscribe" /\ Subscribe(c).type = "subscribe"
    BY DEF Unsubscribe, Subscribe
  <2>3. ASSUME c \in subs'[r]
        PROVE  \E j \in DOMAIN mailbox'[r] : mailbox'[r][j] = Unsubscribe(c)
    <3>1. \E i \in DOMAIN mailbox[r] : i # 1 /\ mailbox[r][i] = Unsubscribe(c)
      <4>1. CASE c \in subs[r]
        <5>1. m # Unsubscribe(c)
          BY <1>5, <1>6, <2>2, <2>3
        <5>2. QED
          BY <2>1, <4>1, <5>1 DEF WillBeRemoved, m
      <4>2. CASE c \notin subs[r]
        <5>1. m = Subscribe(c)
          BY <1>5, <1>6, <2>3, <4>2
        <5>2. 1 \in DOMAIN mailbox[r] /\ mailbox[r][1] = Subscribe(c)
          BY <1>2, <5>1 DEF m
        <5>3. \E j \in DOMAIN mailbox[r] : 1 < j /\ mailbox[r][j] = Unsubscribe(c)
          BY <2>1, <5>2 DEF WillBeRemoved
        <5>4. QED
          BY <5>3
      <4>3. QED
        BY <4>1, <4>2
    <3>2. QED
      BY <1>3, <3>1
  <2>4. ASSUME NEW i \in DOMAIN mailbox'[r], mailbox'[r][i] = Subscribe(c)
        PROVE  \E j \in DOMAIN mailbox'[r] : i < j /\ mailbox'[r][j] = Unsubscribe(c)
    <3>1. i \in Nat /\ i + 1 \in DOMAIN mailbox[r] /\ mailbox[r][i + 1] = Subscribe(c)
      BY <1>2, <2>2, <2>4
    <3>2. PICK k \in DOMAIN mailbox[r] : i + 1 < k /\ mailbox[r][k] = Unsubscribe(c)
      BY <2>1, <3>1 DEF WillBeRemoved
    <3>3. k # 1 /\ i \in DOMAIN mailbox'[r] /\ k \in Nat
      BY <1>2, <3>1, <3>2
    <3>4. PICK j \in DOMAIN mailbox'[r] : j + 1 = k /\ mailbox'[r][j] = mailbox[r][k]
      BY <1>3, <3>3
    <3>5. i < j
      BY <1>2, <3>1, <3>2, <3>4
    <3>6. QED
      BY <3>2, <3>4, <3>5
  <2>5. QED
    BY <2>3, <2>4 DEF WillBeRemoved, Subscribe, Unsubscribe
<1>10. QED
  BY <1>8, <1>9

\* A forgotten replica handles a message.
LEMMA OtherHandleNotify ==
  ASSUME NotifyInv, LifeInv', NEW r \in Inst, Handle(r), r # states,
         states # NoReplica, NEW c \in Client
  PROVE  Told(states, c)' /\ (~bound'[c] => WillBeRemoved(states, c)')
<1>1. /\ TypeOK /\ Shifted(r) /\ UNCHANGED <<states, bound, view>> /\ states \in Inst
      /\ Told(states, c) /\ (~bound[c] => WillBeRemoved(states, c))
  BY HandleShifts DEF NotifyInv, LifeInv, TypeOK
<1>2. /\ mailbox'[states] = mailbox[states] /\ subs'[states] = subs[states]
      /\ cvrdt'[states] = cvrdt[states] /\ buffer'[states] = buffer[states]
  <2>1. mailbox'[states] = mailbox[states]
    BY <1>1 DEF Shifted
  <2>2. CASE OnPublish(r) \/ OnSubscribe(r) \/ OnUnsubscribe(r)
    BY <1>1, <2>1, <2>2 DEF OnPublish, OnSubscribe, OnUnsubscribe, TypeOK
  <2>3. CASE OnReadLocal(r) \/ OnWriteLocal(r) \/ OnDelete(r)
    BY <2>1, <2>3 DEF OnReadLocal, OnWriteLocal, OnDelete
  <2>4. QED
    BY <2>2, <2>3 DEF Handle
<1>3. InTransit(c) \subseteq InTransit(c)'
  <2>1. CASE inbox' = inbox
    BY <2>1 DEF InTransit
  <2>2. CASE OnSubscribe(r)
    <3>1. cvrdt[r] \in SUBSET Elem
      BY <1>1 DEF TypeOK
    <3>2. PICK to : Notify(to, cvrdt[r])
      BY <2>2 DEF OnSubscribe
    <3>3. QED
      BY <1>1, <3>1, <3>2, NotifyAdds
  <2>3. QED
    BY <2>1, <2>2 DEF Handle, OnPublish, OnUnsubscribe, OnReadLocal, OnWriteLocal,
                      OnDelete, clientVars
<1>4. QED
  BY <1>1, <1>2, <1>3 DEF Told, Stays, WillBeRemoved, Subscribe, Unsubscribe

\* The notify timer: what leaves the buffer is on its way to every subscriber.
LEMMA TickNotify ==
  ASSUME NotifyInv, LifeInv', NEW r \in Inst, OnNotifyTick(r),
         states # NoReplica, NEW c \in Client
  PROVE  Told(states, c)' /\ (~bound'[c] => WillBeRemoved(states, c)')
<1>1. /\ TypeOK /\ Notify(subs[r], buffer[r]) /\ states \in Inst
      /\ buffer[r] \in SUBSET Elem
      /\ UNCHANGED <<states, mailbox, cvrdt, subs, bound, view>>
      /\ states # r => buffer'[states] = buffer[states]
      /\ Told(states, c) /\ (~bound[c] => WillBeRemoved(states, c))
  BY DEF NotifyInv, LifeInv, TypeOK, OnNotifyTick, ReplicatorUnchanged
<1>2. /\ InTransit(c) \subseteq InTransit(c)'
      /\ c \in subs[r] => buffer[r] \subseteq InTransit(c)'
  BY <1>1, NotifyAdds
<1>3. Told(states, c)'
  BY <1>1, <1>2 DEF Told, Stays, Unsubscribe
<1>4. QED
  BY <1>1, <1>3 DEF WillBeRemoved, Subscribe, Unsubscribe

LEMMA NextNotify == NotifyInv /\ [Next]_vars => NotifyInv'
<1> SUFFICES ASSUME NotifyInv, [Next]_vars PROVE NotifyInv'
  OBVIOUS
<1>1. TypeOK /\ LifeInv'
  BY NextLife DEF NotifyInv, LifeInv
<1>2. ASSUME NEW c \in Client, Construct(c) PROVE NotifyInv'
  <2>1. /\ Subscribe(c) \in Message /\ Forward(Subscribe(c)) /\ UNCHANGED inbox
        /\ ~bound[c] /\ bound'[c]
    BY <1>1, <1>2, MessagesBuilt DEF Construct, TypeOK
  <2>2. \A d \in Client : d # c => /\ Subscribe(c) # Subscribe(d)
                                   /\ bound'[d] = bound[d] /\ view'[d] = view[d]
    BY <1>1, <1>2 DEF Construct, Subscribe, TypeOK
  <2>3. \A d \in Client :
          \/ Subscribe(c) = Subscribe(d) /\ ~bound[d] /\ bound'[d]
          \/ /\ Subscribe(c) # Subscribe(d) /\ bound'[d] = bound[d]
             /\ view[d] \subseteq view'[d]
    BY <2>1, <2>2
  <2>4. QED
    BY <1>1, <2>1, <2>3, ForwardNotify
<1>3. ASSUME NEW c \in Client, Destroy(c) PROVE NotifyInv'
  <2>1. /\ Unsubscribe(c) \in Message /\ Forward(Unsubscribe(c)) /\ UNCHANGED inbox
        /\ ~bound'[c]
    BY <1>1, <1>3, MessagesBuilt DEF Destroy, TypeOK
  <2>2. \A d \in Client : /\ Unsubscribe(c) # Subscribe(d) /\ view'[d] = view[d]
                          /\ d # c => bound'[d] = bound[d]
    BY <1>1, <1>3 DEF Destroy, Subscribe, Unsubscribe, TypeOK
  <2>3. \A d \in Client :
          \/ Unsubscribe(c) = Unsubscribe(d) /\ ~bound'[d]
          \/ /\ Unsubscribe(c) # Subscribe(d) /\ bound'[d] = bound[d]
             /\ view[d] \subseteq view'[d]
    BY <2>1, <2>2
  <2>4. QED
    BY <1>1, <2>1, <2>3, ForwardNotify
<1>4. ASSUME NEW m \in Message, Forward(m), m.type # "subscribe", UNCHANGED <<bound, inbox>>,
             \A c \in Client : view[c] \subseteq view'[c]
      PROVE  NotifyInv'
  <2>1. \A c \in Client : m # Subscribe(c)
    BY <1>4 DEF Subscribe
  <2>2. QED
    BY <1>1, <1>4, <2>1, ForwardNotify
<1>5. ASSUME NEW E \in SUBSET Elem
      PROVE  /\ PublishMsg(E) \in Message /\ PublishMsg(E).type # "subscribe"
             /\ WriteLocal(E) \in Message /\ WriteLocal(E).type # "subscribe"
  BY MessagesBuilt DEF PublishMsg, WriteLocal
<1>6. ASSUME NEW c \in Client, Insert(c) PROVE NotifyInv'
  <2>1. PICK E \in SUBSET Elem : /\ view' = [view EXCEPT ![c] = @ \cup E]
                                 /\ Forward(PublishMsg(E \ view[c]))
    BY <1>6 DEF Insert
  <2>2. \A d \in Client : view[d] \subseteq view'[d]
    BY <1>1, <2>1 DEF TypeOK
  <2>3. UNCHANGED <<bound, inbox>>
    BY <1>6 DEF Insert
  <2>4. QED
    BY <1>4, <1>5, <2>1, <2>2, <2>3
<1>7. CASE RequestRead \/ RequestWrite \/ RemoteUpdates
  <2>1. UNCHANGED <<bound, inbox, view>>
    BY <1>7 DEF RequestRead, RequestWrite, RemoteUpdates, clientVars
  <2>2. CASE RequestRead
    <3>1. ReadLocal(acked) \in Message /\ ReadLocal(acked).type # "subscribe"
      BY <1>1, MessagesBuilt DEF ReadLocal, TypeOK
    <3>2. QED
      BY <1>4, <2>1, <2>2, <3>1 DEF RequestRead
  <2>3. CASE RequestWrite \/ RemoteUpdates
    <3>1. PICK E \in SUBSET Elem : Forward(PublishMsg(E)) \/ Forward(WriteLocal(E))
      BY <2>3 DEF RequestWrite, RemoteUpdates
    <3>2. QED
      BY <1>4, <1>5, <2>1, <3>1
  <2>4. QED
    BY <1>7, <2>2, <2>3
<1>8. CASE DeleteReplica
  BY <1>1, <1>8 DEF DeleteReplica, NotifyInv
<1>9. ASSUME states' = states,
             \A c \in Client : states # NoReplica =>
               Told(states, c)' /\ (~bound'[c] => WillBeRemoved(states, c)')
      PROVE  NotifyInv'
  BY <1>1, <1>9 DEF NotifyInv
<1>10. ASSUME NEW r \in Inst, Handle(r) PROVE NotifyInv'
  <2>1. states' = states
    BY <1>1, <1>10, HandleShifts
  <2>2. CASE r = states
    BY <1>1, <1>9, <1>10, <2>1, <2>2, HandleNotify
  <2>3. CASE r # states
    BY <1>1, <1>9, <1>10, <2>1, <2>3, OtherHandleNotify
  <2>4. QED
    BY <2>2, <2>3
<1>11. ASSUME NEW r \in Inst, OnNotifyTick(r) PROVE NotifyInv'
  <2>1. states' = states
    BY <1>11 DEF OnNotifyTick, ReplicatorUnchanged
  <2>2. QED
    BY <1>1, <1>9, <1>11, <2>1, TickNotify
<1>12. ASSUME NEW c \in Client, OnNotified(c) PROVE NotifyInv'
  <2>1. UNCHANGED <<states, mailbox, cvrdt, buffer, subs, bound>>
    BY <1>12 DEF OnNotified, replicaVars
  <2>2. ASSUME NEW d \in Client, states # NoReplica
        PROVE  Told(states, d)' /\ (~bound'[d] => WillBeRemoved(states, d)')
    <3>1. Told(states, d) /\ (~bound[d] => WillBeRemoved(states, d))
      BY <2>2 DEF NotifyInv
    <3>2. bound[d] => view[d] \cup InTransit(d) \subseteq view'[d] \cup InTransit(d)'
      BY <1>1, <1>12, NotifiedMoves
    <3>3. Told(states, d)'
      BY <2>1, <3>1, <3>2 DEF Told, Stays, Unsubscribe
    <3>4. QED
      BY <2>1, <3>1, <3>3 DEF WillBeRemoved, Subscribe, Unsubscribe
  <2>3. QED
    BY <1>9, <2>1, <2>2
<1>13. CASE UNCHANGED vars
  BY <1>1, <1>13 DEF vars, replicaVars, clientVars, NotifyInv, Told, Stays,
                     WillBeRemoved, InTransit, Subscribe, Unsubscribe
<1>14. QED
  BY <1>2, <1>3, <1>6, <1>7, <1>8, <1>10, <1>11, <1>12, <1>13 DEF Next

\* The state sent on subscription and the deltas sent later leave no gap
\* (replica.hpp:186-217).
THEOREM NothingSkips == Spec => []NothingSkipsSubscribers
<1>1. Init => NotifyInv
  BY InitLife DEF Init, NotifyInv
<1>2. NotifyInv => NothingSkipsSubscribers
  <2>1. SUFFICES ASSUME NotifyInv, states # NoReplica, NEW c \in subs[states], bound[c],
                        Unsubscribe(c) \notin Waiting(states, "unsubscribe")
                 PROVE  cvrdt[states] \subseteq view[c] \cup InTransit(c) \cup buffer[states]
    BY DEF NothingSkipsSubscribers
  <2>2. c \in Client /\ Told(states, c)
    BY <2>1 DEF NotifyInv, LifeInv, TypeOK
  <2>3. Stays(states, c)
    BY <2>1 DEF Waiting, Stays, Unsubscribe
  <2>4. QED
    BY <2>1, <2>2, <2>3 DEF Told
<1>3. QED
  BY <1>1, <1>2, NextNotify, PTL DEF Spec

================================================================================
