-------------------------------- MODULE Replica --------------------------------
(***************************************************************************)
(* The replicas of one replica id on one node: replica<T>                  *)
(* (caf/crdt/detail/replica.hpp), the part of the replicator that finds,   *)
(* spawns and forgets them (src/replicator_actor.cpp), and the clients     *)
(* that own state objects bound to the id (types/base_datatype.hpp) with   *)
(* T = gset (types/gset.hpp).                                              *)
(*                                                                         *)
(* A client's request passes the mailbox of the replicator and the mailbox *)
(* of the replica.  Both are first-in first-out and the replicator only    *)
(* looks up the replica and forwards, so the two hops are one: a client    *)
(* puts its request into the mailbox of the replica the replicator finds.  *)
(***************************************************************************)
EXTENDS Naturals, Sequences, FiniteSets

CONSTANTS
  Client,    \* actors that own state objects bound to the id
  Elem,      \* elements of the gset
  MaxSpawn,  \* bound: replicas the replicator spawns for the id
  MaxMail,   \* bound: messages in a mailbox when another request is sent
  MaxDelete  \* bound: delete_replica requests

ASSUME ReplicaBoundsAreNat ==
  MaxSpawn \in Nat \ {0} /\ MaxMail \in Nat \ {0} /\ MaxDelete \in Nat

Inst == 1 .. MaxSpawn    \* replica actors, in the order they are spawned

NoReplica == 0

VARIABLES
  states,   \* states_ : the replica the replicator knows, or NoReplica
  spawned,  \* the number of replicas spawned
  running,  \* running[r] : r has been spawned and has not quit
  mailbox,  \* mailbox[r] : the messages r has not handled
  cvrdt,    \* cvrdt[r] : cvrdt_, the state of r
  buffer,   \* buffer[r] : buffer_, the changes r's subscribers do not know
  subs,     \* subs[r] : subs_
  bound,    \* bound[c] : c owns a state object
  view,     \* view[c] : set_ of that object
  inbox,    \* inbox[c] : the notifications c has not handled
  acked,    \* history: acked[r], elements whose write_local r has acknowledged
  deleted   \* history: the replicas that delete_replica has been sent to

replicaVars == <<running, mailbox, cvrdt, buffer, subs>>
clientVars == <<bound, view, inbox>>
vars == <<states, spawned, replicaVars, clientVars, acked, deleted>>

--------------------------------------------------------------------------------

Subscribe(c) == [type |-> "subscribe", from |-> c]
Unsubscribe(c) == [type |-> "unsubscribe", from |-> c]
PublishMsg(elems) == [type |-> "publish", elems |-> elems]
WriteLocal(elems) == [type |-> "write_local", elems |-> elems]
ReadLocal(after) == [type |-> "read_local", after |-> after]
Delete == [type |-> "delete_replica"]

\* A read remembers which writes were acknowledged when it was sent, and by whom.
Message ==
       [type : {"subscribe", "unsubscribe"}, from : Client]
  \cup [type : {"publish", "write_local"}, elems : SUBSET Elem]
  \cup [type : {"read_local"}, after : [Inst -> SUBSET Elem]]
  \cup {Delete}

TypeOK ==
  /\ states \in Inst \cup {NoReplica}
  /\ spawned \in 0 .. MaxSpawn
  /\ running \in [Inst -> BOOLEAN]
  /\ mailbox \in [Inst -> Seq(Message)]
  /\ cvrdt \in [Inst -> SUBSET Elem]
  /\ buffer \in [Inst -> SUBSET Elem]
  /\ subs \in [Inst -> SUBSET Client]
  /\ bound \in [Client -> BOOLEAN]
  /\ view \in [Client -> SUBSET Elem]
  /\ inbox \in [Client -> Seq(SUBSET Elem)]
  /\ acked \in [Inst -> SUBSET Elem]
  /\ deleted \in SUBSET Inst

Init ==
  /\ states = NoReplica
  /\ spawned = 0
  /\ running = [r \in Inst |-> FALSE]
  /\ mailbox = [r \in Inst |-> <<>>]
  /\ cvrdt = [r \in Inst |-> {}]
  /\ buffer = [r \in Inst |-> {}]
  /\ subs = [r \in Inst |-> {}]
  /\ bound = [c \in Client |-> FALSE]
  /\ view = [c \in Client |-> {}]
  /\ inbox = [c \in Client |-> <<>>]
  /\ acked = [r \in Inst |-> {}]
  /\ deleted = {}

--------------------------------------------------------------------------------
(***************************************************************************)
(* The replicator.                                                         *)
(***************************************************************************)

\* The replica find_actor returns: the known one or a new one.
Found == IF states = NoReplica THEN spawned + 1 ELSE states

\* find_actor and delegate.
DelegateTo(r, msg) ==
  /\ r = Found
  /\ r \in Inst
  /\ Len(mailbox[r]) < MaxMail
  /\ spawned' = IF states = NoReplica THEN r ELSE spawned
  /\ running' = IF states = NoReplica THEN [running EXCEPT ![r] = TRUE] ELSE running
  /\ mailbox' = [mailbox EXCEPT ![r] = Append(@, msg)]
  /\ UNCHANGED <<cvrdt, buffer, subs, acked>>

\* Fault: a new replica is not entered into states_.
ForwardUnentered(msg) ==
  \E r \in Inst : DelegateTo(r, msg) /\ UNCHANGED <<states, deleted>>

\* A handler that forwards msg to the replica.
Forward(msg) ==
  \E r \in Inst : DelegateTo(r, msg) /\ states' = r /\ UNCHANGED deleted

\* Fault: the replica stays in states_.
DeleteReplicaKeepingState ==
  /\ Cardinality(deleted) < MaxDelete
  /\ \E r \in Inst :
       DelegateTo(r, Delete) /\ states' = r /\ deleted' = deleted \cup {r}
  /\ UNCHANGED clientVars

\* The replica is forgotten whether or not it will quit, and spawned first when
\* there is none.
DeleteReplica ==
  /\ Cardinality(deleted) < MaxDelete
  /\ \E r \in Inst :
       DelegateTo(r, Delete) /\ states' = NoReplica /\ deleted' = deleted \cup {r}
  /\ UNCHANGED clientVars

\* Updates from another node.
RemoteUpdates ==
  /\ \E elems \in SUBSET Elem \ {{}} : Forward(PublishMsg(elems))
  /\ UNCHANGED clientVars

--------------------------------------------------------------------------------
(***************************************************************************)
(* The clients.                                                            *)
(***************************************************************************)

Construct(c) ==
  /\ ~bound[c]
  /\ Len(inbox[c]) < MaxMail
  /\ bound' = [bound EXCEPT ![c] = TRUE]
  /\ view' = [view EXCEPT ![c] = {}]
  /\ Forward(Subscribe(c))
  /\ UNCHANGED inbox

Destroy(c) ==
  /\ bound[c]
  /\ bound' = [bound EXCEPT ![c] = FALSE]
  /\ Forward(Unsubscribe(c))
  /\ UNCHANGED <<view, inbox>>

\* insert of a new element, or subset_insert, which publishes even if it inserts
\* nothing.
Insert(c) ==
  /\ bound[c]
  /\ \E elems \in SUBSET Elem :
       /\ view' = [view EXCEPT ![c] = @ \cup elems]
       /\ Forward(PublishMsg(elems \ view[c]))
  /\ UNCHANGED <<bound, inbox>>

\* Requests anyone may send to the replicator.
RequestRead ==
  /\ Forward(ReadLocal(acked))
  /\ UNCHANGED clientVars

RequestWrite ==
  /\ \E e \in Elem : Forward(WriteLocal({e}))
  /\ UNCHANGED clientVars

\* (notify_atom, gset): merged into the state object the client has by then.
OnNotified(c) ==
  /\ inbox[c] # <<>>
  /\ inbox' = [inbox EXCEPT ![c] = Tail(@)]
  /\ view' = IF bound[c] THEN [view EXCEPT ![c] = @ \cup Head(inbox[c])] ELSE view
  /\ UNCHANGED <<states, spawned, replicaVars, bound, acked, deleted>>

--------------------------------------------------------------------------------
(***************************************************************************)
(* The replica.                                                            *)
(***************************************************************************)

\* r takes the next message out of its mailbox.
Handles(r, type) ==
  /\ running[r]
  /\ mailbox[r] # <<>>
  /\ Head(mailbox[r]).type = type

Handled(r) == mailbox' = [mailbox EXCEPT ![r] = Tail(@)]

ReplicatorUnchanged == UNCHANGED <<states, spawned, deleted>>

\* Sends delta to every client in to.
Notify(to, delta) ==
  inbox' = [c \in Client |-> IF c \in to THEN Append(inbox[c], delta) ELSE inbox[c]]

\* Fault: the change is merged into the state and not into the delta buffer.
OnPublishSilently(r) ==
  /\ Handles(r, "publish")
  /\ cvrdt' = [cvrdt EXCEPT ![r] = @ \cup Head(mailbox[r]).elems]
  /\ Handled(r)
  /\ ReplicatorUnchanged
  /\ UNCHANGED <<running, buffer, subs, clientVars, acked>>

\* publish_atom with a message or a vector of them (merged first): what cvrdt_
\* did not include goes into the delta buffer.
OnPublish(r) ==
  /\ Handles(r, "publish")
  /\ LET elems == Head(mailbox[r]).elems
     IN  /\ cvrdt' = [cvrdt EXCEPT ![r] = @ \cup elems]
         /\ buffer' = [buffer EXCEPT ![r] = @ \cup (elems \ cvrdt[r])]
  /\ Handled(r)
  /\ ReplicatorUnchanged
  /\ UNCHANGED <<running, subs, clientVars, acked>>

\* notify_atom, re-armed with delayed_send: the timer may fire at any time.
OnNotifyTick(r) ==
  /\ running[r]
  /\ buffer[r] # {}
  /\ Notify(subs[r], buffer[r])
  /\ buffer' = [buffer EXCEPT ![r] = {}]
  /\ ReplicatorUnchanged
  /\ UNCHANGED <<running, mailbox, cvrdt, subs, bound, view, acked>>

\* Fault: the new subscriber gets no state.
OnSubscribeWithoutState(r) ==
  /\ Handles(r, "subscribe")
  /\ subs' = [subs EXCEPT ![r] = @ \cup {Head(mailbox[r]).from}]
  /\ Handled(r)
  /\ ReplicatorUnchanged
  /\ UNCHANGED <<running, cvrdt, buffer, clientVars, acked>>

\* Fault: the replica enters itself.
OnSubscribeSelf(r) ==
  /\ Handles(r, "subscribe")
  /\ subs' = [subs EXCEPT ![r] = @ \cup {r}]
  /\ Handled(r)
  /\ ReplicatorUnchanged
  /\ UNCHANGED <<running, cvrdt, buffer, clientVars, acked>>

\* A new subscriber gets the full state, unless that is empty.
OnSubscribe(r) ==
  /\ Handles(r, "subscribe")
  /\ LET c == Head(mailbox[r]).from
     IN  /\ subs' = [subs EXCEPT ![r] = @ \cup {c}]
         /\ Notify(IF cvrdt[r] = {} THEN {} ELSE {c}, cvrdt[r])
  /\ Handled(r)
  /\ ReplicatorUnchanged
  /\ UNCHANGED <<running, cvrdt, buffer, bound, view, acked>>

OnUnsubscribe(r) ==
  /\ Handles(r, "unsubscribe")
  /\ subs' = [subs EXCEPT ![r] = @ \ {Head(mailbox[r]).from}]
  /\ Handled(r)
  /\ ReplicatorUnchanged
  /\ UNCHANGED <<running, cvrdt, buffer, clientVars, acked>>

\* The answer is cvrdt_; see ReadsSeeAckedWrites.
OnReadLocal(r) ==
  /\ Handles(r, "read_local")
  /\ Handled(r)
  /\ ReplicatorUnchanged
  /\ UNCHANGED <<running, cvrdt, buffer, subs, clientVars, acked>>

\* Fault: the write is acknowledged and only the subscribers are told.
OnWriteLocalToBuffer(r) ==
  /\ Handles(r, "write_local")
  /\ LET elems == Head(mailbox[r]).elems
     IN  /\ buffer' = [buffer EXCEPT ![r] = @ \cup elems]
         /\ acked' = [acked EXCEPT ![r] = @ \cup elems]
  /\ Handled(r)
  /\ ReplicatorUnchanged
  /\ UNCHANGED <<running, cvrdt, subs, clientVars>>

\* The write is acknowledged before it is applied: it goes to the end of the
\* replica's own mailbox.
OnWriteLocal(r) ==
  /\ Handles(r, "write_local")
  /\ LET elems == Head(mailbox[r]).elems
     IN  /\ mailbox' = [mailbox EXCEPT ![r] = Append(Tail(@), PublishMsg(elems))]
         /\ acked' = [acked EXCEPT ![r] = @ \cup elems]
  /\ ReplicatorUnchanged
  /\ UNCHANGED <<running, cvrdt, buffer, subs, clientVars>>

\* The replica quits, unless somebody is subscribed; its mailbox is dropped then.
OnDelete(r) ==
  /\ Handles(r, "delete_replica")
  /\ running' = [running EXCEPT ![r] = subs[r] # {}]
  /\ Handled(r)
  /\ ReplicatorUnchanged
  /\ UNCHANGED <<cvrdt, buffer, subs, clientVars, acked>>

Handle(r) ==
  \/ OnPublish(r) \/ OnSubscribe(r) \/ OnUnsubscribe(r)
  \/ OnReadLocal(r) \/ OnWriteLocal(r) \/ OnDelete(r)

Next ==
  \/ \E c \in Client : Construct(c) \/ Destroy(c) \/ Insert(c) \/ OnNotified(c)
  \/ RequestRead
  \/ RequestWrite
  \/ RemoteUpdates
  \/ DeleteReplica
  \/ \E r \in Inst : Handle(r) \/ OnNotifyTick(r)

Spec == Init /\ [][Next]_vars

\* CAF runs every actor that has mail, and the notify timer re-arms itself.
\* Requests are not fair.
Fairness ==
  /\ \A r \in Inst : WF_vars(Handle(r)) /\ WF_vars(OnNotifyTick(r))
  /\ \A c \in Client : WF_vars(OnNotified(c))

FairSpec == Spec /\ Fairness

--------------------------------------------------------------------------------
(***************************************************************************)
(* Properties.                                                             *)
(***************************************************************************)

Waiting(r, type) == {mailbox[r][i] : i \in {j \in DOMAIN mailbox[r] :
                                              mailbox[r][j].type = type}}

InTransit(c) == UNION {inbox[c][i] : i \in DOMAIN inbox[c]}

\* The full state sent on subscription and the deltas sent later leave no gap:
\* for a subscriber that has not asked to be removed, whatever the id's replica
\* has and the client does not is under way or still buffered.  buffer_ is shared
\* by all subscribers, emptied by the timer and filled only with what is new.
NothingSkipsSubscribers ==
  states # NoReplica =>
    \A c \in subs[states] :
      bound[c] /\ Unsubscribe(c) \notin Waiting(states, "unsubscribe")
        => cvrdt[states] \subseteq view[c] \cup InTransit(c) \cup buffer[states]

\* write_local is acknowledged before it is applied, and still a read_local sent
\* after the acknowledgement misses it only if delete_replica has been sent to the
\* replica that acknowledged it, and another one answers: when a replica answers a
\* read, its state has all other writes acknowledged before the read was sent.
\* (A delete does lose acknowledged writes, and the next replica starts empty.)
ReadsSeeAckedWrites ==
  \A r, q \in Inst :
    mailbox[r] # <<>> /\ Head(mailbox[r]).type = "read_local"
      => q \in deleted \ {r} \/ Head(mailbox[r]).after[q] \subseteq cvrdt[r]

\* The replicator forgets a replica in the same step in which it sends
\* delete_replica: a replica that quits leaves no request behind in its mailbox
\* and no subscriber in subs_.  All that can be lost is its own message to
\* itself.
QuitReplicasOweNothing ==
  \A r \in Inst :
    r <= spawned /\ ~running[r]
      => /\ subs[r] = {}
         /\ \A type \in {"subscribe", "unsubscribe", "read_local", "write_local",
                         "delete_replica"} :
              Waiting(r, type) = {}

\* "Send to subscribed actors when a replica has changed" (atom_types.hpp:30):
\* what the id's replica comes to hold reaches every client with a state object.
ChangesReachSubscribers ==
  \A c \in Client, e \in Elem :
    (states # NoReplica /\ e \in cvrdt[states] /\ bound[c])
      ~> (e \in view[c] \/ ~bound[c])

================================================================================
