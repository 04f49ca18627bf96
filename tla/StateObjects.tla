------------------------------ MODULE StateObjects ------------------------------
(***************************************************************************)
(* State objects (caf/crdt/types/base_datatype.hpp) of type gcounter, as    *)
(* many as an actor likes: constructed from an id, copied and destroyed in  *)
(* any order, with the messages they send to the replicas of their node.    *)
(*                                                                          *)
(* The subscriptions belong to the actor, the copies know the owner and the *)
(* id, and all objects of an owner count in the same slot.  The replicator  *)
(* and a replica are one mailbox, since messages do not overtake each other *)
(* on the way through the one to the other.  (Replica has them apart, with  *)
(* one object per client.)                                                  *)
(***************************************************************************)
EXTENDS GrowOnlyTypes, Uri

CONSTANTS
  Actor,       \* the owners of state objects
  Object,      \* the state objects
  Text,        \* what objects are constructed from
  MaxCount,    \* bound: increments of an owner
  MaxMailbox   \* bound: messages that wait when an object sends another one

ASSUME TextsAreTexts == Text \subseteq Seq(Char)
ASSUME BoundsAreNat == MaxCount \in Nat /\ MaxMailbox \in Nat

IdOf == [t \in Text |-> Parse(t)]

Id == {IdOf[t] : t \in Text}

VARIABLES
  object,    \* object[o] : NoObject, or its owner_, id_ and map_
  mailbox,   \* what the replicator, and behind it the replicas, have to handle
  subs,      \* subs[u] : subs_ of the replica of u
  cvrdt,     \* cvrdt[u] : cvrdt_
  buffer,    \* buffer[u] : buffer_
  inbox,     \* inbox[a] : the notifications that a has to handle, in any order (merging
             \* is indifferent to it); they carry no id, `about` is history
  counted,   \* history: counted[a][u], the increments on a's objects of u
  made,      \* history: made[a], those on all of its objects
  unaware,   \* history: the <<a, u>> that made one on an object that missed another
  confused,  \* history: the <<a, u>> with an object that merged a's count on another id
  bereft,    \* history: the objects whose owner has since destroyed one of their id
  orphaned   \* history: the <<a, u>> with an assignment to a's object of u, which was not
             \* bereft, since a destroyed one

replicas == <<subs, cvrdt, buffer>>
history == <<counted, made, unaware, confused, bereft, orphaned>>
vars == <<object, mailbox, replicas, inbox, history>>

NoObject == [owner |-> "none"]

Objects(a, u) ==
  {o \in Object : object[o] # NoObject /\ object[o].owner = a /\ object[o].id = u}

Map == UNION {[A -> 0 .. MaxCount] : A \in SUBSET Actor}

Message ==
  [type : {"subscribe", "unsubscribe"}, from : Actor, id : Id]
    \cup [type : {"publish"}, from : Actor, id : Id, map : Map]

Note == [about : Id, map : Map]

TypeOK ==
  /\ object \in [Object -> {NoObject} \cup [owner : Actor, id : Id, map : Map]]
  /\ mailbox \in Seq(Message)
  /\ subs \in [Id -> SUBSET Actor]
  /\ cvrdt \in [Id -> Map] /\ buffer \in [Id -> Map]
  /\ inbox \in [Actor -> SUBSET Note]
  /\ counted \in [Actor -> [Id -> 0 .. MaxCount]]
  /\ made \in [Actor -> 0 .. MaxCount]
  /\ unaware \subseteq Actor \X Id /\ confused \subseteq Actor \X Id
  /\ bereft \subseteq Object
  /\ orphaned \subseteq Actor \X Id

Init ==
  /\ object = [o \in Object |-> NoObject]
  /\ mailbox = <<>>
  /\ subs = [u \in Id |-> {}]
  /\ cvrdt = [u \in Id |-> EmptyMap]
  /\ buffer = [u \in Id |-> EmptyMap]
  /\ inbox = [a \in Actor |-> {}]
  /\ counted = [a \in Actor |-> [u \in Id |-> 0]]
  /\ made = [a \in Actor |-> 0]
  /\ unaware = {} /\ confused = {}
  /\ bereft = {} /\ orphaned = {}

--------------------------------------------------------------------------------
(***************************************************************************)
(* The state objects.                                                       *)
(***************************************************************************)

Send(msg) == Len(mailbox) < MaxMailbox /\ mailbox' = Append(mailbox, msg)

\* base_datatype(owner, id): subscribes for any text but the empty one.
Construct(o, a, t) ==
  /\ object[o] = NoObject
  /\ object' = [object EXCEPT ![o] = [owner |-> a, id |-> IdOf[t], map |-> EmptyMap]]
  /\ IF t = <<>> THEN UNCHANGED mailbox
     ELSE Send([type |-> "subscribe", from |-> a, id |-> IdOf[t]])
  /\ bereft' = bereft \ Objects(a, IdOf[t])
  /\ UNCHANGED <<replicas, inbox, counted, made, unaware, confused, orphaned>>

\* A new copy p of o, or an assignment of o to p, which has an owner and an id already.
\* Nobody is told: not of the new id, nor that p has left its old one.
Copy(o, p) ==
  /\ object[o] # NoObject /\ p # o
  /\ object' = [object EXCEPT ![p] = object[o]]
  /\ bereft' = IF o \in bereft THEN bereft \cup {p} ELSE bereft \ {p}
  /\ orphaned' = IF object[p] = NoObject \/ p \in bereft THEN orphaned
                 ELSE orphaned \cup {<<object[p].owner, object[p].id>>}
  /\ UNCHANGED <<mailbox, replicas, inbox, counted, made, unaware, confused>>

\* ~base_datatype, of a copy as well.
Destroy(o) ==
  /\ object[o] # NoObject
  /\ object' = [object EXCEPT ![o] = NoObject]
  /\ LET a == object[o].owner
         u == object[o].id
     IN  /\ IF Valid(u) THEN Send([type |-> "unsubscribe", from |-> a, id |-> u])
            ELSE UNCHANGED mailbox
         /\ bereft' = (bereft \cup Objects(a, u)) \ {o}
         /\ orphaned' = orphaned \ {<<a, u>>}
  /\ UNCHANGED <<replicas, inbox, counted, made, unaware, confused>>

\* Fault: the increment is published, not the count.
PublishedStep(a, total) == Entry(a, 1)

\* What increment publishes.
Published(a, total) == Entry(a, total)

Increment(o) ==
  /\ object[o] # NoObject
  /\ LET a == object[o].owner
         u == object[o].id
         total == Incremented(object[o].map, a, 1)
     IN  /\ Valid(u)        \* without an id, publish does nothing
         /\ made[a] < MaxCount
         /\ object' = [object EXCEPT ![o].map = Merge(@, Entry(a, total))]
         /\ Send([type |-> "publish", from |-> a, id |-> u, map |-> Published(a, total)])
         /\ counted' = [counted EXCEPT ![a][u] = @ + 1]
         /\ made' = [made EXCEPT ![a] = @ + 1]
         /\ unaware' = IF total = counted[a][u] + 1 THEN unaware
                       ELSE unaware \cup {<<a, u>>}
  /\ UNCHANGED <<replicas, inbox, confused, bereft, orphaned>>

\* notify_atom at the actor, which merges the map into the object, or the objects,
\* that its handler has chosen.  Nothing tells it which id they should have.
OnNotified(a) ==
  /\ \E note \in inbox[a] :
     \E chosen \in SUBSET {o \in Object : object[o] # NoObject /\ object[o].owner = a} :
       /\ inbox' = [inbox EXCEPT ![a] = @ \ {note}]
       /\ object' = [o \in Object |->
                       IF o \in chosen THEN [object[o] EXCEPT !.map = Merge(@, note.map)]
                       ELSE object[o]]
       /\ confused' = IF a \in DOMAIN note.map
                      THEN confused \cup
                             {<<a, v>> : v \in {object[o].id : o \in chosen} \ {note.about}}
                      ELSE confused
  /\ UNCHANGED <<mailbox, replicas, counted, made, unaware, bereft, orphaned>>

--------------------------------------------------------------------------------
(***************************************************************************)
(* The replicas.                                                            *)
(***************************************************************************)

Told(a, u, map) == [inbox EXCEPT ![a] = @ \cup {[about |-> u, map |-> map]}]

\* Fault: only a replica that has something takes subscribers.
OnSubscribeToState(a, u) ==
  /\ subs' = IF cvrdt[u] = EmptyMap THEN subs ELSE [subs EXCEPT ![u] = @ \cup {a}]
  /\ inbox' = IF cvrdt[u] = EmptyMap THEN inbox ELSE Told(a, u, cvrdt[u])
  /\ UNCHANGED <<cvrdt, buffer>>

OnSubscribe(a, u) ==
  /\ subs' = [subs EXCEPT ![u] = @ \cup {a}]
  /\ inbox' = IF cvrdt[u] = EmptyMap THEN inbox ELSE Told(a, u, cvrdt[u])
  /\ UNCHANGED <<cvrdt, buffer>>

OnUnsubscribe(a, u) ==
  /\ subs' = [subs EXCEPT ![u] = @ \ {a}]
  /\ UNCHANGED <<cvrdt, buffer, inbox>>

OnPublish(u, map) ==
  /\ cvrdt' = [cvrdt EXCEPT ![u] = Merge(@, map)]
  /\ buffer' = [buffer EXCEPT ![u] = Merge(@, GCounterDelta(cvrdt[u], map))]
  /\ UNCHANGED <<subs, inbox>>

OnMessage ==
  /\ mailbox # <<>>
  /\ mailbox' = Tail(mailbox)
  /\ LET msg == Head(mailbox)
     IN  \/ msg.type = "subscribe" /\ OnSubscribe(msg.from, msg.id)
         \/ msg.type = "unsubscribe" /\ OnUnsubscribe(msg.from, msg.id)
         \/ msg.type = "publish" /\ OnPublish(msg.id, msg.map)
  /\ UNCHANGED <<object, history>>

\* notify_atom, the tick of the replica of u.
TickNotify(u) ==
  /\ buffer[u] # EmptyMap
  /\ buffer' = [buffer EXCEPT ![u] = EmptyMap]
  /\ inbox' = [a \in Actor |->
                  IF a \in subs[u] THEN inbox[a] \cup {[about |-> u, map |-> buffer[u]]}
                  ELSE inbox[a]]
  /\ UNCHANGED <<object, mailbox, subs, cvrdt, history>>

Next ==
  \/ \E o \in Object, a \in Actor, t \in Text : Construct(o, a, t)
  \/ \E o, p \in Object : Copy(o, p)
  \/ \E o \in Object : Destroy(o) \/ Increment(o)
  \/ \E a \in Actor : OnNotified(a)
  \/ OnMessage
  \/ \E u \in Id : TickNotify(u)

Spec == Init /\ [][Next]_vars

--------------------------------------------------------------------------------

\* What a replica will have of a's slot when it has handled its mailbox.
SlotWillBe(a, u) ==
  {At(cvrdt[u], a)} \cup
    {At(mailbox[i].map, a) : i \in {j \in DOMAIN mailbox : /\ mailbox[j].type = "publish"
                                                            /\ mailbox[j].id = u}}

\* Whether a will be subscribed then: its last word counts.
WillHear(a, u) ==
  LET words == {i \in DOMAIN mailbox : /\ mailbox[i].type # "publish"
                                       /\ mailbox[i].from = a /\ mailbox[i].id = u}
  IN  \/ words = {} /\ a \in subs[u]
      \/ \E last \in words : mailbox[last].type = "subscribe" /\ \A i \in words : i <= last

\* An actor hears of the changes of a valid id just as long as it has an object of
\* that id and has destroyed none of them since it constructed the last one: a copy
\* that goes takes the subscription with it, although the original stays
\* (base_datatype.hpp:75).  Only an assignment to the object leaves a subscription
\* behind that outlives it, until another object of that id is destroyed.
SubscribedWhileNoneIsDestroyed ==
  \A a \in Actor : \A u \in Id :
    Valid(u) => (WillHear(a, u) <=> Objects(a, u) \ bereft # {} \/ <<a, u>> \in orphaned)

\* A counter never counts too much, and increments are lost for one reason only:
\* that they are made on an object that has not heard of others that the same owner
\* has made elsewhere, on a copy, on an object it has since destroyed.  One that was
\* created anew and has merged the state it is sent counts on correctly.  All this is
\* so for an owner that keeps its ids apart, in which no notification helps it, since none
\* names its id (replica.hpp:172).
OnlyUnawareIncrementsAreLost ==
  \A a \in Actor : \A u \in Id : <<a, u>> \notin confused =>
    /\ \A v \in SlotWillBe(a, u) : v <= counted[a][u]
    /\ <<a, u>> \notin unaware => counted[a][u] \in SlotWillBe(a, u)

\* The id of a text is found by its own text, which is the text it was made from, in
\* lower case, up to a wildcard at the most.
Denotes(text) ==
  LET u == Parse(text)
      own == AsString(u)
  IN  /\ Parse(own) = u
      /\ \A i \in 1 .. Len(own) : own[i] = ToLower(text[i])
      /\ Len(own) < Len(text) => own[Len(own)] = Wildcard

\* The texts that make a valid id and do not denote it.
Misread ==
  {text \in UNION {[1 .. n -> Char] : n \in 0 .. 5} : Valid(Parse(text)) /\ ~Denotes(text)}

\* Whatever text an object is constructed from: if its id is valid, the text that
\* id() gives out finds the same replica.  In particular no two ids have one text:
\* the hash, which goes by the text, agrees with compare, which does not.
TextsDenoteIds ==
  \A o \in Object : object[o] # NoObject => Misread = {}

================================================================================
