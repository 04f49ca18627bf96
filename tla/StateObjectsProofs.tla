--------------------------- MODULE StateObjectsProofs ---------------------------
(***************************************************************************)
(* Proofs about StateObjects for any actors, objects, texts and bounds:     *)
(* an actor is subscribed exactly while it has an object of an id and has   *)
(* destroyed none since; the counters of an owner that keeps its ids apart  *)
(* lose only the increments of unaware objects; and a text of any length    *)
(* that makes a valid id denotes it.                                        *)
(***************************************************************************)
EXTENDS StateObjects, TLAPS, WellFoundedInduction

--------------------------------------------------------------------------------
(***************************************************************************)
(* Maps.  Without a bound on the counts, until the last part shows it.      *)
(***************************************************************************)

AnyMap == UNION {[A -> Nat] : A \in SUBSET Actor}

LEMMA MapFacts ==
  ASSUME NEW m \in AnyMap
  PROVE  /\ DOMAIN m \subseteq Actor
         /\ \A k \in DOMAIN m : m[k] \in Nat
         /\ m = [k \in DOMAIN m |-> m[k]]
         /\ \A k : At(m, k) \in Nat
  BY DEF AnyMap, At

LEMMA IsMap ==
  ASSUME NEW A \in SUBSET Actor, NEW f \in [A -> Nat]
  PROVE  f \in AnyMap
  BY DEF AnyMap

LEMMA EmptyFacts == EmptyMap \in AnyMap /\ \A k : At(EmptyMap, k) = 0
<1>1. EmptyMap \in [{} -> Nat]
  BY DEF EmptyMap
<1>2. EmptyMap \in AnyMap
  BY <1>1, IsMap
<1> QED
  BY <1>2 DEF EmptyMap, At

LEMMA EntryFacts ==
  ASSUME NEW k \in Actor, NEW v \in Nat
  PROVE  /\ Entry(k, v) \in AnyMap
         /\ \A j : At(Entry(k, v), j) = IF j = k THEN v ELSE 0
<1>1. Entry(k, v) \in [{k} -> Nat]
  BY DEF Entry
<1>2. Entry(k, v) \in AnyMap
  BY <1>1, IsMap
<1> QED
  BY <1>2 DEF Entry, At

\* A slot of the merged map is one of the two, and none is greater.
LEMMA MergeFacts ==
  ASSUME NEW m \in AnyMap, NEW n \in AnyMap
  PROVE  /\ Merge(m, n) \in AnyMap
         /\ \A k : /\ At(Merge(m, n), k) \in {At(m, k), At(n, k)}
                   /\ At(m, k) <= At(Merge(m, n), k)
                   /\ At(n, k) <= At(Merge(m, n), k)
<1> DEFINE A == DOMAIN m \cup DOMAIN n
<1>1. A \in SUBSET Actor
  BY MapFacts
<1>2. \A k : At(m, k) \in Nat /\ At(n, k) \in Nat
  BY MapFacts
<1>3. \A k \in DOMAIN n : n[k] \in Nat
  BY MapFacts
<1>4. Merge(m, n) \in [A -> Nat]
  BY <1>2, <1>3 DEF Merge
<1>5. Merge(m, n) \in AnyMap
  BY <1>1, <1>4, IsMap
<1>6. ASSUME NEW k
      PROVE  /\ At(Merge(m, n), k) \in {At(m, k), At(n, k)}
             /\ At(m, k) <= At(Merge(m, n), k)
             /\ At(n, k) <= At(Merge(m, n), k)
  <2>1. CASE k \in A
    <3>1. At(Merge(m, n), k)
            = IF k \in DOMAIN n /\ At(m, k) < n[k] THEN n[k] ELSE At(m, k)
      BY <2>1 DEF At, Merge
    <3> QED
      BY <1>2, <1>3, <3>1 DEF At
  <2>2. CASE k \notin A
    BY <2>2 DEF At, Merge
  <2> QED
    BY <2>1, <2>2
<1> QED
  BY <1>5, <1>6

\* A delta has nothing that the map it was made from does not have.
LEMMA DeltaFacts ==
  ASSUME NEW m \in AnyMap, NEW n \in AnyMap
  PROVE  /\ GCounterDelta(m, n) \in AnyMap
         /\ \A k : At(GCounterDelta(m, n), k) <= At(n, k)
<1> DEFINE A == {j \in DOMAIN n : At(m, j) < n[j]}
<1>1. A \in SUBSET Actor
  BY MapFacts
<1>2. \A k \in DOMAIN n : n[k] \in Nat
  BY MapFacts
<1>3. GCounterDelta(m, n) \in [A -> Nat]
  BY <1>2 DEF GCounterDelta
<1>4. GCounterDelta(m, n) \in AnyMap
  BY <1>1, <1>3, IsMap
<1>5. ASSUME NEW k
      PROVE  At(GCounterDelta(m, n), k) <= At(n, k)
  <2>1. At(n, k) \in Nat
    BY MapFacts
  <2>2. At(GCounterDelta(m, n), k) = IF k \in A THEN n[k] ELSE 0
    BY DEF At, GCounterDelta
  <2> QED
    BY <1>2, <2>1, <2>2 DEF At
<1> QED
  BY <1>4, <1>5

--------------------------------------------------------------------------------
(***************************************************************************)
(* Ids.                                                                     *)
(***************************************************************************)

\* A set of numbers has a least one: the way to show things of every number.
LEMMA Least ==
  ASSUME NEW S \in SUBSET Nat, S # {}
  PROVE  \E k \in S : \A j \in S : k <= j
<1>1. PICK k \in S : \A j \in S : ~(<<j, k>> \in OpToRel(<, Nat))
  BY NatLessThanWellFounded, WFMin
<1>2. \A j \in S : ~(j < k)
  BY <1>1 DEF OpToRel
<1> QED
  BY <1>2

\* f is the run of the parser on the first k characters.
IsRun(text, f, k) ==
  f = [n \in 0 .. k |-> IF n = 0 THEN Blank ELSE Consume(f[n - 1], ToLower(text[n]))]

\* There is one of any length, ...
LEMMA RunsExist ==
  ASSUME NEW text, NEW k \in Nat
  PROVE  \E f : IsRun(text, f, k)
<1> DEFINE Bad == {n \in Nat : ~\E f : IsRun(text, f, n)}
<1> SUFFICES ASSUME Bad # {}
             PROVE  FALSE
  OBVIOUS
<1>1. PICK n \in Bad : \A j \in Bad : n <= j
  <2> HIDE DEF Bad
  <2>1. Bad \in SUBSET Nat
    BY DEF Bad
  <2> QED
    BY <2>1, Least
<1>2. CASE n = 0
  <2> DEFINE f == [i \in 0 .. 0 |-> Blank]
  <2>1. f = [i \in 0 .. 0 |-> IF i = 0 THEN Blank ELSE Consume(f[i - 1], ToLower(text[i]))]
    OBVIOUS
  <2>2. IsRun(text, f, 0)
    BY <2>1 DEF IsRun
  <2> QED
    BY <1>2, <2>2
<1>3. CASE n # 0
  <2>1. n \in Nat /\ n - 1 \in Nat /\ n - 1 \notin Bad
    BY <1>1, <1>3
  <2>2. PICK f : IsRun(text, f, n - 1)
    BY <2>1
  <2> DEFINE g == [i \in 0 .. n |-> IF i = n THEN Consume(f[n - 1], ToLower(text[n])) ELSE f[i]]
  <2>3. \A i \in 0 .. n - 1 :
          f[i] = IF i = 0 THEN Blank ELSE Consume(f[i - 1], ToLower(text[i]))
    BY <2>2 DEF IsRun
  <2>4. \A i \in 0 .. n - 1 : g[i] = f[i]
    BY <2>1
  <2>5. ASSUME NEW i \in 0 .. n
        PROVE  g[i] = IF i = 0 THEN Blank ELSE Consume(g[i - 1], ToLower(text[i]))
    <3>1. CASE i = n
      <4>1. g[n] = Consume(f[n - 1], ToLower(text[n])) /\ f[n - 1] = g[n - 1]
        BY <2>1, <2>4
      <4> HIDE DEF g
      <4> QED
        BY <1>3, <3>1, <4>1
    <3>2. CASE i # n
      <4>1. i \in 0 .. n - 1
        BY <2>1, <3>2
      <4>2. i # 0 => i - 1 \in 0 .. n - 1
        BY <4>1
      <4> HIDE DEF g
      <4> QED
        BY <2>3, <2>4, <4>1, <4>2
    <3> QED
      BY <3>1, <3>2
  <2>6. g = [i \in 0 .. n |-> g[i]]
    OBVIOUS
  <2> HIDE DEF g
  <2>7. IsRun(text, g, n)
    BY <2>5, <2>6 DEF IsRun
  <2> QED
    BY <2>7
<1> QED
  BY <1>2, <1>3

\* ... so that Parsing is what its definition says of it.
LEMMA ParsingFacts ==
  ASSUME NEW text, Len(text) \in Nat
  PROVE  /\ Parsing(text)[0] = Blank
         /\ \A n \in 1 .. Len(text) :
              Parsing(text)[n] = Consume(Parsing(text)[n - 1], ToLower(text[n]))
<1> DEFINE p == Parsing(text)
<1>1. p = CHOOSE f : IsRun(text, f, Len(text))
  BY DEF Parsing, IsRun
<1> HIDE DEF p
<1>2. IsRun(text, p, Len(text))
  BY <1>1, RunsExist
<1>3. \A n \in 0 .. Len(text) :
        p[n] = IF n = 0 THEN Blank ELSE Consume(p[n - 1], ToLower(text[n]))
  BY <1>2 DEF IsRun
<1> QED
  BY <1>3 DEF p

\* Nothing is parsed from the empty text, ...
LEMMA ParseEmptyText == ParseText(<<>>) = Blank
<1>1. Len(<<>>) = 0
  OBVIOUS
<1> QED
  BY <1>1, ParsingFacts DEF ParseText

\* ... so that an object that does not subscribe has no valid id.
LEMMA EmptyTextIsInvalid == ~Valid(Parse(<<>>))
<1>1. Parse(<<>>).path = Blank.path
  BY ParseEmptyText DEF Parse
<1>2. Blank.path = <<>>
  BY DEF Blank
<1> QED
  BY <1>1, <1>2 DEF Valid

LEMMA IdFacts ==
  ASSUME NEW t \in Text
  PROVE  IdOf[t] = Parse(t) /\ IdOf[t] \in Id
  BY DEF IdOf, Id

--------------------------------------------------------------------------------
(***************************************************************************)
(* Types, but for the bound on the counts.                                  *)
(***************************************************************************)

StateObject == [owner : Actor, id : Id, map : AnyMap]

AnyMessage ==
  [type : {"subscribe", "unsubscribe"}, from : Actor, id : Id]
    \cup [type : {"publish"}, from : Actor, id : Id, map : AnyMap]

AnyNote == [about : Id, map : AnyMap]

Counts == [Actor -> [Id -> Nat]]

ShapeOK ==
  /\ object \in [Object -> {NoObject} \cup StateObject]
  /\ mailbox \in Seq(AnyMessage)
  /\ subs \in [Id -> SUBSET Actor]
  /\ cvrdt \in [Id -> AnyMap] /\ buffer \in [Id -> AnyMap]
  /\ inbox \in [Actor -> SUBSET AnyNote]
  /\ counted \in Counts
  /\ made \in [Actor -> 0 .. MaxCount]
  /\ unaware \subseteq Actor \X Id /\ confused \subseteq Actor \X Id
  /\ bereft \subseteq Object
  /\ orphaned \subseteq Actor \X Id

LEMMA MessageFacts ==
  ASSUME NEW msg \in AnyMessage
  PROVE  /\ msg.from \in Actor /\ msg.id \in Id
         /\ msg.type \in {"subscribe", "unsubscribe", "publish"}
         /\ msg.type = "publish" => msg.map \in AnyMap
  BY DEF AnyMessage

LEMMA StateObjectFacts ==
  ASSUME NEW r \in StateObject
  PROVE  /\ r # NoObject
         /\ r.owner \in Actor /\ r.id \in Id /\ r.map \in AnyMap
<1>1. DOMAIN r = {"owner", "id", "map"}
  BY DEF StateObject
<1>2. DOMAIN NoObject = {"owner"}
  BY DEF NoObject
<1>3. "map" # "owner"
  OBVIOUS
<1>4. r # NoObject
  BY <1>1, <1>2, <1>3
<1> QED
  BY <1>4 DEF StateObject

LEMMA ObjectFacts ==
  ASSUME ShapeOK, NEW o \in Object, object[o] # NoObject
  PROVE  object[o] \in StateObject
  BY DEF ShapeOK

LEMMA InitShape == Init => ShapeOK
  BY EmptyFacts, BoundsAreNat DEF Init, ShapeOK, Counts

LEMMA SendShape ==
  ASSUME ShapeOK, NEW msg \in AnyMessage, Send(msg)
  PROVE  mailbox' \in Seq(AnyMessage)
  BY DEF Send, ShapeOK

LEMMA ConstructShape ==
  ASSUME ShapeOK, NEW o \in Object, NEW a \in Actor, NEW t \in Text, Construct(o, a, t)
  PROVE  ShapeOK'
<1>1. IdOf[t] \in Id
  BY IdFacts
<1>2. [owner |-> a, id |-> IdOf[t], map |-> EmptyMap] \in StateObject
  BY <1>1, EmptyFacts DEF StateObject
<1>3. [type |-> "subscribe", from |-> a, id |-> IdOf[t]] \in AnyMessage
  BY <1>1 DEF AnyMessage
<1>4. mailbox' \in Seq(AnyMessage)
  BY <1>3, SendShape DEF Construct, ShapeOK
<1>5. object' \in [Object -> {NoObject} \cup StateObject]
  BY <1>2 DEF Construct, ShapeOK
<1> QED
  BY <1>4, <1>5 DEF Construct, ShapeOK, replicas

LEMMA CopyShape ==
  ASSUME ShapeOK, NEW o \in Object, NEW p \in Object, Copy(o, p)
  PROVE  ShapeOK'
<1>1. object[o] \in StateObject
  BY ObjectFacts DEF Copy
<1>2. ASSUME object[p] # NoObject
      PROVE  object[p].owner \in Actor /\ object[p].id \in Id
  BY <1>2, ObjectFacts, StateObjectFacts
<1>3. orphaned' \subseteq Actor \X Id
  BY <1>2 DEF Copy, ShapeOK
<1> QED
  BY <1>1, <1>3 DEF Copy, ShapeOK, replicas

LEMMA DestroyShape ==
  ASSUME ShapeOK, NEW o \in Object, Destroy(o)
  PROVE  ShapeOK'
<1> DEFINE a == object[o].owner
           u == object[o].id
<1>1. a \in Actor /\ u \in Id
  BY ObjectFacts, StateObjectFacts DEF Destroy
<1>2. [type |-> "unsubscribe", from |-> a, id |-> u] \in AnyMessage
  BY <1>1 DEF AnyMessage
<1>3. mailbox' \in Seq(AnyMessage)
  BY <1>2, SendShape DEF Destroy, ShapeOK
<1>4. bereft' \subseteq Object
  BY DEF Destroy, ShapeOK, Objects
<1> QED
  BY <1>3, <1>4 DEF Destroy, ShapeOK, replicas

\* Increment, with the owner a, the id u and the new count named.
Incrementing(o, a, u, total) ==
  /\ object[o] \in StateObject /\ object[o].owner = a /\ object[o].id = u
  /\ Valid(u)
  /\ total = At(object[o].map, a) + 1
  /\ made[a] < MaxCount
  /\ object' = [object EXCEPT ![o] =
                  [object[o] EXCEPT !.map = Merge(object[o].map, Entry(a, total))]]
  /\ Send([type |-> "publish", from |-> a, id |-> u, map |-> Entry(a, total)])
  /\ counted' = [counted EXCEPT ![a] = [counted[a] EXCEPT ![u] = counted[a][u] + 1]]
  /\ made' = [made EXCEPT ![a] = made[a] + 1]
  /\ unaware' = IF total = counted[a][u] + 1 THEN unaware ELSE unaware \cup {<<a, u>>}
  /\ UNCHANGED <<subs, cvrdt, buffer, inbox, confused, bereft, orphaned>>

LEMMA IncrementNamed ==
  ASSUME ShapeOK, NEW o \in Object, Increment(o)
  PROVE  \E a \in Actor, u \in Id, total \in Nat : Incrementing(o, a, u, total)
<1> DEFINE a == object[o].owner
           u == object[o].id
           total == At(object[o].map, a) + 1
<1>1. object[o] \in StateObject
  BY ObjectFacts DEF Increment
<1>2. a \in Actor /\ u \in Id /\ object[o].map \in AnyMap
  BY <1>1, StateObjectFacts
<1>3. total \in Nat
  BY <1>2, MapFacts
<1>4. object' = [object EXCEPT ![o] =
                  [object[o] EXCEPT !.map = Merge(object[o].map, Entry(a, total))]]
  BY DEF Increment, Incremented
<1>5. /\ counted' = [counted EXCEPT ![a] = [counted[a] EXCEPT ![u] = counted[a][u] + 1]]
      /\ made' = [made EXCEPT ![a] = made[a] + 1]
  BY DEF Increment
<1>6. Incrementing(o, a, u, total)
  BY <1>1, <1>4, <1>5 DEF Increment, Incrementing, Incremented, Published, replicas
<1> QED
  BY <1>2, <1>3, <1>6

LEMMA IncrementShape ==
  ASSUME ShapeOK, NEW o \in Object, Increment(o)
  PROVE  ShapeOK'
<1>1. PICK a \in Actor, u \in Id, total \in Nat : Incrementing(o, a, u, total)
  BY IncrementNamed
<1>2. Entry(a, total) \in AnyMap
  BY EntryFacts
<1>3. [type |-> "publish", from |-> a, id |-> u, map |-> Entry(a, total)] \in AnyMessage
  BY <1>2 DEF AnyMessage
<1>4. mailbox' \in Seq(AnyMessage)
  BY <1>1, <1>3, SendShape DEF Incrementing
<1>5. object[o] \in StateObject
  BY <1>1 DEF Incrementing
<1>6. Merge(object[o].map, Entry(a, total)) \in AnyMap
  BY <1>2, <1>5, StateObjectFacts, MergeFacts
<1>7. object' \in [Object -> {NoObject} \cup StateObject]
  <2>1. [object[o] EXCEPT !.map = Merge(object[o].map, Entry(a, total))] \in StateObject
    BY <1>5, <1>6 DEF StateObject
  <2> QED
    BY <1>1, <2>1 DEF ShapeOK, Incrementing
<1>8. counted' \in Counts /\ made' \in [Actor -> 0 .. MaxCount]
  <2>1. counted[a][u] + 1 \in Nat /\ made[a] + 1 \in 0 .. MaxCount
    BY <1>1, BoundsAreNat DEF ShapeOK, Counts, Incrementing
  <2> QED
    BY <1>1, <2>1 DEF ShapeOK, Counts, Incrementing
<1>9. unaware' \subseteq Actor \X Id
  BY <1>1 DEF ShapeOK, Incrementing
<1> QED
  BY <1>1, <1>4, <1>7, <1>8, <1>9 DEF ShapeOK, Incrementing

\* A notification: some objects of the actor merge it.
Notifying(a, note, chosen) ==
  /\ note \in inbox[a]
  /\ \A o \in chosen : object[o] \in StateObject /\ object[o].owner = a
  /\ inbox' = [inbox EXCEPT ![a] = inbox[a] \ {note}]
  /\ object' = [o \in Object |->
                  IF o \in chosen
                    THEN [object[o] EXCEPT !.map = Merge(object[o].map, note.map)]
                  ELSE object[o]]
  /\ confused' = IF a \in DOMAIN note.map
                 THEN confused \cup
                        {<<a, v>> : v \in {object[o].id : o \in chosen} \ {note.about}}
                 ELSE confused
  /\ UNCHANGED <<mailbox, subs, cvrdt, buffer, counted, made, unaware, bereft, orphaned>>

LEMMA NotifiedNamed ==
  ASSUME ShapeOK, NEW a \in Actor, OnNotified(a)
  PROVE  \E note \in AnyNote, chosen \in SUBSET Object : Notifying(a, note, chosen)
<1>1. PICK note \in inbox[a],
           chosen \in SUBSET {o \in Object : object[o] # NoObject /\ object[o].owner = a} :
        /\ inbox' = [inbox EXCEPT ![a] = inbox[a] \ {note}]
        /\ object' = [o \in Object |->
                        IF o \in chosen
                          THEN [object[o] EXCEPT !.map = Merge(object[o].map, note.map)]
                        ELSE object[o]]
        /\ confused' = IF a \in DOMAIN note.map
                       THEN confused \cup
                              {<<a, v>> : v \in {object[o].id : o \in chosen} \ {note.about}}
                       ELSE confused
  BY DEF OnNotified
<1>2. \A o \in chosen : object[o] \in StateObject /\ object[o].owner = a
  BY ObjectFacts
<1>3. note \in AnyNote /\ chosen \in SUBSET Object
  BY DEF ShapeOK
<1>4. Notifying(a, note, chosen)
  BY <1>1, <1>2 DEF OnNotified, Notifying, replicas, history
<1> QED
  BY <1>3, <1>4

LEMMA NotifiedShape ==
  ASSUME ShapeOK, NEW a \in Actor, OnNotified(a)
  PROVE  ShapeOK'
<1>1. PICK note \in AnyNote, chosen \in SUBSET Object : Notifying(a, note, chosen)
  BY NotifiedNamed
<1>2. ASSUME NEW o \in chosen
      PROVE  [object[o] EXCEPT !.map = Merge(object[o].map, note.map)] \in StateObject
  <2>1. object[o] \in StateObject
    BY <1>1 DEF Notifying
  <2>2. Merge(object[o].map, note.map) \in AnyMap
    BY <2>1, StateObjectFacts, MergeFacts DEF AnyNote
  <2> QED
    BY <2>1, <2>2 DEF StateObject
<1>3. object' \in [Object -> {NoObject} \cup StateObject]
  BY <1>1, <1>2 DEF ShapeOK, Notifying
<1>4. inbox' \in [Actor -> SUBSET AnyNote]
  BY <1>1 DEF ShapeOK, Notifying
<1>5. confused' \subseteq Actor \X Id
  <2>1. \A o \in chosen : object[o].id \in Id
    BY <1>1, StateObjectFacts DEF Notifying
  <2> QED
    BY <1>1, <2>1 DEF ShapeOK, Notifying
<1> QED
  BY <1>1, <1>3, <1>4, <1>5 DEF ShapeOK, Notifying

\* The head of the mailbox is a message, and goes.
LEMMA HeadFacts ==
  ASSUME ShapeOK, mailbox # <<>>
  PROVE  Head(mailbox) \in AnyMessage /\ Tail(mailbox) \in Seq(AnyMessage)
  BY DEF ShapeOK

LEMMA MessageShape ==
  ASSUME ShapeOK, OnMessage
  PROVE  ShapeOK'
<1>1. PICK msg : msg = Head(mailbox)
  OBVIOUS
<1>2. msg \in AnyMessage /\ mailbox' \in Seq(AnyMessage)
  BY <1>1, HeadFacts DEF OnMessage
<1>3. msg.from \in Actor /\ msg.id \in Id /\ (msg.type = "publish" => msg.map \in AnyMap)
  BY <1>2, MessageFacts
<1>4. UNCHANGED <<object, history>>
  BY DEF OnMessage
<1>5. CASE msg.type = "subscribe" /\ OnSubscribe(msg.from, msg.id)
  <2>1. [about |-> msg.id, map |-> cvrdt[msg.id]] \in AnyNote
    BY <1>3 DEF AnyNote, ShapeOK
  <2> QED
    BY <1>2, <1>3, <1>4, <1>5, <2>1 DEF OnSubscribe, Told, ShapeOK, history
<1>6. CASE msg.type = "unsubscribe" /\ OnUnsubscribe(msg.from, msg.id)
  BY <1>2, <1>3, <1>4, <1>6 DEF OnUnsubscribe, ShapeOK, history
<1>7. CASE msg.type = "publish" /\ OnPublish(msg.id, msg.map)
  <2> DEFINE u == msg.id
             delta == GCounterDelta(cvrdt[u], msg.map)
  <2>1. cvrdt[u] \in AnyMap /\ buffer[u] \in AnyMap
    BY <1>3 DEF ShapeOK
  <2>2. Merge(cvrdt[u], msg.map) \in AnyMap
    BY <1>3, <1>7, <2>1, MergeFacts
  <2>3. delta \in AnyMap
    BY <1>3, <1>7, <2>1, DeltaFacts
  <2>4. Merge(buffer[u], delta) \in AnyMap
    BY <2>1, <2>3, MergeFacts
  <2> QED
    BY <1>2, <1>3, <1>4, <1>7, <2>2, <2>4 DEF OnPublish, ShapeOK, history
<1> QED
  BY <1>1, <1>5, <1>6, <1>7 DEF OnMessage

LEMMA TickShape ==
  ASSUME ShapeOK, NEW u \in Id, TickNotify(u)
  PROVE  ShapeOK'
<1>1. [about |-> u, map |-> buffer[u]] \in AnyNote
  BY DEF AnyNote, ShapeOK
<1> QED
  BY <1>1, EmptyFacts DEF TickNotify, ShapeOK, history

LEMMA NextShape == ShapeOK /\ [Next]_vars => ShapeOK'
<1> SUFFICES ASSUME ShapeOK, [Next]_vars
             PROVE  ShapeOK'
  OBVIOUS
<1>1. CASE \E o \in Object, a \in Actor, t \in Text : Construct(o, a, t)
  BY <1>1, ConstructShape
<1>2. CASE \E o, p \in Object : Copy(o, p)
  BY <1>2, CopyShape
<1>3. CASE \E o \in Object : Destroy(o)
  BY <1>3, DestroyShape
<1>4. CASE \E o \in Object : Increment(o)
  BY <1>4, IncrementShape
<1>5. CASE \E a \in Actor : OnNotified(a)
  BY <1>5, NotifiedShape
<1>6. CASE OnMessage
  BY <1>6, MessageShape
<1>7. CASE \E u \in Id : TickNotify(u)
  BY <1>7, TickShape
<1>8. CASE UNCHANGED vars
  BY <1>8 DEF vars, replicas, history, ShapeOK
<1> QED
  BY <1>1, <1>2, <1>3, <1>4, <1>5, <1>6, <1>7, <1>8 DEF Next

--------------------------------------------------------------------------------
(***************************************************************************)
(* The last word of an actor in a mailbox.                                  *)
(***************************************************************************)

\* The message is a word of a about u.
IsWord(msg, a, u) == msg.type # "publish" /\ msg.from = a /\ msg.id = u

Words(box, a, u) == {i \in DOMAIN box : IsWord(box[i], a, u)}

\* WillHear, of a mailbox and subscribers.
Hears(box, subscribers, a, u) ==
  \/ Words(box, a, u) = {} /\ a \in subscribers
  \/ \E last \in Words(box, a, u) :
       box[last].type = "subscribe" /\ \A i \in Words(box, a, u) : i <= last

LEMMA WillHearIsHears ==
  ASSUME NEW a, NEW u
  PROVE  WillHear(a, u) <=> Hears(mailbox, subs[u], a, u)
  BY DEF WillHear, Hears, Words, IsWord

LEMMA AppendFacts ==
  ASSUME NEW S, NEW box \in Seq(S), NEW msg \in S
  PROVE  /\ Append(box, msg) \in Seq(S)
         /\ Len(box) \in Nat
         /\ DOMAIN box = 1 .. Len(box)
         /\ DOMAIN Append(box, msg) = 1 .. Len(box) + 1
         /\ \A i \in 1 .. Len(box) : Append(box, msg)[i] = box[i]
         /\ Append(box, msg)[Len(box) + 1] = msg
  OBVIOUS

LEMMA TailFacts ==
  ASSUME NEW S, NEW box \in Seq(S), box # <<>>
  PROVE  /\ Tail(box) \in Seq(S)
         /\ Head(box) \in S /\ Head(box) = box[1]
         /\ Len(box) \in Nat /\ Len(box) >= 1
         /\ DOMAIN box = 1 .. Len(box)
         /\ DOMAIN Tail(box) = 1 .. Len(box) - 1
         /\ \A i \in 1 .. Len(box) - 1 : Tail(box)[i] = box[i + 1]
  OBVIOUS

\* Another message at the end does not matter to it ...
LEMMA HearsAfterOther ==
  ASSUME NEW box \in Seq(AnyMessage), NEW msg \in AnyMessage, NEW S, NEW a, NEW u,
         ~IsWord(msg, a, u)
  PROVE  Hears(Append(box, msg), S, a, u) <=> Hears(box, S, a, u)
<1> DEFINE new == Append(box, msg)
<1>1. /\ Len(box) \in Nat
      /\ DOMAIN box = 1 .. Len(box) /\ DOMAIN new = 1 .. Len(box) + 1
      /\ \A i \in 1 .. Len(box) : new[i] = box[i]
      /\ new[Len(box) + 1] = msg
  BY AppendFacts
<1> HIDE DEF new
<1>2. \A i \in DOMAIN new : i \in DOMAIN box \/ i = Len(box) + 1
  BY <1>1
<1>3. Words(new, a, u) = Words(box, a, u)
  BY <1>1, <1>2 DEF Words
<1>4. \A i \in Words(box, a, u) : new[i] = box[i]
  BY <1>1 DEF Words
<1>5. Hears(new, S, a, u) <=> Hears(box, S, a, u)
  BY <1>3, <1>4 DEF Hears
<1> QED
  BY <1>5 DEF new

\* ... and a word at the end is the last one.
LEMMA HearsAfterWord ==
  ASSUME NEW box \in Seq(AnyMessage), NEW msg \in AnyMessage, NEW S, NEW a, NEW u,
         IsWord(msg, a, u)
  PROVE  Hears(Append(box, msg), S, a, u) <=> msg.type = "subscribe"
<1> DEFINE new == Append(box, msg)
           end == Len(box) + 1
<1>1. /\ Len(box) \in Nat
      /\ DOMAIN new = 1 .. end
      /\ new[end] = msg
  BY AppendFacts
<1> HIDE DEF new
<1>2. end \in Words(new, a, u)
  BY <1>1 DEF Words
<1>3. \A i \in Words(new, a, u) : i \in 1 .. end
  BY <1>1 DEF Words
<1>4. \A i \in Words(new, a, u) : i <= end
  BY <1>1, <1>3
<1>5. \A last \in Words(new, a, u) :
        (\A i \in Words(new, a, u) : i <= last) => last = end
  BY <1>1, <1>2, <1>3, <1>4
<1>6. Hears(new, S, a, u) <=> msg.type = "subscribe"
  BY <1>1, <1>2, <1>4, <1>5 DEF Hears
<1> QED
  BY <1>6 DEF new

\* A message that is taken counts unless a word comes after it.
LEMMA HearsAfterHead ==
  ASSUME NEW box \in Seq(AnyMessage), box # <<>>, NEW S, NEW T, NEW a, NEW u,
         a \in T <=> IF IsWord(Head(box), a, u) THEN Head(box).type = "subscribe"
                     ELSE a \in S
  PROVE  Hears(Tail(box), T, a, u) <=> Hears(box, S, a, u)
<1> DEFINE rest == Tail(box)
           old == Words(box, a, u)
           new == Words(rest, a, u)
<1>1. /\ Head(box) = box[1]
      /\ Len(box) \in Nat /\ Len(box) >= 1
      /\ DOMAIN box = 1 .. Len(box) /\ DOMAIN rest = 1 .. Len(box) - 1
      /\ \A i \in 1 .. Len(box) - 1 : rest[i] = box[i + 1]
  BY TailFacts
<1> HIDE DEF rest
<1>2. \A i \in new : i \in Nat /\ i >= 1 /\ i + 1 \in old /\ rest[i] = box[i + 1]
  BY <1>1 DEF Words
<1>3. \A i \in old : i = 1 \/ (i \in Nat /\ i > 1 /\ i - 1 \in new)
  BY <1>1 DEF Words
<1>4. 1 \in old <=> IsWord(Head(box), a, u)
  BY <1>1 DEF Words
<1>5. \A i \in old : i \in Nat /\ i >= 1
  BY <1>3
<1>6. CASE new = {}
  <2>1. Hears(rest, T, a, u) <=> a \in T
    BY <1>6 DEF Hears
  <2>2. \A i \in old : i = 1
    BY <1>3, <1>6
  <2>3. CASE 1 \in old
    <3>1. Hears(box, S, a, u) <=> box[1].type = "subscribe"
      <4> HIDE DEF old
      <4> QED
        BY <2>2, <2>3 DEF Hears, old
    <3> QED
      BY <1>1, <1>4, <2>1, <2>3, <3>1 DEF rest
  <2>4. CASE 1 \notin old
    <3>1. old = {}
      BY <2>2, <2>4
    <3>2. Hears(box, S, a, u) <=> a \in S
      BY <3>1 DEF Hears
    <3> QED
      BY <1>4, <2>1, <2>4, <3>2 DEF rest
  <2> QED
    BY <2>3, <2>4
<1>7. CASE new # {}
  <2>1. ASSUME Hears(rest, T, a, u)
        PROVE  Hears(box, S, a, u)
    <3>1. PICK last \in new : rest[last].type = "subscribe" /\ \A i \in new : i <= last
      BY <1>7, <2>1 DEF Hears
    <3>2. last + 1 \in old /\ box[last + 1].type = "subscribe"
      BY <1>2, <3>1
    <3>3. ASSUME NEW i \in old
          PROVE  i <= last + 1
      <4>1. last \in Nat
        BY <1>2
      <4>2. i > 1 => i - 1 <= last
        BY <1>3, <3>1
      <4> QED
        BY <1>3, <4>1, <4>2
    <3> QED
      BY <3>2, <3>3 DEF Hears
  <2>2. ASSUME Hears(box, S, a, u)
        PROVE  Hears(rest, T, a, u)
    <3>1. old # {}
      BY <1>2, <1>7
    <3>2. PICK last \in old : box[last].type = "subscribe" /\ \A i \in old : i <= last
      BY <2>2, <3>1 DEF Hears
    <3>3. last > 1 /\ last \in Nat
      BY <1>2, <1>5, <1>7, <3>2
    <3>4. last - 1 \in new
      BY <1>3, <3>3
    <3>5. rest[last - 1].type = "subscribe"
      BY <1>2, <3>2, <3>3, <3>4
    <3>6. \A i \in new : i <= last - 1
      BY <1>2, <3>2, <3>3
    <3> QED
      BY <3>4, <3>5, <3>6 DEF Hears
  <2> QED
    BY <2>1, <2>2 DEF rest
<1> QED
  BY <1>6, <1>7

--------------------------------------------------------------------------------
(***************************************************************************)
(* An actor hears of the changes of a valid id just as long as it has an    *)
(* object of that id and has destroyed none, unless another's state was     *)
(* assigned to its object.  For the induction, what is                      *)
(* said of the objects that are bereft must only be said of objects.        *)
(***************************************************************************)

BereftExist == \A o \in bereft : object[o] # NoObject

\* a has an object of u and has destroyed none since, or an assignment has left it with
\* the subscription.
Keeps(a, u) == Objects(a, u) \ bereft # {} \/ <<a, u>> \in orphaned

SubscribedInv == ShapeOK /\ BereftExist /\ SubscribedWhileNoneIsDestroyed

LEMMA InitSubscribed == Init => SubscribedInv
<1> SUFFICES ASSUME Init
             PROVE  SubscribedInv
  OBVIOUS
<1>1. BereftExist
  BY DEF Init, BereftExist
<1>2. ASSUME NEW a \in Actor, NEW u \in Id
      PROVE  ~WillHear(a, u) /\ Objects(a, u) = {} /\ <<a, u>> \notin orphaned
  <2>1. Objects(a, u) = {}
    BY DEF Init, Objects
  <2>2. ~Hears(mailbox, subs[u], a, u)
    BY DEF Init, Hears, Words
  <2> QED
    BY <2>1, <2>2, WillHearIsHears DEF Init
<1>3. SubscribedWhileNoneIsDestroyed
  BY <1>2 DEF SubscribedWhileNoneIsDestroyed
<1> QED
  BY <1>1, <1>3, InitShape DEF SubscribedInv

\* The invariant, for one actor and one id.
LEMMA SubscribedAt ==
  ASSUME SubscribedInv, NEW a \in Actor, NEW u \in Id, Valid(u)
  PROVE  Hears(mailbox, subs[u], a, u) <=> Keeps(a, u)
  BY WillHearIsHears DEF SubscribedInv, SubscribedWhileNoneIsDestroyed, Keeps

\* It is enough to show that both sides change alike.
LEMMA SubscribedNext ==
  ASSUME ShapeOK', BereftExist',
         \A a \in Actor, u \in Id :
           Valid(u) => (Hears(mailbox', subs'[u], a, u) <=> Keeps(a, u)')
  PROVE  SubscribedInv'
<1>1. ASSUME NEW a \in Actor, NEW u \in Id, Valid(u)
      PROVE  WillHear(a, u)' <=> (Objects(a, u) \ bereft # {} \/ <<a, u>> \in orphaned)'
  <2>1. WillHear(a, u)' <=> Hears(mailbox', subs'[u], a, u)
    BY DEF WillHear, Hears, Words, IsWord
  <2> QED
    BY <1>1, <2>1 DEF Keeps
<1> QED
  BY <1>1 DEF SubscribedInv, SubscribedWhileNoneIsDestroyed

\* Whether a keeps u, said of the objects one by one, now and after a step.
LEMMA KeepsByObject ==
  ASSUME NEW a, NEW u
  PROVE  Keeps(a, u) <=>
           \/ <<a, u>> \in orphaned
           \/ \E o \in Object : /\ object[o] # NoObject
                               /\ object[o].owner = a /\ object[o].id = u
                               /\ o \notin bereft
  BY DEF Keeps, Objects

LEMMA KeepsByObjectNext ==
  ASSUME NEW a, NEW u
  PROVE  Keeps(a, u)' <=>
           \/ <<a, u>> \in orphaned'
           \/ \E o \in Object : /\ object'[o] # NoObject
                               /\ object'[o].owner = a /\ object'[o].id = u
                               /\ o \notin bereft'
  BY DEF Keeps, Objects

\* Send adds a word of a about u, or another message.
LEMMA SendWord ==
  ASSUME ShapeOK, NEW msg \in AnyMessage, Send(msg), NEW S, NEW a, NEW u, IsWord(msg, a, u)
  PROVE  Hears(mailbox', S, a, u) <=> msg.type = "subscribe"
  BY HearsAfterWord DEF Send, ShapeOK

LEMMA SendOther ==
  ASSUME ShapeOK, NEW msg \in AnyMessage, Send(msg), NEW S, NEW a, NEW u, ~IsWord(msg, a, u)
  PROVE  Hears(mailbox', S, a, u) <=> Hears(mailbox, S, a, u)
  BY HearsAfterOther DEF Send, ShapeOK

LEMMA ConstructSubscribed ==
  ASSUME SubscribedInv, NEW o \in Object, NEW a \in Actor, NEW t \in Text,
         Construct(o, a, t)
  PROVE  SubscribedInv'
<1>1. PICK u : u = IdOf[t] /\ u = Parse(t)
  BY IdFacts
<1>2. PICK r : r = [owner |-> a, id |-> u, map |-> EmptyMap]
  OBVIOUS
<1>3. PICK msg : msg = [type |-> "subscribe", from |-> a, id |-> u]
  OBVIOUS
<1>4. ShapeOK /\ BereftExist /\ ShapeOK'
  BY ConstructShape DEF SubscribedInv
<1>5. u \in Id
  BY <1>1, IdFacts
<1>6. r # NoObject /\ r.owner = a /\ r.id = u
  <2>1. r \in StateObject
    BY <1>2, <1>5, EmptyFacts DEF StateObject
  <2> QED
    BY <1>2, <2>1, StateObjectFacts
<1>7. msg \in AnyMessage
  BY <1>3, <1>5 DEF AnyMessage
<1>8. /\ object[o] = NoObject
      /\ object' = [object EXCEPT ![o] = r]
      /\ IF t = <<>> THEN mailbox' = mailbox ELSE Send(msg)
      /\ bereft' = bereft \ Objects(a, u)
      /\ subs' = subs /\ orphaned' = orphaned
  BY <1>1, <1>2, <1>3 DEF Construct, replicas
<1>9. object'[o] = r /\ \A p \in Object \ {o} : object'[p] = object[p]
  BY <1>4, <1>8 DEF ShapeOK
<1>10. o \notin bereft
  BY <1>4, <1>8 DEF BereftExist
<1>11. BereftExist'
  BY <1>4, <1>8, <1>9, <1>10 DEF BereftExist, ShapeOK
<1>12. ASSUME NEW b \in Actor, NEW v \in Id, Valid(v)
       PROVE  Hears(mailbox', subs'[v], b, v) <=> Keeps(b, v)'
  <2>1. CASE b = a /\ v = u
    <3>1. t # <<>>
      BY <1>1, <1>12, <2>1, EmptyTextIsInvalid
    <3>2. Send(msg)
      BY <1>8, <3>1
    <3>3. IsWord(msg, b, v) /\ msg.type = "subscribe"
      BY <1>3, <2>1 DEF IsWord
    <3>4. Hears(mailbox', subs'[v], b, v)
      BY <1>4, <1>7, <3>2, <3>3, SendWord
    <3>5. Keeps(b, v)'
      BY <1>6, <1>8, <1>9, <1>10, <2>1, KeepsByObjectNext
    <3> QED
      BY <3>4, <3>5
  <2>2. CASE ~(b = a /\ v = u)
    <3>1. ~IsWord(msg, b, v)
      BY <1>3, <2>2 DEF IsWord
    <3>2. Hears(mailbox', subs'[v], b, v) <=> Hears(mailbox, subs[v], b, v)
      BY <1>4, <1>7, <1>8, <3>1, SendOther
    <3>3. ASSUME NEW p \in Object, object[p].owner = b /\ object[p].id = v
          PROVE  p \in bereft' <=> p \in bereft
      BY <1>8, <2>2, <3>3 DEF Objects
    <3>4. Keeps(b, v)' <=> Keeps(b, v)
      BY <1>6, <1>8, <1>9, <2>2, <3>3, KeepsByObject, KeepsByObjectNext
    <3> QED
      BY <1>12, <3>2, <3>4, SubscribedAt
  <2> QED
    BY <2>1, <2>2
<1> QED
  BY <1>4, <1>11, <1>12, SubscribedNext

LEMMA CopySubscribed ==
  ASSUME SubscribedInv, NEW o \in Object, NEW p \in Object, Copy(o, p)
  PROVE  SubscribedInv'
<1>1. ShapeOK /\ BereftExist /\ ShapeOK'
  BY CopyShape DEF SubscribedInv
<1>2. /\ object[o] # NoObject /\ p # o
      /\ object'[p] = object[o] /\ \A q \in Object \ {p} : object'[q] = object[q]
      /\ bereft' = IF o \in bereft THEN bereft \cup {p} ELSE bereft \ {p}
      /\ orphaned' = IF object[p] = NoObject \/ p \in bereft THEN orphaned
                     ELSE orphaned \cup {<<object[p].owner, object[p].id>>}
      /\ mailbox' = mailbox /\ subs' = subs
  BY <1>1 DEF Copy, ShapeOK, replicas
<1>3. BereftExist'
  BY <1>1, <1>2 DEF BereftExist, ShapeOK
<1>4. ASSUME NEW b \in Actor, NEW v \in Id, Valid(v)
      PROVE  Hears(mailbox', subs'[v], b, v) <=> Keeps(b, v)'
  <2>1. Keeps(b, v)' => Keeps(b, v)
    <3>1. <<b, v>> \in orphaned' => Keeps(b, v)
      BY <1>2, KeepsByObject
    <3>2. ASSUME NEW q \in Object, object'[q] # NoObject, q \notin bereft',
                 object'[q].owner = b, object'[q].id = v
          PROVE  Keeps(b, v)
      BY <1>2, <3>2, KeepsByObject
    <3> QED
      BY <3>1, <3>2, KeepsByObjectNext
  <2>2. Keeps(b, v) => Keeps(b, v)'
    <3>1. <<b, v>> \in orphaned => Keeps(b, v)'
      BY <1>2, KeepsByObjectNext
    <3>2. ASSUME NEW q \in Object, object[q] # NoObject, q \notin bereft,
                 object[q].owner = b, object[q].id = v
          PROVE  Keeps(b, v)'
      BY <1>2, <3>2, KeepsByObjectNext
    <3> QED
      BY <3>1, <3>2, KeepsByObject
  <2> QED
    BY <1>2, <1>4, <2>1, <2>2, SubscribedAt
<1> QED
  BY <1>1, <1>3, <1>4, SubscribedNext

LEMMA DestroySubscribed ==
  ASSUME SubscribedInv, NEW o \in Object, Destroy(o)
  PROVE  SubscribedInv'
<1>1. ShapeOK /\ BereftExist /\ ShapeOK'
  BY DestroyShape DEF SubscribedInv
<1>2. PICK a, u, msg : /\ a = object[o].owner /\ u = object[o].id
                       /\ msg = [type |-> "unsubscribe", from |-> a, id |-> u]
  OBVIOUS
<1>3. a \in Actor /\ u \in Id
  BY <1>1, <1>2, ObjectFacts, StateObjectFacts DEF Destroy
<1>4. msg \in AnyMessage
  BY <1>2, <1>3 DEF AnyMessage
<1>5. /\ IF Valid(u) THEN Send(msg) ELSE mailbox' = mailbox
      /\ bereft' = (bereft \cup Objects(a, u)) \ {o}
      /\ orphaned' = orphaned \ {<<a, u>>}
      /\ subs' = subs
      /\ object' = [object EXCEPT ![o] = NoObject]
  BY <1>2 DEF Destroy, replicas
<1>6. object'[o] = NoObject /\ \A p \in Object \ {o} : object'[p] = object[p]
  BY <1>1, <1>5 DEF ShapeOK
<1>7. BereftExist'
  BY <1>1, <1>5, <1>6 DEF BereftExist, ShapeOK, Objects
<1>8. ASSUME NEW b \in Actor, NEW v \in Id, Valid(v)
      PROVE  Hears(mailbox', subs'[v], b, v) <=> Keeps(b, v)'
  <2>1. CASE b = a /\ v = u
    <3>1. Send(msg)
      BY <1>5, <1>8, <2>1
    <3>2. IsWord(msg, b, v) /\ msg.type # "subscribe"
      BY <1>2, <2>1 DEF IsWord
    <3>3. ~Hears(mailbox', subs'[v], b, v)
      BY <1>1, <1>4, <3>1, <3>2, SendWord
    <3>4. ~Keeps(b, v)'
      BY <1>5, <1>6, <2>1, KeepsByObjectNext DEF Objects
    <3> QED
      BY <3>3, <3>4
  <2>2. CASE ~(b = a /\ v = u)
    <3>1. ~IsWord(msg, b, v)
      BY <1>2, <2>2 DEF IsWord
    <3>2. Hears(mailbox', subs'[v], b, v) <=> Hears(mailbox, subs[v], b, v)
      BY <1>1, <1>4, <1>5, <3>1, SendOther
    <3>3. ASSUME NEW p \in Object, object[p].owner = b /\ object[p].id = v
          PROVE  p # o /\ (p \in bereft' <=> p \in bereft)
      BY <1>2, <1>5, <2>2, <3>3 DEF Objects
    <3>4. Keeps(b, v)' <=> Keeps(b, v)
      BY <1>5, <1>6, <2>2, <3>3, KeepsByObject, KeepsByObjectNext
    <3> QED
      BY <1>8, <3>2, <3>4, SubscribedAt
  <2> QED
    BY <2>1, <2>2
<1> QED
  BY <1>1, <1>7, <1>8, SubscribedNext

\* Changing the maps of objects changes nothing here.
LEMMA MapsDoNotMatter ==
  ASSUME SubscribedInv, ShapeOK', UNCHANGED <<subs, bereft, orphaned>>,
         \A o \in Object : \/ object'[o] = object[o]
                          \/ /\ object[o] \in StateObject /\ object'[o] \in StateObject
                             /\ object'[o].owner = object[o].owner
                             /\ object'[o].id = object[o].id,
         \A a \in Actor, u \in Id :
           Hears(mailbox', subs[u], a, u) <=> Hears(mailbox, subs[u], a, u)
  PROVE  SubscribedInv'
<1>1. \A o \in Object : /\ object'[o] = NoObject <=> object[o] = NoObject
                        /\ object[o] # NoObject =>
                             /\ object'[o].owner = object[o].owner
                             /\ object'[o].id = object[o].id
  BY StateObjectFacts
<1>2. BereftExist'
  BY <1>1 DEF SubscribedInv, BereftExist, ShapeOK
<1>3. ASSUME NEW a \in Actor, NEW u \in Id, Valid(u)
      PROVE  Hears(mailbox', subs'[u], a, u) <=> Keeps(a, u)'
  <2>1. Keeps(a, u)' <=> Keeps(a, u)
    BY <1>1, KeepsByObject, KeepsByObjectNext
  <2> QED
    BY <1>3, <2>1, SubscribedAt
<1> QED
  BY <1>2, <1>3, SubscribedNext

LEMMA IncrementSubscribed ==
  ASSUME SubscribedInv, NEW o \in Object, Increment(o)
  PROVE  SubscribedInv'
<1>1. ShapeOK /\ ShapeOK'
  BY IncrementShape DEF SubscribedInv
<1>2. PICK a \in Actor, u \in Id, total \in Nat : Incrementing(o, a, u, total)
  BY <1>1, IncrementNamed
<1>3. PICK msg : msg = [type |-> "publish", from |-> a, id |-> u, map |-> Entry(a, total)]
  OBVIOUS
<1>4. msg \in AnyMessage /\ \A b, v : ~IsWord(msg, b, v)
  BY <1>3, EntryFacts DEF AnyMessage, IsWord
<1>5. Send(msg)
  BY <1>2, <1>3 DEF Incrementing
<1>6. \A b \in Actor, v \in Id :
        Hears(mailbox', subs[v], b, v) <=> Hears(mailbox, subs[v], b, v)
  BY <1>1, <1>4, <1>5, SendOther
<1>7. /\ object[o] \in StateObject
      /\ object'[o] = [object[o] EXCEPT !.map = Merge(object[o].map, Entry(a, total))]
      /\ \A p \in Object \ {o} : object'[p] = object[p]
  BY <1>1, <1>2 DEF Incrementing, ShapeOK
<1>8. object'[o] \in StateObject /\ object'[o].owner = object[o].owner
        /\ object'[o].id = object[o].id
  <2>1. Merge(object[o].map, Entry(a, total)) \in AnyMap
    BY <1>7, StateObjectFacts, EntryFacts, MergeFacts
  <2> QED
    BY <1>7, <2>1 DEF StateObject
<1>9. UNCHANGED <<subs, bereft, orphaned>>
  BY <1>2 DEF Incrementing
<1> QED
  BY <1>1, <1>6, <1>7, <1>8, <1>9, MapsDoNotMatter

LEMMA NotifiedSubscribed ==
  ASSUME SubscribedInv, NEW a \in Actor, OnNotified(a)
  PROVE  SubscribedInv'
<1>1. ShapeOK /\ ShapeOK'
  BY NotifiedShape DEF SubscribedInv
<1>2. PICK note \in AnyNote, chosen \in SUBSET Object : Notifying(a, note, chosen)
  BY <1>1, NotifiedNamed
<1>3. UNCHANGED <<mailbox, subs, bereft, orphaned>>
  BY <1>2 DEF Notifying
<1>4. ASSUME NEW o \in Object
      PROVE  \/ object'[o] = object[o]
             \/ /\ object[o] \in StateObject /\ object'[o] \in StateObject
                /\ object'[o].owner = object[o].owner /\ object'[o].id = object[o].id
  <2>1. CASE o \in chosen
    <3>1. /\ object[o] \in StateObject
          /\ object'[o] = [object[o] EXCEPT !.map = Merge(object[o].map, note.map)]
      BY <1>2, <2>1 DEF Notifying
    <3>2. Merge(object[o].map, note.map) \in AnyMap
      BY <3>1, StateObjectFacts, MergeFacts DEF AnyNote
    <3> QED
      BY <3>1, <3>2 DEF StateObject
  <2>2. CASE o \notin chosen
    BY <1>2, <2>2 DEF Notifying
  <2> QED
    BY <2>1, <2>2
<1> QED
  BY <1>1, <1>3, <1>4, MapsDoNotMatter

LEMMA MessageSubscribed ==
  ASSUME SubscribedInv, OnMessage
  PROVE  SubscribedInv'
<1>1. ShapeOK /\ BereftExist /\ ShapeOK'
  BY MessageShape DEF SubscribedInv
<1>2. PICK msg : msg = Head(mailbox)
  OBVIOUS
<1>3. msg \in AnyMessage /\ mailbox # <<>> /\ mailbox' = Tail(mailbox)
  BY <1>1, <1>2, HeadFacts DEF OnMessage
<1>4. UNCHANGED <<object, bereft, orphaned>>
  BY DEF OnMessage, history
<1>5. BereftExist'
  BY <1>1, <1>4 DEF BereftExist
<1>6. ASSUME NEW a \in Actor, NEW u \in Id
      PROVE  a \in subs'[u] <=> IF IsWord(msg, a, u) THEN msg.type = "subscribe"
                                ELSE a \in subs[u]
  <2>1. msg.from \in Actor /\ msg.id \in Id
    BY <1>3, MessageFacts
  <2>2. CASE msg.type = "subscribe" /\ OnSubscribe(msg.from, msg.id)
    BY <1>1, <2>1, <2>2 DEF OnSubscribe, IsWord, ShapeOK
  <2>3. CASE msg.type = "unsubscribe" /\ OnUnsubscribe(msg.from, msg.id)
    BY <1>1, <2>1, <2>3 DEF OnUnsubscribe, IsWord, ShapeOK
  <2>4. CASE msg.type = "publish" /\ OnPublish(msg.id, msg.map)
    BY <2>4 DEF OnPublish, IsWord
  <2> QED
    BY <1>2, <2>2, <2>3, <2>4 DEF OnMessage
<1>7. ASSUME NEW a \in Actor, NEW u \in Id, Valid(u)
      PROVE  Hears(mailbox', subs'[u], a, u) <=> Keeps(a, u)'
  <2>1. Hears(mailbox', subs'[u], a, u) <=> Hears(mailbox, subs[u], a, u)
    BY <1>1, <1>2, <1>3, <1>6, HearsAfterHead DEF ShapeOK
  <2>2. Keeps(a, u)' <=> Keeps(a, u)
    BY <1>4, KeepsByObject, KeepsByObjectNext
  <2> QED
    BY <1>7, <2>1, <2>2, SubscribedAt
<1> QED
  BY <1>1, <1>5, <1>7, SubscribedNext

LEMMA NextSubscribed == SubscribedInv /\ [Next]_vars => SubscribedInv'
<1> SUFFICES ASSUME SubscribedInv, [Next]_vars
             PROVE  SubscribedInv'
  OBVIOUS
<1>1. CASE \E o \in Object, a \in Actor, t \in Text : Construct(o, a, t)
  BY <1>1, ConstructSubscribed
<1>2. CASE \E o, p \in Object : Copy(o, p)
  BY <1>2, CopySubscribed
<1>3. CASE \E o \in Object : Destroy(o)
  BY <1>3, DestroySubscribed
<1>4. CASE \E o \in Object : Increment(o)
  BY <1>4, IncrementSubscribed
<1>5. CASE \E a \in Actor : OnNotified(a)
  BY <1>5, NotifiedSubscribed
<1>6. CASE OnMessage
  BY <1>6, MessageSubscribed
<1>7. CASE \E u \in Id : TickNotify(u)
  <2>1. UNCHANGED <<object, mailbox, subs, bereft, orphaned>>
    BY <1>7 DEF TickNotify, history
  <2>2. ShapeOK'
    BY NextShape DEF SubscribedInv
  <2> QED
    BY <2>1, <2>2, MapsDoNotMatter
<1>8. CASE UNCHANGED vars
  <2>1. UNCHANGED <<object, mailbox, subs, bereft, orphaned>>
    BY <1>8 DEF vars, replicas, history
  <2>2. ShapeOK'
    BY NextShape DEF SubscribedInv
  <2> QED
    BY <2>1, <2>2, MapsDoNotMatter
<1> QED
  BY <1>1, <1>2, <1>3, <1>4, <1>5, <1>6, <1>7, <1>8 DEF Next

\* A subscription is kept, and will be kept when the messages that wait are handled,
\* exactly while the actor has an object of the id and has destroyed none since it
\* constructed the last one, or has had another's state assigned to it: a copy that goes
\* takes the subscription away from the original (base_datatype.hpp:75), and none but an
\* assignment leaves one behind, whatever texts name the ids and however many are valid.
THEOREM SubscriptionsFollowObjects == Spec => []SubscribedWhileNoneIsDestroyed
<1>1. Init => SubscribedInv
  BY InitSubscribed
<1>2. SubscribedInv /\ [Next]_vars => SubscribedInv'
  BY NextSubscribed
<1>3. SubscribedInv => SubscribedWhileNoneIsDestroyed
  BY DEF SubscribedInv
<1> QED
  BY <1>1, <1>2, <1>3, PTL DEF Spec

--------------------------------------------------------------------------------
(***************************************************************************)
(* Counting.  No slot anywhere exceeds the increments its owner has made,   *)
(* whichever objects the owner merges its notifications into; and for an    *)
(* owner that keeps its ids apart, nothing that is about an id exceeds      *)
(* those it has made on that id.                                            *)
(***************************************************************************)

\* What the slot of a may be, where the counter of u is meant.
Limit ==
  [u \in Id |-> [a \in Actor |-> IF <<a, u>> \in confused THEN made[a] ELSE counted[a][u]]]

Most == [Actor -> Nat]

Limits == [Id -> Most]

\* No slot of m exceeds what the limit says.
Within(m, most) == \A a \in Actor : At(m, a) <= most[a]

\* An object may have merged the maps of another id: only its owner's slot is as it should.
ObjectsWithin(objects, limit, most) ==
  \A o \in Object : objects[o] # NoObject =>
    /\ Within(objects[o].map, most)
    /\ At(objects[o].map, objects[o].owner) <= limit[objects[o].id][objects[o].owner]

BoxWithin(box, limit) ==
  \A i \in DOMAIN box : box[i].type = "publish" => Within(box[i].map, limit[box[i].id])

ReplicasWithin(maps, deltas, limit) ==
  \A u \in Id : Within(maps[u], limit[u]) /\ Within(deltas[u], limit[u])

InboxesWithin(notes, limit) ==
  \A a \in Actor : \A note \in notes[a] : Within(note.map, limit[note.about])

CountedIsMade == \A a \in Actor, u \in Id : counted[a][u] <= made[a]

\* An owner that has missed nothing finds its count in its replica, or on the way there.
AwareAreKept ==
  \A a \in Actor, u \in Id :
    <<a, u>> \notin confused /\ <<a, u>> \notin unaware => counted[a][u] \in SlotWillBe(a, u)

CountsInv ==
  /\ ShapeOK
  /\ CountedIsMade
  /\ ObjectsWithin(object, Limit, made) /\ BoxWithin(mailbox, Limit)
  /\ ReplicasWithin(cvrdt, buffer, Limit) /\ InboxesWithin(inbox, Limit)
  /\ AwareAreKept

LEMMA LimitFacts ==
  ASSUME ShapeOK
  PROVE  /\ Limit \in Limits /\ made \in Most /\ counted \in Counts
         /\ \A u \in Id, a \in Actor :
              Limit[u][a] = IF <<a, u>> \in confused THEN made[a] ELSE counted[a][u]
<1>1. made \in Most /\ counted \in Counts
  BY BoundsAreNat DEF ShapeOK, Most
<1>2. \A u \in Id, a \in Actor :
        Limit[u][a] = IF <<a, u>> \in confused THEN made[a] ELSE counted[a][u]
  BY DEF Limit
<1>3. ASSUME NEW u \in Id, NEW a \in Actor
      PROVE  Limit[u][a] \in Nat
  <2>1. made[a] \in Nat /\ counted[a][u] \in Nat
    BY <1>1 DEF Most, Counts
  <2> QED
    BY <1>2, <2>1
<1>4. Limit \in Limits
  BY <1>3 DEF Limit, Limits, Most
<1> QED
  BY <1>1, <1>2, <1>4

LEMMA EmptyIsWithin ==
  ASSUME NEW most \in Most
  PROVE  Within(EmptyMap, most)
  BY EmptyFacts DEF Within, Most

LEMMA MergeIsWithin ==
  ASSUME NEW most, NEW m \in AnyMap, NEW n \in AnyMap, Within(m, most), Within(n, most)
  PROVE  Within(Merge(m, n), most)
<1> SUFFICES ASSUME NEW a \in Actor
             PROVE  At(Merge(m, n), a) <= most[a]
  BY DEF Within
<1>1. At(Merge(m, n), a) = At(m, a) \/ At(Merge(m, n), a) = At(n, a)
  BY MergeFacts
<1> QED
  BY <1>1 DEF Within

LEMMA DeltaIsWithin ==
  ASSUME NEW most \in Most, NEW m \in AnyMap, NEW n \in AnyMap, Within(n, most)
  PROVE  Within(GCounterDelta(m, n), most)
<1> SUFFICES ASSUME NEW a \in Actor
             PROVE  At(GCounterDelta(m, n), a) <= most[a]
  BY DEF Within
<1>1. At(n, a) <= most[a]
  BY DEF Within
<1>2. At(GCounterDelta(m, n), a) <= At(n, a)
  BY DeltaFacts
<1>3. At(GCounterDelta(m, n), a) \in Nat /\ At(n, a) \in Nat /\ most[a] \in Nat
  BY DeltaFacts, MapFacts DEF Most
<1> QED
  BY <1>1, <1>2, <1>3

\* What is within limits stays so when they grow.
LEMMA WithinStays ==
  ASSUME NEW m \in AnyMap, NEW most \in Most, NEW more \in Most, Within(m, most),
         \A a \in Actor : most[a] <= more[a]
  PROVE  Within(m, more)
<1> SUFFICES ASSUME NEW a \in Actor
             PROVE  At(m, a) <= more[a]
  BY DEF Within
<1>1. At(m, a) <= most[a] /\ most[a] <= more[a]
  BY DEF Within
<1>2. At(m, a) \in Nat /\ most[a] \in Nat /\ more[a] \in Nat
  BY MapFacts DEF Most
<1> QED
  BY <1>1, <1>2

\* The limits of an id are within what has been made.
LEMMA LimitIsMade ==
  ASSUME ShapeOK, CountedIsMade, NEW u \in Id, NEW m \in AnyMap, Within(m, Limit[u])
  PROVE  Within(m, made)
<1>1. Limit[u] \in Most /\ made \in Most
  BY LimitFacts DEF Limits
<1>2. ASSUME NEW a \in Actor
      PROVE  Limit[u][a] <= made[a]
  <2>1. Limit[u][a] = made[a] \/ Limit[u][a] = counted[a][u]
    BY LimitFacts
  <2>2. made[a] \in Nat
    BY <1>1 DEF Most
  <2> QED
    BY <2>1, <2>2 DEF CountedIsMade
<1> QED
  BY <1>1, <1>2, WithinStays

\* Then the bound on the increments is one on the maps.
LEMMA WithinIsBounded ==
  ASSUME ShapeOK, NEW m \in AnyMap, Within(m, made)
  PROVE  m \in Map
<1>1. ASSUME NEW k \in DOMAIN m
      PROVE  m[k] \in 0 .. MaxCount
  <2>1. k \in Actor /\ m[k] \in Nat /\ At(m, k) = m[k]
    BY MapFacts DEF At
  <2>2. At(m, k) <= made[k] /\ made[k] \in 0 .. MaxCount
    BY <2>1 DEF Within, ShapeOK
  <2> QED
    BY <2>1, <2>2, BoundsAreNat
<1>2. m = [k \in DOMAIN m |-> m[k]] /\ DOMAIN m \in SUBSET Actor
  BY MapFacts
<1>3. m \in [DOMAIN m -> 0 .. MaxCount]
  BY <1>1, <1>2
<1> QED
  BY <1>2, <1>3 DEF Map

--------------------------------------------------------------------------------
(***************************************************************************)
(* What a replica will have of a slot.                                      *)
(***************************************************************************)

\* The message is a publication for u.
IsPublication(msg, u) == msg.type = "publish" /\ msg.id = u

\* SlotWillBe, of a mailbox and a replica's map.
Will(box, m, a, u) ==
  {At(m, a)} \cup {At(box[i].map, a) : i \in {j \in DOMAIN box : IsPublication(box[j], u)}}

LEMMA SlotWillBeIsWill ==
  ASSUME NEW a, NEW u
  PROVE  SlotWillBe(a, u) = Will(mailbox, cvrdt[u], a, u)
  BY DEF SlotWillBe, Will, IsPublication

\* Messages at the end leave what is there already, ...
LEMMA WillAfterSend ==
  ASSUME NEW box \in Seq(AnyMessage), NEW msg \in AnyMessage, NEW m, NEW a, NEW u
  PROVE  /\ Will(box, m, a, u) \subseteq Will(Append(box, msg), m, a, u)
         /\ IsPublication(msg, u) => At(msg.map, a) \in Will(Append(box, msg), m, a, u)
<1> DEFINE new == Append(box, msg)
<1>1. /\ Len(box) \in Nat
      /\ DOMAIN box = 1 .. Len(box) /\ DOMAIN new = 1 .. Len(box) + 1
      /\ \A i \in 1 .. Len(box) : new[i] = box[i]
      /\ new[Len(box) + 1] = msg
  BY AppendFacts
<1> HIDE DEF new
<1>2. \A i \in DOMAIN box : i \in DOMAIN new /\ new[i] = box[i]
  BY <1>1
<1>3. Will(box, m, a, u) \subseteq Will(new, m, a, u)
  BY <1>2 DEF Will
<1>4. Len(box) + 1 \in DOMAIN new
  BY <1>1
<1>5. IsPublication(msg, u) => At(msg.map, a) \in Will(new, m, a, u)
  BY <1>1, <1>4 DEF Will
<1> QED
  BY <1>3, <1>5 DEF new

\* ... and handling one replaces the map and it by the new map.
LEMMA WillAfterHead ==
  ASSUME NEW box \in Seq(AnyMessage), box # <<>>, NEW m, NEW n, NEW a, NEW u,
         NEW v \in Will(box, m, a, u)
  PROVE  \/ v \in Will(Tail(box), n, a, u)
         \/ v = At(m, a)
         \/ IsPublication(Head(box), u) /\ v = At(Head(box).map, a)
<1> DEFINE rest == Tail(box)
<1>1. /\ Head(box) = box[1]
      /\ Len(box) \in Nat /\ Len(box) >= 1
      /\ DOMAIN box = 1 .. Len(box) /\ DOMAIN rest = 1 .. Len(box) - 1
      /\ \A i \in 1 .. Len(box) - 1 : rest[i] = box[i + 1]
  BY TailFacts
<1> HIDE DEF rest
<1>2. CASE v # At(m, a)
  <2>1. PICK i \in DOMAIN box : IsPublication(box[i], u) /\ v = At(box[i].map, a)
    BY <1>2 DEF Will
  <2>2. CASE i = 1
    BY <1>1, <2>1, <2>2
  <2>3. CASE i # 1
    <3>1. i - 1 \in DOMAIN rest /\ rest[i - 1] = box[i]
      BY <1>1, <2>3
    <3>2. v \in Will(rest, n, a, u)
      BY <2>1, <3>1 DEF Will
    <3> QED
      BY <3>2 DEF rest
  <2> QED
    BY <2>2, <2>3
<1> QED
  BY <1>2

--------------------------------------------------------------------------------
(***************************************************************************)
(* CountsInv is inductive.                                                  *)
(***************************************************************************)

LEMMA InitCounts == Init => CountsInv
<1> SUFFICES ASSUME Init
             PROVE  CountsInv
  OBVIOUS
<1>1. ShapeOK /\ Limit \in Limits
  BY InitShape, LimitFacts
<1>2. ReplicasWithin(cvrdt, buffer, Limit)
  BY <1>1, EmptyIsWithin DEF Init, ReplicasWithin, Limits
<1>3. /\ ObjectsWithin(object, Limit, made) /\ BoxWithin(mailbox, Limit)
      /\ InboxesWithin(inbox, Limit)
  BY DEF Init, ObjectsWithin, BoxWithin, InboxesWithin
<1>4. CountedIsMade
  BY DEF Init, CountedIsMade
<1>5. AwareAreKept
  <2>1. \A a \in Actor, u \in Id : counted[a][u] = At(cvrdt[u], a)
    BY EmptyFacts DEF Init
  <2> QED
    BY <2>1 DEF AwareAreKept, SlotWillBe
<1> QED
  BY <1>1, <1>2, <1>3, <1>4, <1>5 DEF CountsInv

\* The invariant after a step, said of the new limits.
LEMMA CountsNext ==
  ASSUME ShapeOK', CountedIsMade', NEW limit, limit = Limit', NEW most, most = made',
         ObjectsWithin(object', limit, most), BoxWithin(mailbox', limit),
         ReplicasWithin(cvrdt', buffer', limit), InboxesWithin(inbox', limit),
         \A a \in Actor, u \in Id :
           <<a, u>> \notin confused' /\ <<a, u>> \notin unaware' =>
             counted'[a][u] \in Will(mailbox', cvrdt'[u], a, u)
  PROVE  CountsInv'
<1>1. ObjectsWithin(object, Limit, made)' /\ BoxWithin(mailbox, Limit)'
  BY DEF ObjectsWithin, BoxWithin, Within
<1>2. ReplicasWithin(cvrdt, buffer, Limit)' /\ InboxesWithin(inbox, Limit)'
  BY DEF ReplicasWithin, InboxesWithin, Within
<1>3. AwareAreKept'
  BY DEF AwareAreKept, SlotWillBe, Will, IsPublication
<1> QED
  BY <1>1, <1>2, <1>3 DEF CountsInv

\* Limits only grow, ...
LEMMA LimitsGrow ==
  ASSUME CountsInv, ShapeOK', CountedIsMade', confused \subseteq confused',
         \A a \in Actor : made[a] <= made'[a],
         \A a \in Actor, u \in Id : counted[a][u] <= counted'[a][u],
         NEW limit, limit = Limit', NEW most, most = made'
  PROVE  /\ limit \in Limits /\ most \in Most
         /\ \A u \in Id, a \in Actor : Limit[u][a] <= limit[u][a]
         /\ \A u \in Id, a \in Actor :
              limit[u][a] = IF <<a, u>> \in confused' THEN made'[a] ELSE counted'[a][u]
<1>1. limit \in Limits /\ most \in Most
  <2>1. ShapeOK => Limit \in Limits /\ made \in Most
    BY LimitFacts
  <2>2. ShapeOK' => Limit' \in Limits' /\ made' \in Most'
    BY BoundsAreNat DEF ShapeOK, Limit, Limits, Most, Counts
  <2> QED
    BY <2>2 DEF Limits, Most
<1>2. \A u \in Id, a \in Actor :
        limit[u][a] = IF <<a, u>> \in confused' THEN made'[a] ELSE counted'[a][u]
  BY DEF Limit
<1>3. ASSUME NEW u \in Id, NEW a \in Actor
      PROVE  Limit[u][a] <= limit[u][a]
  <2>1. ShapeOK /\ CountedIsMade
    BY DEF CountsInv
  <2>2. Limit[u][a] = IF <<a, u>> \in confused THEN made[a] ELSE counted[a][u]
    BY <2>1, LimitFacts
  <2>3. /\ made[a] \in Nat /\ made'[a] \in Nat
        /\ counted[a][u] \in Nat /\ counted'[a][u] \in Nat
    BY <2>1, BoundsAreNat DEF ShapeOK, Counts
  <2>4. counted[a][u] <= made[a]
    BY <2>1 DEF CountedIsMade
  <2> QED
    BY <1>2, <2>2, <2>3, <2>4
<1> QED
  BY <1>1, <1>2, <1>3

\* ... so that all that was within them still is.
LEMMA OldStay ==
  ASSUME CountsInv, NEW limit \in Limits, NEW most \in Most,
         \A a \in Actor : made[a] <= most[a],
         \A u \in Id, a \in Actor : Limit[u][a] <= limit[u][a]
  PROVE  /\ ObjectsWithin(object, limit, most) /\ BoxWithin(mailbox, limit)
         /\ ReplicasWithin(cvrdt, buffer, limit) /\ InboxesWithin(inbox, limit)
<1>1. ShapeOK /\ Limit \in Limits /\ made \in Most
  BY LimitFacts DEF CountsInv
<1>2. ASSUME NEW u \in Id, NEW m \in AnyMap, Within(m, Limit[u])
      PROVE  Within(m, limit[u])
  <2>1. Limit[u] \in Most /\ limit[u] \in Most
    BY <1>1 DEF Limits
  <2> QED
    BY <1>2, <2>1, WithinStays
<1>3. ASSUME NEW o \in Object, object[o] # NoObject
      PROVE  /\ Within(object[o].map, most)
             /\ At(object[o].map, object[o].owner) <= limit[object[o].id][object[o].owner]
  <2>1. PICK m, a, u : m = object[o].map /\ a = object[o].owner /\ u = object[o].id
    OBVIOUS
  <2>2. m \in AnyMap /\ a \in Actor /\ u \in Id
    BY <1>1, <1>3, <2>1, ObjectFacts, StateObjectFacts
  <2>3. Within(m, made) /\ At(m, a) <= Limit[u][a]
    BY <1>3, <2>1 DEF CountsInv, ObjectsWithin
  <2>4. Within(m, most)
    BY <1>1, <2>2, <2>3, WithinStays
  <2>5. At(m, a) \in Nat /\ Limit[u][a] \in Nat /\ limit[u][a] \in Nat
    BY <1>1, <2>2, MapFacts DEF Limits, Most
  <2>6. At(m, a) <= limit[u][a]
    BY <2>2, <2>3, <2>5
  <2> QED
    BY <2>1, <2>4, <2>6
<1>4. ASSUME NEW i \in DOMAIN mailbox, mailbox[i].type = "publish"
      PROVE  Within(mailbox[i].map, limit[mailbox[i].id])
  <2>1. mailbox[i] \in AnyMessage
    BY <1>1 DEF ShapeOK
  <2>2. mailbox[i].map \in AnyMap /\ mailbox[i].id \in Id
    BY <1>4, <2>1, MessageFacts
  <2> QED
    BY <1>2, <1>4, <2>2 DEF CountsInv, BoxWithin
<1>5. \A u \in Id : cvrdt[u] \in AnyMap /\ buffer[u] \in AnyMap
  BY <1>1 DEF ShapeOK
<1>6. ReplicasWithin(cvrdt, buffer, limit)
  BY <1>2, <1>5 DEF CountsInv, ReplicasWithin
<1>7. \A a \in Actor : \A note \in inbox[a] : note.about \in Id /\ note.map \in AnyMap
  BY <1>1 DEF ShapeOK, AnyNote
<1>8. InboxesWithin(inbox, limit)
  BY <1>2, <1>7 DEF CountsInv, InboxesWithin
<1> QED
  BY <1>3, <1>4, <1>6, <1>8 DEF ObjectsWithin, BoxWithin

LEMMA SendWithin ==
  ASSUME ShapeOK, NEW limit, BoxWithin(mailbox, limit), NEW msg \in AnyMessage, Send(msg),
         msg.type = "publish" => Within(msg.map, limit[msg.id])
  PROVE  BoxWithin(mailbox', limit)
<1>1. mailbox \in Seq(AnyMessage) /\ mailbox' = Append(mailbox, msg)
  BY DEF Send, ShapeOK
<1>2. /\ Len(mailbox) \in Nat
      /\ DOMAIN mailbox = 1 .. Len(mailbox) /\ DOMAIN mailbox' = 1 .. Len(mailbox) + 1
      /\ \A i \in 1 .. Len(mailbox) : mailbox'[i] = mailbox[i]
      /\ mailbox'[Len(mailbox) + 1] = msg
  BY <1>1, AppendFacts
<1>3. \A i \in DOMAIN mailbox' : i \in DOMAIN mailbox \/ i = Len(mailbox) + 1
  BY <1>2
<1> QED
  BY <1>2, <1>3 DEF BoxWithin

\* Steps that count nothing and publish nothing.
LEMMA QuietKeeps ==
  ASSUME CountsInv, ShapeOK',
         UNCHANGED <<cvrdt, buffer, inbox, counted, made, unaware, confused>>,
         mailbox' = mailbox \/ \E msg \in AnyMessage : msg.type # "publish" /\ Send(msg),
         ObjectsWithin(object', Limit, made)
  PROVE  CountsInv'
<1>1. PICK limit, most : limit = Limit /\ most = made
  OBVIOUS
<1>2. limit = Limit' /\ most = made' /\ CountedIsMade'
  BY <1>1 DEF Limit, CountedIsMade, CountsInv
<1>3. BoxWithin(mailbox', limit)
  BY <1>1, SendWithin DEF CountsInv
<1>4. /\ ReplicasWithin(cvrdt', buffer', limit) /\ InboxesWithin(inbox', limit)
      /\ ObjectsWithin(object', limit, most)
  BY <1>1 DEF CountsInv
<1>5. ASSUME NEW a \in Actor, NEW u \in Id, <<a, u>> \notin confused', <<a, u>> \notin unaware'
      PROVE  counted'[a][u] \in Will(mailbox', cvrdt'[u], a, u)
  <2>1. counted[a][u] \in Will(mailbox, cvrdt[u], a, u)
    BY <1>5, SlotWillBeIsWill DEF CountsInv, AwareAreKept
  <2>2. Will(mailbox, cvrdt[u], a, u) \subseteq Will(mailbox', cvrdt[u], a, u)
    BY WillAfterSend DEF Send, CountsInv, ShapeOK
  <2> QED
    BY <2>1, <2>2
<1> QED
  BY <1>2, <1>3, <1>4, <1>5, CountsNext

LEMMA ConstructCounts ==
  ASSUME CountsInv, NEW o \in Object, NEW a \in Actor, NEW t \in Text, Construct(o, a, t)
  PROVE  CountsInv'
<1>1. ShapeOK /\ ShapeOK' /\ IdOf[t] \in Id
  BY ConstructShape, IdFacts DEF CountsInv
<1>2. PICK r : r = [owner |-> a, id |-> IdOf[t], map |-> EmptyMap]
  OBVIOUS
<1>3. PICK msg : msg = [type |-> "subscribe", from |-> a, id |-> IdOf[t]]
  OBVIOUS
<1>4. msg \in AnyMessage /\ msg.type # "publish"
  BY <1>1, <1>3 DEF AnyMessage
<1>5. /\ object' = [object EXCEPT ![o] = r]
      /\ mailbox' = mailbox \/ Send(msg)
      /\ UNCHANGED <<cvrdt, buffer, inbox, counted, made, unaware, confused>>
  BY <1>2, <1>3 DEF Construct, replicas
<1>6. Within(r.map, made) /\ At(r.map, r.owner) <= Limit[r.id][r.owner]
  <2>1. Limit \in Limits /\ made \in Most
    BY <1>1, LimitFacts
  <2>2. Within(EmptyMap, made) /\ Within(EmptyMap, Limit[IdOf[t]])
    BY <1>1, <2>1, EmptyIsWithin DEF Limits
  <2> QED
    BY <1>2, <2>2 DEF Within
<1>7. \A p \in Object : object'[p] = IF p = o THEN r ELSE object[p]
  BY <1>1, <1>5 DEF ShapeOK
<1>8. ObjectsWithin(object', Limit, made)
  BY <1>6, <1>7 DEF CountsInv, ObjectsWithin
<1> QED
  BY <1>1, <1>4, <1>5, <1>8, QuietKeeps

LEMMA CopyCounts ==
  ASSUME CountsInv, NEW o \in Object, NEW p \in Object, Copy(o, p)
  PROVE  CountsInv'
<1>1. ShapeOK /\ ShapeOK'
  BY CopyShape DEF CountsInv
<1>2. UNCHANGED <<mailbox, cvrdt, buffer, inbox, counted, made, unaware, confused>>
  BY DEF Copy, replicas
<1>3. object[o] # NoObject
      /\ \A q \in Object : object'[q] = IF q = p THEN object[o] ELSE object[q]
  BY <1>1 DEF Copy, ShapeOK
<1>4. ObjectsWithin(object', Limit, made)
  BY <1>3 DEF CountsInv, ObjectsWithin
<1> QED
  BY <1>1, <1>2, <1>4, QuietKeeps

LEMMA DestroyCounts ==
  ASSUME CountsInv, NEW o \in Object, Destroy(o)
  PROVE  CountsInv'
<1>1. ShapeOK /\ ShapeOK'
  BY DestroyShape DEF CountsInv
<1>2. PICK a, u, msg : /\ a = object[o].owner /\ u = object[o].id
                       /\ msg = [type |-> "unsubscribe", from |-> a, id |-> u]
  OBVIOUS
<1>3. a \in Actor /\ u \in Id
  BY <1>1, <1>2, ObjectFacts, StateObjectFacts DEF Destroy
<1>4. msg \in AnyMessage /\ msg.type # "publish"
  BY <1>2, <1>3 DEF AnyMessage
<1>5. /\ mailbox' = mailbox \/ Send(msg)
      /\ UNCHANGED <<cvrdt, buffer, inbox, counted, made, unaware, confused>>
  BY <1>2 DEF Destroy, replicas
<1>6. \A p \in Object : object'[p] = IF p = o THEN NoObject ELSE object[p]
  BY <1>1 DEF Destroy, ShapeOK
<1>7. ObjectsWithin(object', Limit, made)
  BY <1>6 DEF CountsInv, ObjectsWithin
<1> QED
  BY <1>1, <1>4, <1>5, <1>7, QuietKeeps

\* An object that merges a notification of another id has its owner confused, unless
\* the owner's slot is not in it.
LEMMA NotifiedCounts ==
  ASSUME CountsInv, NEW a \in Actor, OnNotified(a)
  PROVE  CountsInv'
<1>1. ShapeOK /\ ShapeOK'
  BY NotifiedShape DEF CountsInv
<1>2. PICK note \in AnyNote, chosen \in SUBSET Object : Notifying(a, note, chosen)
  BY <1>1, NotifiedNamed
<1>3. UNCHANGED <<mailbox, cvrdt, buffer, counted, made, unaware>>
      /\ confused \subseteq confused'
  BY <1>2 DEF Notifying
<1>4. CountedIsMade'
  BY <1>3 DEF CountsInv, CountedIsMade
<1>5. PICK limit, most : limit = Limit' /\ most = made'
  OBVIOUS
<1>6. \A b \in Actor : made[b] <= made'[b]
  BY <1>1, <1>3, BoundsAreNat DEF ShapeOK
<1>7. \A b \in Actor, u \in Id : counted[b][u] <= counted'[b][u]
  BY <1>1, <1>3 DEF ShapeOK, Counts
<1>8. /\ limit \in Limits /\ most \in Most
      /\ \A u \in Id, b \in Actor : Limit[u][b] <= limit[u][b]
      /\ \A u \in Id, b \in Actor :
           limit[u][b] = IF <<b, u>> \in confused' THEN made'[b] ELSE counted'[b][u]
  BY <1>1, <1>3, <1>4, <1>5, <1>6, <1>7, LimitsGrow
<1>9. /\ ObjectsWithin(object, limit, most) /\ BoxWithin(mailbox, limit)
      /\ ReplicasWithin(cvrdt, buffer, limit) /\ InboxesWithin(inbox, limit)
  BY <1>5, <1>6, <1>8, OldStay
<1>10. PICK map, v : map = note.map /\ v = note.about
  OBVIOUS
<1>11. map \in AnyMap /\ v \in Id /\ Within(map, limit[v])
  BY <1>2, <1>9, <1>10 DEF Notifying, InboxesWithin, AnyNote
<1>12. Within(map, most)
  <2>1. Within(map, Limit[v])
    BY <1>2, <1>10 DEF Notifying, CountsInv, InboxesWithin
  <2> QED
    BY <1>1, <1>3, <1>5, <1>11, <2>1, LimitIsMade DEF CountsInv
<1>13. ASSUME NEW o \in Object, object'[o] # NoObject
       PROVE  /\ Within(object'[o].map, most)
              /\ At(object'[o].map, object'[o].owner) <= limit[object'[o].id][object'[o].owner]
  <2>1. CASE o \in chosen
    <3>1. /\ object[o] \in StateObject /\ object[o].owner = a
          /\ object'[o] = [object[o] EXCEPT !.map = Merge(object[o].map, map)]
      BY <1>2, <1>10, <2>1 DEF Notifying
    <3>2. PICK old, u : old = object[o].map /\ u = object[o].id
      OBVIOUS
    <3>3. object'[o].map = Merge(old, map) /\ object'[o].owner = a /\ object'[o].id = u
      BY <3>1, <3>2 DEF StateObject
    <3>4. old \in AnyMap /\ u \in Id /\ object[o] # NoObject
      BY <3>1, <3>2, StateObjectFacts
    <3>5. Within(old, most) /\ At(old, a) <= limit[u][a]
      BY <1>9, <3>1, <3>2, <3>4 DEF ObjectsWithin
    <3>6. Within(Merge(old, map), most)
      BY <1>11, <1>12, <3>4, <3>5, MergeIsWithin
    <3>7. At(Merge(old, map), a) \in {At(old, a), At(map, a)}
      BY <1>11, <3>4, MergeFacts
    <3>8. At(map, a) <= limit[u][a]
      <4>1. CASE u = v
        BY <1>11, <4>1 DEF Within
      <4>2. CASE u # v /\ a \in DOMAIN map
        <5>1. <<a, u>> \in confused'
          BY <1>2, <1>10, <2>1, <3>2, <4>2 DEF Notifying
        <5>2. limit[u][a] = made'[a]
          BY <1>8, <3>4, <5>1
        <5> QED
          BY <1>5, <1>12, <5>2 DEF Within
      <4>3. CASE a \notin DOMAIN map
        <5>1. At(map, a) = 0 /\ limit[u][a] \in Nat
          BY <1>8, <3>4, <4>3 DEF At, Limits, Most
        <5> QED
          BY <5>1
      <4> QED
        BY <4>1, <4>2, <4>3
    <3> QED
      BY <3>3, <3>5, <3>6, <3>7, <3>8
  <2>2. CASE o \notin chosen
    <3>1. object'[o] = object[o]
      BY <1>2, <2>2 DEF Notifying
    <3> QED
      BY <1>9, <1>13, <3>1 DEF ObjectsWithin
  <2> QED
    BY <2>1, <2>2
<1>14. ObjectsWithin(object', limit, most)
  BY <1>13 DEF ObjectsWithin
<1>15. \A b \in Actor : inbox'[b] \subseteq inbox[b]
  BY <1>1, <1>2 DEF Notifying, ShapeOK
<1>16. /\ InboxesWithin(inbox', limit) /\ BoxWithin(mailbox', limit)
       /\ ReplicasWithin(cvrdt', buffer', limit)
  BY <1>3, <1>9, <1>15 DEF InboxesWithin
<1>17. \A b \in Actor, u \in Id :
         <<b, u>> \notin confused' /\ <<b, u>> \notin unaware' =>
           counted'[b][u] \in Will(mailbox', cvrdt'[u], b, u)
  BY <1>3, SlotWillBeIsWill DEF CountsInv, AwareAreKept
<1> QED
  BY <1>1, <1>4, <1>5, <1>14, <1>16, <1>17, CountsNext

LEMMA TickCounts ==
  ASSUME CountsInv, NEW u \in Id, TickNotify(u)
  PROVE  CountsInv'
<1>1. ShapeOK /\ ShapeOK' /\ Limit \in Limits
  BY TickShape, LimitFacts DEF CountsInv
<1>2. UNCHANGED <<object, mailbox, cvrdt, counted, made, unaware, confused>>
  BY DEF TickNotify, history
<1>3. PICK limit, most : limit = Limit /\ most = made
  OBVIOUS
<1>4. limit = Limit' /\ most = made' /\ CountedIsMade'
  BY <1>2, <1>3 DEF Limit, CountedIsMade, CountsInv
<1>5. \A v \in Id : buffer'[v] = IF v = u THEN EmptyMap ELSE buffer[v]
  BY <1>1 DEF TickNotify, ShapeOK
<1>6. ReplicasWithin(cvrdt', buffer', limit)
  <2>1. Within(EmptyMap, limit[u])
    BY <1>1, <1>3, EmptyIsWithin DEF Limits
  <2> QED
    BY <1>2, <1>3, <1>5, <2>1 DEF CountsInv, ReplicasWithin
<1>7. InboxesWithin(inbox', limit)
  <2>1. PICK note : note = [about |-> u, map |-> buffer[u]]
    OBVIOUS
  <2>2. Within(note.map, limit[note.about])
    BY <1>3, <2>1 DEF CountsInv, ReplicasWithin
  <2>3. \A a \in Actor : inbox'[a] \subseteq inbox[a] \cup {note}
    BY <2>1 DEF TickNotify
  <2> QED
    BY <1>3, <2>2, <2>3 DEF CountsInv, InboxesWithin
<1>8. ObjectsWithin(object', limit, most) /\ BoxWithin(mailbox', limit)
  BY <1>2, <1>3 DEF CountsInv
<1>9. \A a \in Actor, v \in Id :
        <<a, v>> \notin confused' /\ <<a, v>> \notin unaware' =>
          counted'[a][v] \in Will(mailbox', cvrdt'[v], a, v)
  BY <1>2, SlotWillBeIsWill DEF CountsInv, AwareAreKept
<1> QED
  BY <1>1, <1>4, <1>6, <1>7, <1>8, <1>9, CountsNext

LEMMA IncrementCounts ==
  ASSUME CountsInv, NEW o \in Object, Increment(o)
  PROVE  CountsInv'
<1>1. ShapeOK /\ ShapeOK' /\ made \in Most /\ counted \in Counts
  BY IncrementShape, LimitFacts DEF CountsInv
<1>2. PICK a \in Actor, u \in Id, total \in Nat : Incrementing(o, a, u, total)
  BY <1>1, IncrementNamed
<1>3. /\ UNCHANGED <<subs, cvrdt, buffer, inbox, confused, bereft>>
      /\ unaware' = IF total = counted[a][u] + 1 THEN unaware ELSE unaware \cup {<<a, u>>}
  BY <1>2 DEF Incrementing
<1>4. /\ counted'[a][u] = counted[a][u] + 1
      /\ \A b \in Actor, v \in Id : b # a \/ v # u => counted'[b][v] = counted[b][v]
  BY <1>1, <1>2 DEF Incrementing, Counts
<1>5. /\ made'[a] = made[a] + 1
      /\ \A b \in Actor : b # a => made'[b] = made[b]
  BY <1>1, <1>2 DEF Incrementing, Most
<1>6. \A b \in Actor : made[b] \in Nat /\ made[b] <= made'[b]
  BY <1>1, <1>5 DEF Most
<1>7. \A b \in Actor, v \in Id : counted[b][v] \in Nat /\ counted[b][v] <= counted'[b][v]
  BY <1>1, <1>4 DEF Counts
<1>8. CountedIsMade'
  <2> SUFFICES ASSUME NEW b \in Actor, NEW v \in Id
               PROVE  counted'[b][v] <= made'[b]
    BY DEF CountedIsMade
  <2>1. counted[b][v] <= made[b] /\ counted[b][v] \in Nat /\ made[b] \in Nat
    BY <1>6, <1>7 DEF CountsInv, CountedIsMade
  <2>2. counted'[b][v] = counted[b][v] \/ (b = a /\ counted'[b][v] = counted[b][v] + 1)
    BY <1>4
  <2>3. made'[b] = made[b] + 1 \/ (b # a /\ made'[b] = made[b])
    BY <1>5
  <2> QED
    BY <2>1, <2>2, <2>3
<1>9. PICK limit, most : limit = Limit' /\ most = made'
  OBVIOUS
<1>10. /\ limit \in Limits /\ most \in Most
       /\ \A v \in Id, b \in Actor : Limit[v][b] <= limit[v][b]
       /\ \A v \in Id, b \in Actor :
            limit[v][b] = IF <<b, v>> \in confused' THEN made'[b] ELSE counted'[b][v]
  BY <1>1, <1>3, <1>6, <1>7, <1>8, <1>9, LimitsGrow
<1>11. /\ ObjectsWithin(object, limit, most) /\ BoxWithin(mailbox, limit)
       /\ ReplicasWithin(cvrdt, buffer, limit) /\ InboxesWithin(inbox, limit)
  BY <1>6, <1>9, <1>10, OldStay
<1>12. PICK old : old = object[o].map
  OBVIOUS
<1>13. /\ object[o] \in StateObject /\ old \in AnyMap /\ object[o] # NoObject
       /\ object[o].owner = a /\ object[o].id = u
       /\ total = At(old, a) + 1
  BY <1>2, <1>12, StateObjectFacts DEF Incrementing
<1>14. total <= limit[u][a] /\ total <= most[a]
  <2>1. At(old, a) \in Nat /\ At(old, a) <= Limit[u][a] /\ At(old, a) <= made[a]
    BY <1>12, <1>13, MapFacts DEF CountsInv, ObjectsWithin, Within
  <2>2. Limit[u][a] = IF <<a, u>> \in confused THEN made[a] ELSE counted[a][u]
    BY <1>1, LimitFacts
  <2>3. limit[u][a] = Limit[u][a] + 1
    BY <1>3, <1>4, <1>5, <1>10, <2>2
  <2>4. Limit[u][a] \in Nat /\ made[a] \in Nat
    BY <1>6, <1>7, <2>2
  <2> QED
    BY <1>5, <1>9, <1>13, <2>1, <2>3, <2>4
<1>15. PICK entry : entry = Entry(a, total)
  OBVIOUS
<1>16. entry \in AnyMap /\ \A b : At(entry, b) = IF b = a THEN total ELSE 0
  BY <1>15, EntryFacts
<1>17. Within(entry, limit[u]) /\ Within(entry, most)
  BY <1>10, <1>14, <1>16 DEF Within, Limits, Most
<1>18. PICK msg : msg = [type |-> "publish", from |-> a, id |-> u, map |-> entry]
  OBVIOUS
<1>19. msg \in AnyMessage /\ Send(msg) /\ IsPublication(msg, u) /\ msg.map = entry
  BY <1>2, <1>15, <1>16, <1>18 DEF Incrementing, AnyMessage, IsPublication
<1>20. ObjectsWithin(object', limit, most)
  <2>1. \A p \in Object : object'[p] = IF p = o
                                         THEN [object[o] EXCEPT !.map = Merge(old, entry)]
                                       ELSE object[p]
    BY <1>1, <1>2, <1>12, <1>15 DEF Incrementing, ShapeOK
  <2>2. object'[o].map = Merge(old, entry) /\ object'[o].owner = a /\ object'[o].id = u
    BY <1>13, <2>1 DEF StateObject
  <2>3. Within(old, most) /\ At(old, a) <= limit[u][a]
    BY <1>11, <1>12, <1>13 DEF ObjectsWithin
  <2>4. Within(Merge(old, entry), most)
    BY <1>13, <1>16, <1>17, <2>3, MergeIsWithin
  <2>5. At(Merge(old, entry), a) <= limit[u][a]
    <3>1. At(Merge(old, entry), a) \in {At(old, a), At(entry, a)}
      BY <1>13, <1>16, MergeFacts
    <3> QED
      BY <1>14, <1>16, <2>3, <3>1
  <2>6. ASSUME NEW p \in Object, p # o, object'[p] # NoObject
        PROVE  /\ Within(object'[p].map, most)
               /\ At(object'[p].map, object'[p].owner)
                    <= limit[object'[p].id][object'[p].owner]
    <3>1. object'[p] = object[p]
      BY <2>1, <2>6
    <3> QED
      BY <1>11, <2>6, <3>1 DEF ObjectsWithin
  <2> QED
    BY <2>2, <2>4, <2>5, <2>6 DEF ObjectsWithin
<1>21. BoxWithin(mailbox', limit)
  BY <1>1, <1>11, <1>17, <1>19, SendWithin DEF IsPublication
<1>22. ReplicasWithin(cvrdt', buffer', limit) /\ InboxesWithin(inbox', limit)
  BY <1>3, <1>11
<1>23. ASSUME NEW b \in Actor, NEW v \in Id,
              <<b, v>> \notin confused', <<b, v>> \notin unaware'
       PROVE  counted'[b][v] \in Will(mailbox', cvrdt'[v], b, v)
  <2>1. mailbox \in Seq(AnyMessage) /\ mailbox' = Append(mailbox, msg)
    BY <1>1, <1>19 DEF Send, ShapeOK
  <2>2. CASE b = a /\ v = u
    <3>1. counted'[a][u] = total
      BY <1>3, <1>4, <1>23, <2>2
    <3>2. At(msg.map, a) = total
      BY <1>16, <1>19
    <3>3. At(msg.map, a) \in Will(mailbox', cvrdt[u], a, u)
      BY <1>19, <2>1, WillAfterSend
    <3> QED
      BY <1>3, <2>2, <3>1, <3>2, <3>3
  <2>3. CASE ~(b = a /\ v = u)
    <3>1. <<b, v>> \notin unaware /\ <<b, v>> \notin confused
      BY <1>3, <1>23
    <3>2. counted'[b][v] = counted[b][v]
      BY <1>4, <2>3
    <3>3. counted[b][v] \in Will(mailbox, cvrdt[v], b, v)
      BY <3>1, SlotWillBeIsWill DEF CountsInv, AwareAreKept
    <3>4. Will(mailbox, cvrdt[v], b, v) \subseteq Will(mailbox', cvrdt[v], b, v)
      BY <1>19, <2>1, WillAfterSend
    <3> QED
      BY <1>3, <3>2, <3>3, <3>4
  <2> QED
    BY <2>2, <2>3
<1> QED
  BY <1>1, <1>8, <1>9, <1>20, <1>21, <1>22, <1>23, CountsNext

LEMMA MessageCounts ==
  ASSUME CountsInv, OnMessage
  PROVE  CountsInv'
<1>1. ShapeOK /\ ShapeOK' /\ Limit \in Limits
  BY MessageShape, LimitFacts DEF CountsInv
<1>2. PICK msg : msg = Head(mailbox)
  OBVIOUS
<1>3. /\ mailbox # <<>> /\ mailbox' = Tail(mailbox)
      /\ UNCHANGED <<object, counted, made, unaware, confused, bereft>>
  BY DEF OnMessage, history
<1>4. msg \in AnyMessage /\ msg.id \in Id /\ msg.from \in Actor
  BY <1>1, <1>2, <1>3, HeadFacts, MessageFacts
<1>5. PICK limit, most : limit = Limit /\ most = made
  OBVIOUS
<1>6. limit = Limit' /\ most = made' /\ CountedIsMade'
  BY <1>3, <1>5 DEF Limit, CountedIsMade, CountsInv
<1>7. /\ ObjectsWithin(object', limit, most) /\ BoxWithin(mailbox, limit)
      /\ ReplicasWithin(cvrdt, buffer, limit) /\ InboxesWithin(inbox, limit)
  BY <1>3, <1>5 DEF CountsInv
<1>8. msg.type = "publish" => msg.map \in AnyMap /\ Within(msg.map, limit[msg.id])
  <2>1. msg = mailbox[1] /\ 1 \in DOMAIN mailbox
    BY <1>1, <1>2, <1>3, TailFacts DEF ShapeOK
  <2> QED
    BY <1>4, <1>7, <2>1, MessageFacts DEF BoxWithin
<1>9. BoxWithin(mailbox', limit)
  <2>1. \A i \in DOMAIN mailbox' :
          i + 1 \in DOMAIN mailbox /\ mailbox'[i] = mailbox[i + 1]
    BY <1>1, <1>3, TailFacts DEF ShapeOK
  <2> QED
    BY <1>7, <2>1 DEF BoxWithin
\* What is known of a slot before the step.
<1>10. ASSUME NEW a \in Actor, NEW u \in Id,
              <<a, u>> \notin confused', <<a, u>> \notin unaware'
       PROVE  \/ counted[a][u] \in Will(mailbox', cvrdt'[u], a, u)
              \/ counted[a][u] = At(cvrdt[u], a)
              \/ IsPublication(msg, u) /\ counted[a][u] = At(msg.map, a)
  <2>1. counted[a][u] \in Will(mailbox, cvrdt[u], a, u)
    BY <1>3, <1>10, SlotWillBeIsWill DEF CountsInv, AwareAreKept
  <2> QED
    BY <1>1, <1>2, <1>3, <2>1, WillAfterHead DEF ShapeOK
<1>11. CASE msg.type # "publish" /\ UNCHANGED <<cvrdt, buffer>> /\ InboxesWithin(inbox', limit)
  <2>1. ReplicasWithin(cvrdt', buffer', limit)
    BY <1>7, <1>11
  <2>2. ASSUME NEW a \in Actor, NEW u \in Id,
               <<a, u>> \notin confused', <<a, u>> \notin unaware'
        PROVE  counted'[a][u] \in Will(mailbox', cvrdt'[u], a, u)
    <3>1. ~IsPublication(msg, u)
      BY <1>11 DEF IsPublication
    <3>2. At(cvrdt'[u], a) \in Will(mailbox', cvrdt'[u], a, u)
      BY DEF Will
    <3> QED
      BY <1>3, <1>10, <1>11, <2>2, <3>1, <3>2
  <2> QED
    BY <1>1, <1>6, <1>7, <1>9, <1>11, <2>1, <2>2, CountsNext
<1>12. CASE msg.type = "subscribe" /\ OnSubscribe(msg.from, msg.id)
  <2>1. PICK note : note = [about |-> msg.id, map |-> cvrdt[msg.id]]
    OBVIOUS
  <2>2. Within(note.map, limit[note.about])
    BY <1>4, <1>7, <2>1 DEF ReplicasWithin
  <2>3. \A a \in Actor : inbox'[a] \subseteq inbox[a] \cup {note}
    BY <1>1, <1>4, <1>12, <2>1 DEF OnSubscribe, Told, ShapeOK
  <2>4. InboxesWithin(inbox', limit)
    BY <1>7, <2>2, <2>3 DEF InboxesWithin
  <2> QED
    BY <1>11, <1>12, <2>4 DEF OnSubscribe
<1>13. CASE msg.type = "unsubscribe" /\ OnUnsubscribe(msg.from, msg.id)
  <2>1. InboxesWithin(inbox', limit)
    BY <1>7, <1>13 DEF OnUnsubscribe
  <2> QED
    BY <1>11, <1>13, <2>1 DEF OnUnsubscribe
<1>14. CASE msg.type = "publish" /\ OnPublish(msg.id, msg.map)
  <2>1. PICK w, n : w = msg.id /\ n = msg.map
    OBVIOUS
  <2>2. w \in Id /\ n \in AnyMap /\ Within(n, limit[w]) /\ limit[w] \in Most
    BY <1>1, <1>4, <1>5, <1>8, <1>14, <2>1 DEF Limits
  <2>3. PICK m, b, delta : m = cvrdt[w] /\ b = buffer[w] /\ delta = GCounterDelta(m, n)
    OBVIOUS
  <2>4. m \in AnyMap /\ b \in AnyMap /\ Within(m, limit[w]) /\ Within(b, limit[w])
    BY <1>1, <1>7, <2>2, <2>3 DEF ShapeOK, ReplicasWithin
  <2>5. delta \in AnyMap /\ Within(delta, limit[w])
    BY <2>2, <2>3, <2>4, DeltaFacts, DeltaIsWithin
  <2>6. Within(Merge(m, n), limit[w]) /\ Within(Merge(b, delta), limit[w])
    BY <2>2, <2>4, <2>5, MergeIsWithin
  <2>7. /\ \A u \in Id : cvrdt'[u] = IF u = w THEN Merge(m, n) ELSE cvrdt[u]
        /\ \A u \in Id : buffer'[u] = IF u = w THEN Merge(b, delta) ELSE buffer[u]
        /\ inbox' = inbox
    BY <1>1, <1>14, <2>1, <2>3 DEF OnPublish, ShapeOK
  <2>8. ReplicasWithin(cvrdt', buffer', limit) /\ InboxesWithin(inbox', limit)
    BY <1>7, <2>6, <2>7 DEF ReplicasWithin
  <2>9. ASSUME NEW a \in Actor, NEW u \in Id,
               <<a, u>> \notin confused', <<a, u>> \notin unaware'
        PROVE  counted'[a][u] \in Will(mailbox', cvrdt'[u], a, u)
    <3>1. At(cvrdt'[u], a) \in Will(mailbox', cvrdt'[u], a, u)
      BY DEF Will
    <3>2. CASE u = w
      <4>1. limit[w][a] = counted[a][w]
        BY <1>1, <1>3, <1>5, <2>9, <3>2, LimitFacts
      <4>2. At(m, a) <= counted[a][w] /\ At(n, a) <= counted[a][w]
        BY <2>2, <2>4, <4>1 DEF Within
      <4>3. At(m, a) \in Nat /\ At(n, a) \in Nat
        BY <2>2, <2>4, MapFacts
      <4>4. /\ At(Merge(m, n), a) \in {At(m, a), At(n, a)}
            /\ At(m, a) <= At(Merge(m, n), a) /\ At(n, a) <= At(Merge(m, n), a)
        BY <2>2, <2>4, MergeFacts
      <4>5. \/ counted[a][u] \in Will(mailbox', cvrdt'[u], a, u)
            \/ counted[a][w] = At(m, a)
            \/ counted[a][w] = At(n, a)
        BY <1>10, <2>1, <2>3, <2>9, <3>2
      <4>6. \/ counted[a][u] \in Will(mailbox', cvrdt'[u], a, u)
            \/ counted[a][w] = At(Merge(m, n), a)
        BY <4>2, <4>3, <4>4, <4>5
      <4> QED
        BY <1>3, <2>7, <3>1, <3>2, <4>6
    <3>3. CASE u # w
      <4>1. cvrdt'[u] = cvrdt[u] /\ ~IsPublication(msg, u)
        BY <2>1, <2>7, <3>3 DEF IsPublication
      <4> QED
        BY <1>3, <1>10, <2>9, <3>1, <4>1
    <3> QED
      BY <3>2, <3>3
  <2> QED
    BY <1>1, <1>6, <1>7, <1>9, <2>8, <2>9, CountsNext
<1> QED
  BY <1>2, <1>12, <1>13, <1>14 DEF OnMessage

LEMMA NextCounts == CountsInv /\ [Next]_vars => CountsInv'
<1> SUFFICES ASSUME CountsInv, [Next]_vars
             PROVE  CountsInv'
  OBVIOUS
<1>1. CASE \E o \in Object, a \in Actor, t \in Text : Construct(o, a, t)
  BY <1>1, ConstructCounts
<1>2. CASE \E o, p \in Object : Copy(o, p)
  BY <1>2, CopyCounts
<1>3. CASE \E o \in Object : Destroy(o)
  BY <1>3, DestroyCounts
<1>4. CASE \E o \in Object : Increment(o)
  BY <1>4, IncrementCounts
<1>5. CASE \E a \in Actor : OnNotified(a)
  BY <1>5, NotifiedCounts
<1>6. CASE OnMessage
  BY <1>6, MessageCounts
<1>7. CASE \E u \in Id : TickNotify(u)
  BY <1>7, TickCounts
<1>8. CASE UNCHANGED vars
  <2>1. /\ UNCHANGED <<cvrdt, buffer, inbox, counted, made, unaware, confused>>
        /\ mailbox' = mailbox /\ object' = object
    BY <1>8 DEF vars, replicas, history
  <2>2. ShapeOK' /\ ObjectsWithin(object', Limit, made)
    BY <2>1, NextShape DEF CountsInv
  <2> QED
    BY <2>1, <2>2, QuietKeeps
<1> QED
  BY <1>1, <1>2, <1>3, <1>4, <1>5, <1>6, <1>7, <1>8 DEF Next

LEMMA CountsHold == Spec => []CountsInv
<1>1. Init => CountsInv
  BY InitCounts
<1>2. CountsInv /\ [Next]_vars => CountsInv'
  BY NextCounts
<1> QED
  BY <1>1, <1>2, PTL DEF Spec

LEMMA CountsAreTyped == CountsInv => TypeOK
<1> SUFFICES ASSUME CountsInv
             PROVE  TypeOK
  OBVIOUS
<1>1. ShapeOK /\ CountedIsMade
  BY DEF CountsInv
<1>2. ASSUME NEW o \in Object, object[o] # NoObject
      PROVE  object[o] \in [owner : Actor, id : Id, map : Map]
  <2>1. object[o] \in StateObject
    BY <1>1, <1>2, ObjectFacts
  <2>2. object[o].map \in Map
    BY <1>1, <1>2, <2>1, StateObjectFacts, WithinIsBounded DEF CountsInv, ObjectsWithin
  <2> QED
    BY <2>1, <2>2 DEF StateObject
<1>3. object \in [Object -> {NoObject} \cup [owner : Actor, id : Id, map : Map]]
  BY <1>1, <1>2 DEF ShapeOK
<1>4. ASSUME NEW u \in Id, NEW m \in AnyMap, Within(m, Limit[u])
      PROVE  m \in Map
  BY <1>1, <1>4, LimitIsMade, WithinIsBounded
<1>5. ASSUME NEW i \in DOMAIN mailbox
      PROVE  mailbox[i] \in Message
  <2>1. mailbox[i] \in AnyMessage
    BY <1>1 DEF ShapeOK
  <2>2. CASE mailbox[i].type = "publish"
    <3>1. mailbox[i].map \in Map
      BY <1>4, <2>1, <2>2, MessageFacts DEF CountsInv, BoxWithin
    <3> QED
      BY <2>1, <2>2, <3>1 DEF AnyMessage, Message
  <2>3. CASE mailbox[i].type # "publish"
    BY <2>1, <2>3 DEF AnyMessage, Message
  <2> QED
    BY <2>2, <2>3
<1>6. mailbox \in Seq(Message)
  BY <1>1, <1>5 DEF ShapeOK
<1>7. \A u \in Id : cvrdt[u] \in Map /\ buffer[u] \in Map
  BY <1>1, <1>4 DEF ShapeOK, CountsInv, ReplicasWithin
<1>8. ASSUME NEW a \in Actor, NEW note \in inbox[a]
      PROVE  note \in Note
  <2>1. note \in AnyNote
    BY <1>1 DEF ShapeOK
  <2>2. note.map \in Map
    BY <1>4, <2>1 DEF CountsInv, InboxesWithin, AnyNote
  <2> QED
    BY <2>1, <2>2 DEF AnyNote, Note
<1>9. inbox \in [Actor -> SUBSET Note]
  BY <1>1, <1>8 DEF ShapeOK
<1>10. counted \in [Actor -> [Id -> 0 .. MaxCount]]
  <2>1. ASSUME NEW a \in Actor, NEW u \in Id
        PROVE  counted[a][u] \in 0 .. MaxCount
    <3>1. counted[a][u] \in Nat /\ made[a] \in 0 .. MaxCount /\ counted[a][u] <= made[a]
      BY <1>1 DEF ShapeOK, Counts, CountedIsMade
    <3> QED
      BY <3>1, BoundsAreNat
  <2> QED
    BY <1>1, <2>1 DEF ShapeOK, Counts
<1> QED
  BY <1>1, <1>3, <1>6, <1>7, <1>9, <1>10 DEF ShapeOK, TypeOK

\* The variables keep their types; in particular no slot of an object, of a replica, or
\* of anything on its way exceeds MaxCount, the bound on the increments of an owner.
THEOREM TypeCorrect == Spec => []TypeOK
<1>1. CountsInv => TypeOK
  BY CountsAreTyped
<1>2. Spec => []CountsInv
  BY CountsHold
<1> QED
  BY <1>1, <1>2, PTL

\* Nobody has, or will have, more of the slot of an owner than that has made.
CountsAreMade ==
  \A a \in Actor :
    /\ \A u \in Id : At(buffer[u], a) <= made[a] /\ \A v \in SlotWillBe(a, u) : v <= made[a]
    /\ \A o \in Object : object[o] # NoObject => At(object[o].map, a) <= made[a]
    /\ \A b \in Actor : \A note \in inbox[b] : At(note.map, a) <= made[a]

\* Merging invents no counts (gcounter.hpp:69): what anybody has in the slot of an owner,
\* in an object, a replica, a delta buffer or a message, is at most the number of
\* increments that this owner has made so far, whichever objects it merges its
\* notifications into, and whatever it copies, assigns or destroys.
THEOREM NoCountIsInvented == Spec => []CountsAreMade
<1>1. ASSUME CountsInv
      PROVE  CountsAreMade
  <2> SUFFICES ASSUME NEW a \in Actor
               PROVE  /\ \A u \in Id : At(buffer[u], a) <= made[a]
                      /\ \A u \in Id : \A v \in SlotWillBe(a, u) : v <= made[a]
                      /\ \A o \in Object : object[o] # NoObject => At(object[o].map, a) <= made[a]
                      /\ \A b \in Actor : \A note \in inbox[b] : At(note.map, a) <= made[a]
    BY DEF CountsAreMade
  <2>1. ShapeOK /\ CountedIsMade
    BY <1>1 DEF CountsInv
  <2>2. ASSUME NEW u \in Id, NEW m \in AnyMap, Within(m, Limit[u])
        PROVE  At(m, a) <= made[a]
    BY <2>1, <2>2, LimitIsMade DEF Within
  <2>3. \A u \in Id : At(buffer[u], a) <= made[a] /\ At(cvrdt[u], a) <= made[a]
    BY <1>1, <2>1, <2>2 DEF CountsInv, ReplicasWithin, ShapeOK
  <2>4. ASSUME NEW u \in Id, NEW i \in DOMAIN mailbox, IsPublication(mailbox[i], u)
        PROVE  At(mailbox[i].map, a) <= made[a]
    <3>1. mailbox[i] \in AnyMessage
      BY <2>1 DEF ShapeOK
    <3> QED
      BY <1>1, <2>2, <2>4, <3>1, MessageFacts DEF CountsInv, BoxWithin, IsPublication
  <2>5. ASSUME NEW u \in Id
        PROVE  \A v \in SlotWillBe(a, u) : v <= made[a]
    BY <2>3, <2>4, SlotWillBeIsWill DEF Will
  <2>6. ASSUME NEW o \in Object, object[o] # NoObject
        PROVE  At(object[o].map, a) <= made[a]
    BY <1>1, <2>6 DEF CountsInv, ObjectsWithin, Within
  <2>7. ASSUME NEW b \in Actor, NEW note \in inbox[b]
        PROVE  At(note.map, a) <= made[a]
    <3>1. note \in AnyNote
      BY <2>1 DEF ShapeOK
    <3> QED
      BY <1>1, <2>2, <3>1 DEF CountsInv, InboxesWithin, AnyNote
  <2> QED
    BY <2>3, <2>5, <2>6, <2>7
<1>2. Spec => []CountsInv
  BY CountsHold
<1> QED
  BY <1>1, <1>2, PTL

\* A replica never counts more than an owner has on its id, whatever copies and re-created
\* objects publish in whatever order; and it has, or will have when it has handled what
\* waits, all that the owner has counted there, unless one of its objects was unaware of
\* an increment of another (base_datatype.hpp:88). For an owner, that is, that has merged
\* no count of its own into an object of another id (replica.hpp:172).
THEOREM OnlyTheUnawareLose == Spec => []OnlyUnawareIncrementsAreLost
<1>1. ASSUME CountsInv
      PROVE  OnlyUnawareIncrementsAreLost
  <2> SUFFICES ASSUME NEW a \in Actor, NEW u \in Id, <<a, u>> \notin confused
               PROVE  /\ \A v \in SlotWillBe(a, u) : v <= counted[a][u]
                      /\ <<a, u>> \notin unaware => counted[a][u] \in SlotWillBe(a, u)
    BY DEF OnlyUnawareIncrementsAreLost
  <2>1. ShapeOK /\ Limit[u][a] = counted[a][u]
    BY <1>1, LimitFacts DEF CountsInv
  <2>2. At(cvrdt[u], a) <= counted[a][u]
    BY <1>1, <2>1 DEF CountsInv, ReplicasWithin, Within
  <2>3. ASSUME NEW i \in DOMAIN mailbox, IsPublication(mailbox[i], u)
        PROVE  At(mailbox[i].map, a) <= counted[a][u]
    BY <1>1, <2>1, <2>3 DEF CountsInv, BoxWithin, Within, IsPublication
  <2>4. \A v \in Will(mailbox, cvrdt[u], a, u) : v <= counted[a][u]
    BY <2>2, <2>3 DEF Will
  <2> QED
    BY <1>1, <2>4, SlotWillBeIsWill DEF CountsInv, AwareAreKept
<1>2. Spec => []CountsInv
  BY CountsHold
<1> QED
  BY <1>1, <1>2, PTL

--------------------------------------------------------------------------------
(***************************************************************************)
(* Ids and their texts.  The induction over the characters of a text is one *)
(* over the numbers of them: there is no least one that breaks the claim.   *)
(***************************************************************************)

States == {"parse_scheme", "parse_slash", "parse_id", "parse_end", "failed"}

Parser == [state : States, scheme : Seq(Char), path : Seq(Char)]

\* Each character leaves a parser, ...
LEMMA ConsumeType ==
  ASSUME NEW u \in Parser, NEW c \in Char
  PROVE  Consume(u, c) \in Parser
<1>1. CASE u.state = "parse_scheme"
  BY <1>1 DEF Consume, Parser, States
<1>2. CASE u.state = "parse_slash"
  BY <1>2 DEF Consume, Parser, States
<1>3. CASE u.state = "parse_id"
  <2>1. Consume(u, c) = [u EXCEPT !.path = Append(u.path, c),
                                  !.state = IF c = Wildcard THEN "parse_end" ELSE u.state]
    BY <1>3 DEF Consume
  <2>2. Append(u.path, c) \in Seq(Char)
    BY DEF Parser
  <2> QED
    BY <2>1, <2>2 DEF Parser, States
<1>4. CASE u.state \in {"parse_end", "failed"}
  BY <1>4 DEF Consume, Parser, States
<1> QED
  BY <1>1, <1>2, <1>3, <1>4 DEF Parser, States

\* ... and it begins as one.
LEMMA BlankFacts == Blank \in Parser
<1>1. <<>> \in Seq(Char)
  OBVIOUS
<1> QED
  BY <1>1 DEF Blank, Parser, States

LEMMA LowerFacts ==
  ASSUME NEW c \in Char
  PROVE  ToLower(c) \in Char /\ ToLower(ToLower(c)) = ToLower(c)
  BY DEF ToLower, Char, PathDelim, Wildcard

LEMMA ConcatFacts ==
  ASSUME NEW a \in Seq(Char), NEW b \in Seq(Char)
  PROVE  /\ a \o b \in Seq(Char) /\ Len(a \o b) = Len(a) + Len(b)
         /\ \A j \in 1 .. Len(a) : (a \o b)[j] = a[j]
         /\ \A j \in 1 .. Len(b) : (a \o b)[Len(a) + j] = b[j]
         /\ Len(a) \in Nat /\ Len(b) \in Nat
  OBVIOUS

\* The text of an id, ...
LEMMA StringFacts ==
  ASSUME NEW u, u.scheme \in Seq(Char), u.path \in Seq(Char)
  PROVE  /\ AsString(u) \in Seq(Char)
         /\ Len(AsString(u)) = Len(u.scheme) + 2 + Len(u.path)
         /\ \A j \in 1 .. Len(u.scheme) : AsString(u)[j] = u.scheme[j]
         /\ AsString(u)[Len(u.scheme) + 1] = ":"
         /\ AsString(u)[Len(u.scheme) + 2] = PathDelim
<1>1. PICK scheme \in Seq(Char), path \in Seq(Char) : scheme = u.scheme /\ path = u.path
  OBVIOUS
<1>2. PICK mid : mid = <<":", PathDelim>> /\ mid \in Seq(Char)
  <2>1. <<":", PathDelim>> \in Seq(Char)
    BY DEF Char, PathDelim
  <2> QED
    BY <2>1
<1>3. Len(mid) = 2 /\ mid[1] = ":" /\ mid[2] = PathDelim
  BY <1>2
<1>4. PICK front \in Seq(Char) : front = scheme \o mid
  BY <1>2, ConcatFacts
<1>5. /\ Len(front) = Len(scheme) + 2 /\ Len(scheme) \in Nat
      /\ \A j \in 1 .. Len(scheme) : front[j] = scheme[j]
      /\ front[Len(scheme) + 1] = mid[1] /\ front[Len(scheme) + 2] = mid[2]
  <2>1. /\ Len(front) = Len(scheme) + Len(mid) /\ Len(scheme) \in Nat
        /\ \A j \in 1 .. Len(scheme) : front[j] = scheme[j]
        /\ \A j \in 1 .. Len(mid) : front[Len(scheme) + j] = mid[j]
    BY <1>2, <1>4, ConcatFacts
  <2>2. 1 \in 1 .. Len(mid) /\ 2 \in 1 .. Len(mid)
    BY <1>3
  <2> QED
    BY <1>3, <2>1, <2>2
<1>6. PICK s \in Seq(Char) : s = front \o path
  BY ConcatFacts
<1>7. s = AsString(u)
  BY <1>1, <1>2, <1>4, <1>6 DEF AsString
<1>8. /\ Len(s) = Len(front) + Len(path) /\ Len(path) \in Nat
      /\ \A j \in 1 .. Len(front) : s[j] = front[j]
  BY <1>6, ConcatFacts
<1>9. /\ Len(scheme) + 1 \in 1 .. Len(front) /\ Len(scheme) + 2 \in 1 .. Len(front)
      /\ \A j \in 1 .. Len(scheme) : j \in 1 .. Len(front)
  BY <1>5
<1>10. /\ Len(s) = Len(scheme) + 2 + Len(path)
       /\ \A j \in 1 .. Len(scheme) : s[j] = scheme[j]
       /\ s[Len(scheme) + 1] = ":" /\ s[Len(scheme) + 2] = PathDelim
  BY <1>3, <1>5, <1>8, <1>9
<1> QED
  BY <1>1, <1>6, <1>7, <1>10

\* ... and a character more in the path is one more in the text.
LEMMA LongerString ==
  ASSUME NEW u, NEW v, NEW c \in Char, u.scheme \in Seq(Char), u.path \in Seq(Char),
         v.scheme = u.scheme, v.path = Append(u.path, c)
  PROVE  AsString(v) = Append(AsString(u), c) /\ AsString(u) \in Seq(Char)
<1>1. PICK scheme \in Seq(Char), path \in Seq(Char) : scheme = u.scheme /\ path = u.path
  OBVIOUS
<1>2. PICK front : front = scheme \o <<":", PathDelim>>
  OBVIOUS
<1>3. front \in Seq(Char)
  <2>1. <<":", PathDelim>> \in Seq(Char)
    BY DEF Char, PathDelim
  <2> QED
    BY <1>2, <2>1
<1>4. AsString(u) = front \o path /\ AsString(v) = front \o Append(path, c)
  BY <1>1, <1>2 DEF AsString
<1>5. front \o Append(path, c) = Append(front \o path, c) /\ front \o path \in Seq(Char)
  BY <1>3
<1> QED
  BY <1>4, <1>5

\* The text of u is what the first n characters are in lower case.
Says(u, text, n) ==
  Len(AsString(u)) = n /\ \A j \in 1 .. n : AsString(u)[j] = ToLower(text[j])

\* u is what the parser may be after n characters, p what it was after each.
Traces(u, text, n, p) ==
  /\ u \in Parser
  /\ u.state = "parse_scheme" =>
       /\ u.path = <<>> /\ Len(u.scheme) = n
       /\ \A j \in 1 .. n : u.scheme[j] = ToLower(text[j])
  /\ u.state = "parse_slash" =>
       /\ u.path = <<>> /\ Len(u.scheme) = n - 1
       /\ \A j \in 1 .. n - 1 : u.scheme[j] = ToLower(text[j])
       /\ ToLower(text[n]) = ":"
  /\ u.state = "parse_id" => Says(u, text, n)
  /\ u.state = "parse_end" => Says(u, text, n) /\ ToLower(text[n]) = Wildcard
  /\ u.state = "failed" =>
       \/ u.path = <<>>
       \/ \E k \in 1 .. n - 1 :
            /\ p[k].state = "parse_end" /\ p[k].scheme = u.scheme /\ p[k].path = u.path
            /\ p[k] \in Parser /\ Says(p[k], text, k) /\ ToLower(text[k]) = Wildcard

\* One more character keeps it so.
LEMMA TracesStep ==
  ASSUME NEW text \in Seq(Char), NEW p, NEW n \in 1 .. Len(text), NEW u, u = p[n - 1],
         Traces(u, text, n - 1, p)
  PROVE  Traces(Consume(u, ToLower(text[n])), text, n, p)
<1> DEFINE c == ToLower(text[n])
           v == Consume(u, c)
<1>1. u \in Parser /\ c \in Char
  BY LowerFacts DEF Traces
<1>2. v \in Parser
  BY <1>1, ConsumeType
<1>3. u.scheme \in Seq(Char) /\ u.path \in Seq(Char) /\ u.state \in States
      /\ v.scheme \in Seq(Char) /\ v.path \in Seq(Char)
  BY <1>1, <1>2 DEF Parser
<1>4. CASE u.state = "parse_scheme" /\ c = ":"
  <2>1. v.state = "parse_slash" /\ v.scheme = u.scheme /\ v.path = u.path
    BY <1>1, <1>4 DEF Consume, Parser
  <2> QED
    BY <1>2, <1>4, <2>1 DEF Traces
<1>5. CASE u.state = "parse_scheme" /\ c # ":"
  <2>1. v.state = "parse_scheme" /\ v.scheme = Append(u.scheme, c) /\ v.path = u.path
    BY <1>1, <1>5 DEF Consume, Parser
  <2>2. /\ u.path = <<>> /\ Len(u.scheme) = n - 1
        /\ \A j \in 1 .. n - 1 : u.scheme[j] = ToLower(text[j])
    BY <1>5 DEF Traces
  <2> HIDE DEF v
  <2>3. Len(v.scheme) = n /\ \A j \in 1 .. n : v.scheme[j] = ToLower(text[j])
    BY <1>1, <1>3, <2>1, <2>2
  <2> QED
    BY <1>2, <2>1, <2>2, <2>3 DEF Traces, v
<1>6. CASE u.state = "parse_slash"
  <2>1. /\ v.state = IF c = PathDelim THEN "parse_id" ELSE "failed"
        /\ v.scheme = u.scheme /\ v.path = u.path
    BY <1>1, <1>6 DEF Consume, Parser
  <2>2. /\ u.path = <<>> /\ Len(u.scheme) = n - 2
        /\ \A j \in 1 .. n - 2 : u.scheme[j] = ToLower(text[j])
        /\ ToLower(text[n - 1]) = ":"
    BY <1>6 DEF Traces
  <2>3. CASE c = PathDelim
    <3> HIDE DEF v
    <3>1. PICK scheme \in Seq(Char) : scheme = v.scheme
      BY <1>3
    <3>2. Len(scheme) = n - 2 /\ Len(<<>>) = 0
      BY <2>1, <2>2, <3>1
    <3>3. /\ Len(AsString(v)) = (n - 2) + 2 + 0
          /\ \A j \in 1 .. n - 2 : AsString(v)[j] = scheme[j]
          /\ AsString(v)[(n - 2) + 1] = ":" /\ AsString(v)[(n - 2) + 2] = PathDelim
      <4>1. /\ Len(AsString(v)) = Len(v.scheme) + 2 + Len(v.path)
            /\ \A j \in 1 .. Len(v.scheme) : AsString(v)[j] = v.scheme[j]
            /\ AsString(v)[Len(v.scheme) + 1] = ":"
            /\ AsString(v)[Len(v.scheme) + 2] = PathDelim
        BY <1>3, StringFacts
      <4>2. v.path = <<>>
        BY <2>1, <2>2
      <4> QED
        BY <3>1, <3>2, <4>1, <4>2
    <3>4. /\ Len(AsString(v)) = n
          /\ \A j \in 1 .. n - 2 : AsString(v)[j] = ToLower(text[j])
          /\ AsString(v)[n - 1] = ":" /\ AsString(v)[n] = PathDelim
      BY <2>1, <2>2, <3>1, <3>3
    <3>5. \A j \in 1 .. n : j \in 1 .. n - 2 \/ j = n - 1 \/ j = n
      OBVIOUS
    <3>6. Says(v, text, n)
      BY <2>2, <2>3, <3>4, <3>5 DEF Says
    <3> QED
      BY <1>2, <2>1, <2>3, <3>6 DEF Traces, v
  <2>4. CASE c # PathDelim
    BY <1>2, <2>1, <2>2, <2>4 DEF Traces
  <2> QED
    BY <2>3, <2>4
<1>7. CASE u.state = "parse_id"
  <2>1. /\ v.state = IF c = Wildcard THEN "parse_end" ELSE "parse_id"
        /\ v.scheme = u.scheme /\ v.path = Append(u.path, c)
    BY <1>1, <1>7 DEF Consume, Parser
  <2>2. Len(AsString(u)) = n - 1 /\ \A j \in 1 .. n - 1 : AsString(u)[j] = ToLower(text[j])
    BY <1>7 DEF Traces, Says
  <2>3. /\ Len(AsString(v)) = n /\ AsString(v)[n] = c
        /\ \A j \in 1 .. n - 1 : AsString(v)[j] = AsString(u)[j]
    <3> HIDE DEF c, v
    <3>1. PICK s : s = AsString(u)
      OBVIOUS
    <3>2. AsString(v) = Append(s, c) /\ s \in Seq(Char)
      BY <1>1, <1>3, <2>1, <3>1, LongerString
    <3> QED
      BY <1>1, <2>2, <3>1, <3>2
  <2> HIDE DEF v
  <2>4. \A j \in 1 .. n : j \in 1 .. n - 1 \/ j = n
    OBVIOUS
  <2>7. Says(v, text, n)
    BY <2>2, <2>3, <2>4 DEF Says
  <2> QED
    BY <1>2, <2>1, <2>7 DEF Traces, v, c
<1>8. CASE u.state = "parse_end"
  <2>1. v.state = "failed" /\ v.scheme = u.scheme /\ v.path = u.path
    BY <1>1, <1>8 DEF Consume, Parser
  <2>2. Says(u, text, n - 1) /\ ToLower(text[n - 1]) = Wildcard
    BY <1>8 DEF Traces
  <2>3. n - 1 # 0
    <3>1. Len(AsString(u)) = Len(u.scheme) + 2 + Len(u.path)
      BY <1>3, StringFacts
    <3>2. Len(u.scheme) \in Nat /\ Len(u.path) \in Nat
      BY <1>3
    <3>3. Len(AsString(u)) = n - 1
      BY <2>2 DEF Says
    <3>4. Len(u.scheme) + 2 + Len(u.path) # 0
      <4>1. \A i, j \in Nat : i + 2 + j # 0
        OBVIOUS
      <4> QED
        BY <3>2, <4>1
    <3> QED
      BY <3>1, <3>3, <3>4
  <2>4. n - 1 \in 1 .. n - 1
    BY <2>3
  <2> HIDE DEF v
  <2> QED
    BY <1>1, <1>2, <1>8, <2>1, <2>2, <2>4 DEF Traces, v
<1>9. CASE u.state = "failed"
  <2>1. v.state = "failed" /\ v.scheme = u.scheme /\ v.path = u.path
    BY <1>1, <1>9 DEF Consume, Parser
  <2>2. \A k \in 1 .. n - 2 : k \in 1 .. n - 1
    OBVIOUS
  <2> HIDE DEF v
  <2> QED
    BY <1>2, <1>9, <2>1, <2>2 DEF Traces, v
<1> QED
  BY <1>3, <1>4, <1>5, <1>6, <1>7, <1>8, <1>9 DEF States

\* So it is for as many characters as one likes.
LEMMA ParsingTraces ==
  ASSUME NEW text \in Seq(Char), NEW n \in 0 .. Len(text)
  PROVE  Traces(Parsing(text)[n], text, n, Parsing(text))
<1> DEFINE Bad == {m \in 0 .. Len(text) : ~Traces(Parsing(text)[m], text, m, Parsing(text))}
<1>1. Len(text) \in Nat
  OBVIOUS
<1> SUFFICES ASSUME Bad # {}
             PROVE  FALSE
  OBVIOUS
<1>2. PICK m \in Bad : \A j \in Bad : m <= j
  <2> HIDE DEF Bad
  <2>1. Bad \in SUBSET Nat
    BY <1>1 DEF Bad
  <2> QED
    BY <2>1, Least
<1>3. m # 0
  <2>1. Parsing(text)[0] = Blank
    BY <1>1, ParsingFacts
  <2>2. Traces(Blank, text, 0, Parsing(text))
    <3>1. Blank.state = "parse_scheme" /\ Blank.path = <<>> /\ Len(Blank.scheme) = 0
      BY DEF Blank
    <3> QED
      BY <3>1, BlankFacts DEF Traces
  <2> QED
    BY <2>1, <2>2
<1>4. m \in 1 .. Len(text) /\ m - 1 \in 0 .. Len(text) /\ m - 1 \notin Bad
  BY <1>1, <1>2, <1>3
<1>5. PICK u, v, p : u = Parsing(text)[m - 1] /\ v = Parsing(text)[m] /\ p = Parsing(text)
  OBVIOUS
<1>6. v = Consume(u, ToLower(text[m]))
  BY <1>1, <1>4, <1>5, ParsingFacts
<1>7. Traces(u, text, m - 1, p)
  BY <1>4, <1>5
<1>8. Traces(v, text, m, p)
  BY <1>4, <1>5, <1>6, <1>7, TracesStep
<1> QED
  BY <1>2, <1>5, <1>8

\* What the parser is after k characters depends on these alone, and not on their case.
LEMMA SameBeginning ==
  ASSUME NEW text \in Seq(Char), NEW own \in Seq(Char), NEW k \in Nat,
         k <= Len(text), k <= Len(own), \A j \in 1 .. k : own[j] = ToLower(text[j])
  PROVE  Parsing(own)[k] = Parsing(text)[k]
<1> DEFINE Bad == {m \in 0 .. k : Parsing(own)[m] # Parsing(text)[m]}
<1>1. Len(text) \in Nat /\ Len(own) \in Nat
  OBVIOUS
<1> SUFFICES ASSUME Bad # {}
             PROVE  FALSE
  OBVIOUS
<1>2. PICK m \in Bad : \A j \in Bad : m <= j
  <2> HIDE DEF Bad
  <2>1. Bad \in SUBSET Nat
    BY DEF Bad
  <2> QED
    BY <2>1, Least
<1>3. m # 0
  BY <1>1, ParsingFacts
<1>4. m \in 1 .. k /\ m - 1 \in 0 .. k /\ m - 1 \notin Bad
  BY <1>2, <1>3
<1>5. Parsing(own)[m - 1] = Parsing(text)[m - 1]
  BY <1>4
<1>6. m \in 1 .. Len(text) /\ m \in 1 .. Len(own)
  BY <1>1, <1>4
<1>7. ToLower(own[m]) = ToLower(text[m])
  BY <1>4, <1>6, LowerFacts
<1>8. Parsing(own)[m] = Parsing(text)[m]
  BY <1>1, <1>5, <1>6, <1>7, ParsingFacts
<1> QED
  BY <1>2, <1>8

\* The characters that made a valid id are all, or those up to a wildcard.
LEMMA ReadUpTo ==
  ASSUME NEW text \in Seq(Char), Valid(Parse(text))
  PROVE  \E k \in 0 .. Len(text) :
           /\ Parsing(text)[k] \in Parser
           /\ Parsing(text)[k].scheme = Parse(text).scheme
           /\ Parsing(text)[k].path = Parse(text).path
           /\ Says(Parsing(text)[k], text, k)
           /\ k < Len(text) => k # 0 /\ ToLower(text[k]) = Wildcard
<1>1. PICK n, p, q : n = Len(text) /\ p = Parsing(text) /\ q = p[n]
  OBVIOUS
<1>2. n \in Nat /\ n \in 0 .. Len(text)
  BY <1>1
<1>3. Traces(q, text, n, p)
  BY <1>1, <1>2, ParsingTraces
<1>4. Parse(text).scheme = q.scheme /\ Parse(text).path = q.path
  BY <1>1 DEF Parse, ParseText
<1>5. q.path # <<>> /\ q.state \in States /\ q \in Parser
  BY <1>3, <1>4 DEF Valid, Traces, Parser
<1>6. CASE q.state \in {"parse_id", "parse_end"}
  <2>1. Says(q, text, n)
    BY <1>3, <1>6 DEF Traces
  <2> QED
    BY <1>1, <1>2, <1>4, <1>5, <2>1
<1>7. CASE q.state = "failed"
  <2>1. PICK k \in 1 .. n - 1 :
          /\ p[k].state = "parse_end" /\ p[k].scheme = q.scheme /\ p[k].path = q.path
          /\ p[k] \in Parser /\ Says(p[k], text, k) /\ ToLower(text[k]) = Wildcard
    BY <1>3, <1>5, <1>7 DEF Traces
  <2>2. k \in 0 .. Len(text) /\ k # 0
    BY <1>1, <1>2
  <2> QED
    BY <1>1, <1>4, <2>1, <2>2
<1>8. q.state \notin {"parse_scheme", "parse_slash"}
  BY <1>3, <1>5 DEF Traces
<1> QED
  BY <1>5, <1>6, <1>7, <1>8 DEF States

\* A text of any length that makes a valid id denotes it: the text that to_string (uri.hpp)
\* gives out is parsed to the same id, and is the text the id was made from in lower case,
\* all of it or up to a wildcard.
THEOREM ValidTextsDenote == \A text \in Seq(Char) : Valid(Parse(text)) => Denotes(text)
<1> SUFFICES ASSUME NEW text \in Seq(Char), Valid(Parse(text))
             PROVE  Denotes(text)
  OBVIOUS
<1>1. PICK u : u = Parse(text)
  OBVIOUS
<1>2. PICK k \in 0 .. Len(text) :
        /\ Parsing(text)[k] \in Parser
        /\ Parsing(text)[k].scheme = u.scheme /\ Parsing(text)[k].path = u.path
        /\ Says(Parsing(text)[k], text, k)
        /\ k < Len(text) => k # 0 /\ ToLower(text[k]) = Wildcard
  BY <1>1, ReadUpTo
<1>3. PICK q, own : q = Parsing(text)[k] /\ own = AsString(u)
  OBVIOUS
<1>4. own = AsString(q)
  BY <1>2, <1>3 DEF AsString
<1>5. own \in Seq(Char)
  BY <1>2, <1>3, <1>4, StringFacts DEF Parser
<1>6. Len(own) = k /\ \A j \in 1 .. k : own[j] = ToLower(text[j])
  BY <1>2, <1>3, <1>4 DEF Says
<1>7. Parse(own) = u
  <2>1. Parsing(own)[k] = q
    BY <1>3, <1>5, <1>6, SameBeginning
  <2>2. Parse(own) = [scheme |-> q.scheme, path |-> q.path]
    BY <1>6, <2>1 DEF Parse, ParseText
  <2>3. u = [scheme |-> u.scheme, path |-> u.path]
    BY <1>1 DEF Parse
  <2> QED
    BY <1>2, <1>3, <2>2, <2>3
<1>8. k < Len(text) => own[k] = Wildcard
  <2> SUFFICES ASSUME k < Len(text)
               PROVE  own[k] = Wildcard
    OBVIOUS
  <2>1. k \in 1 .. k /\ ToLower(text[k]) = Wildcard
    BY <1>2
  <2> QED
    BY <1>6, <2>1
<1> QED
  BY <1>1, <1>3, <1>6, <1>7, <1>8 DEF Denotes

\* So no state object has an id that its own text does not find, in whatever state.
THEOREM TextsDenote == Spec => []TextsDenoteIds
<1>1. \A n \in 0 .. 5 : [1 .. n -> Char] \subseteq Seq(Char)
  OBVIOUS
<1>2. Misread = {}
  BY <1>1, ValidTextsDenote DEF Misread
<1>3. TextsDenoteIds
  BY <1>2 DEF TextsDenoteIds
<1> QED
  BY <1>3, PTL

================================================================================
