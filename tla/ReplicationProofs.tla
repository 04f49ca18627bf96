--------------------------- MODULE ReplicationProofs ---------------------------
(***************************************************************************)
(* Replication keeps its types, leaves no gap between a replica and its      *)
(* client, and implements the grow-only store, for any nodes, keys, values  *)
(* and bounds.                                                              *)
(***************************************************************************)
EXTENDS Replication, TLAPS

--------------------------------------------------------------------------------
(***************************************************************************)
(* Merging.                                                                 *)
(***************************************************************************)

\* A map is a function from some slots to numbers.
LEMMA MapFacts ==
  ASSUME NEW m \in Map
  PROVE  /\ DOMAIN m \subseteq Slot
         /\ \A k \in DOMAIN m : m[k] \in Value /\ m[k] \in Nat
         /\ m = [k \in DOMAIN m |-> m[k]]
         /\ \A k : At(m, k) \in Nat
  BY ValuesAreNat DEF Map, At

\* Whatever maps slots to values is a map.
LEMMA IsMap ==
  ASSUME NEW S \in SUBSET Slot, NEW f \in [S -> Value]
  PROVE  f \in Map
  BY DEF Map

LEMMA EmptyIsMap == EmptyMap \in Map
<1> DEFINE f == [k \in {} |-> 0]
<1>1. f \in [{} -> Value]
  OBVIOUS
<1>2. {} \in SUBSET Slot
  OBVIOUS
<1>3. f \in Map
  BY <1>1, <1>2, IsMap
<1> QED
  BY <1>3 DEF EmptyMap

LEMMA EntryIsMap ==
  ASSUME NEW k \in Slot, NEW v \in Value
  PROVE  Entry(k, v) \in Map
<1>1. Entry(k, v) \in [{k} -> Value]
  BY DEF Entry
<1> QED
  BY <1>1, IsMap

\* Merging yields a map: no value appears that neither map has.
LEMMA MergeIsMap ==
  ASSUME NEW a \in Map, NEW b \in Map
  PROVE  Merge(a, b) \in Map
<1> DEFINE S == DOMAIN a \cup DOMAIN b
<1>1. S \in SUBSET Slot
  BY MapFacts
<1>2. ASSUME NEW k \in S
      PROVE  (IF k \in DOMAIN b /\ At(a, k) < b[k] THEN b[k] ELSE At(a, k)) \in Value
  <2>1. CASE k \in DOMAIN a
    BY <2>1, MapFacts DEF At
  <2>2. CASE k \notin DOMAIN a
    <3>1. k \in DOMAIN b /\ At(a, k) = 0
      BY <2>2 DEF At
    <3>2. b[k] \in Nat /\ b[k] \in Value
      BY <3>1, MapFacts
    <3> QED
      BY <3>1, <3>2
  <2> QED
    BY <2>1, <2>2
<1>3. Merge(a, b) \in [S -> Value]
  BY <1>2 DEF Merge
<1> QED
  BY <1>1, <1>3, IsMap

\* The result includes both maps, ...
LEMMA MergeIncludes ==
  ASSUME NEW a \in Map, NEW b \in Map
  PROVE  Includes(Merge(a, b), a) /\ Includes(Merge(a, b), b)
<1>1. \A k \in DOMAIN a : a[k] \in Nat
  BY MapFacts
<1>2. \A k \in DOMAIN b : b[k] \in Nat /\ At(a, k) \in Nat
  BY MapFacts
<1> QED
  BY <1>1, <1>2 DEF Includes, Merge, At

\* ... and is the least map that does.
LEMMA MergeIsLeast ==
  ASSUME NEW a \in Map, NEW b \in Map, NEW c \in Map,
         Includes(c, a), Includes(c, b)
  PROVE  Includes(c, Merge(a, b))
<1>1. SUFFICES ASSUME NEW k \in DOMAIN a \cup DOMAIN b
               PROVE  k \in DOMAIN c /\ Merge(a, b)[k] <= c[k]
  BY DEF Includes, Merge
<1>2. k \in DOMAIN c
  BY DEF Includes
<1>3. c[k] \in Nat
  BY <1>2, MapFacts
<1>4. Merge(a, b)[k] = IF k \in DOMAIN b /\ At(a, k) < b[k] THEN b[k] ELSE At(a, k)
  BY DEF Merge
<1>5. At(a, k) <= c[k]
  BY <1>3 DEF At, Includes
<1>6. k \in DOMAIN b => b[k] <= c[k]
  BY DEF Includes
<1> QED
  BY <1>2, <1>4, <1>5, <1>6

LEMMA IncludesIsReflexive ==
  ASSUME NEW a \in Map
  PROVE  Includes(a, a)
  BY MapFacts DEF Includes

LEMMA IncludesIsTransitive ==
  ASSUME NEW a \in Map, NEW b \in Map, NEW c \in Map, Includes(a, b), Includes(b, c)
  PROVE  Includes(a, c)
<1>1. SUFFICES ASSUME NEW k \in DOMAIN c
               PROVE  k \in DOMAIN a /\ c[k] <= a[k]
  BY DEF Includes
<1>2. k \in DOMAIN b /\ k \in DOMAIN a /\ c[k] <= b[k] /\ b[k] <= a[k]
  BY DEF Includes
<1>3. c[k] \in Nat /\ b[k] \in Nat /\ a[k] \in Nat
  BY <1>2, MapFacts
<1> QED
  BY <1>2, <1>3

LEMMA AtGrows ==
  ASSUME NEW a \in Map, NEW b \in Map, NEW k, Includes(a, b)
  PROVE  At(b, k) <= At(a, k)
<1>1. At(a, k) \in Nat
  BY MapFacts
<1>2. CASE k \in DOMAIN b
  BY <1>2 DEF Includes, At
<1>3. CASE k \notin DOMAIN b
  BY <1>1, <1>3 DEF At
<1> QED
  BY <1>2, <1>3

\* A delta is a map.
LEMMA DeltaIsMap ==
  ASSUME NEW a \in Map, NEW b \in Map
  PROVE  Delta(a, b) \in Map
<1>1. CASE type = "gcounter"
  <2> DEFINE S == {j \in DOMAIN b : At(a, j) < b[j]}
  <2>1. S \in SUBSET Slot
    BY MapFacts
  <2>2. GCounterDelta(a, b) \in [S -> Value]
    BY MapFacts DEF GCounterDelta
  <2>3. GCounterDelta(a, b) \in Map
    BY <2>1, <2>2, IsMap
  <2> QED
    BY <1>1, <2>3 DEF Delta
<1>2. CASE type # "gcounter"
  <2> DEFINE S == {j \in DOMAIN b : At(a, j) # b[j]}
  <2>1. S \in SUBSET Slot
    BY MapFacts
  <2>2. PICK c \in Map : c = Merge(a, b)
    BY MergeIsMap
  <2>3. DOMAIN c = DOMAIN a \cup DOMAIN b
    BY <2>2 DEF Merge
  <2>4. \A k \in S : At(c, k) \in Value
    BY <2>3, MapFacts DEF At
  <2>5. GMapDelta(a, b) \in [S -> Value]
    BY <2>2, <2>4 DEF GMapDelta
  <2>6. GMapDelta(a, b) \in Map
    BY <2>1, <2>5, IsMap
  <2> QED
    BY <1>2, <2>6 DEF Delta
<1> QED
  BY <1>1, <1>2

\* A delta has every value that is new, except that of a new entry with the
\* default value.
LEMMA DeltaIsComplete ==
  ASSUME NEW a \in Map, NEW b \in Map, NEW k
  PROVE  \/ At(Merge(a, b), k) <= At(a, k)
         \/ At(Merge(a, b), k) <= At(Delta(a, b), k)
<1>1. At(a, k) \in Nat
  BY MapFacts
<1>2. CASE k \in DOMAIN b /\ At(a, k) < b[k]
  <2>1. b[k] \in Nat
    BY <1>2, MapFacts
  <2>2. k \in DOMAIN Merge(a, b) /\ Merge(a, b)[k] = b[k]
    BY <1>2 DEF Merge
  <2>3. At(Merge(a, b), k) = b[k]
    BY <2>2 DEF At
  <2>4. CASE type = "gcounter"
    <3>1. k \in DOMAIN Delta(a, b) /\ Delta(a, b)[k] = b[k]
      BY <1>2, <2>4 DEF Delta, GCounterDelta
    <3> QED
      BY <2>1, <2>3, <3>1 DEF At
  <2>5. CASE type # "gcounter"
    <3>1. At(a, k) # b[k]
      BY <1>1, <1>2, <2>1
    <3>2. k \in DOMAIN Delta(a, b) /\ Delta(a, b)[k] = At(Merge(a, b), k)
      BY <1>2, <2>5, <3>1 DEF Delta, GMapDelta
    <3>3. At(Delta(a, b), k) = At(Merge(a, b), k)
      BY <3>2 DEF At
    <3> QED
      BY <2>1, <2>3, <3>3
  <2> QED
    BY <2>4, <2>5
<1>3. CASE ~(k \in DOMAIN b /\ At(a, k) < b[k])
  <2>1. CASE k \in DOMAIN a \cup DOMAIN b
    <3>1. k \in DOMAIN Merge(a, b) /\ Merge(a, b)[k] = At(a, k)
      BY <1>3, <2>1 DEF Merge
    <3> QED
      BY <1>1, <3>1 DEF At
  <2>2. CASE k \notin DOMAIN a \cup DOMAIN b
    <3>1. k \notin DOMAIN Merge(a, b)
      BY <2>2 DEF Merge
    <3> QED
      BY <1>1, <3>1 DEF At
  <2> QED
    BY <2>1, <2>2
<1> QED
  BY <1>2, <1>3

--------------------------------------------------------------------------------
(***************************************************************************)
(* Merging is a join, and a delta is as good as what it was made from.      *)
(***************************************************************************)

\* Merge takes the greater value in every slot.
LEMMA MergeAt ==
  ASSUME NEW a \in Map, NEW b \in Map
  PROVE  /\ DOMAIN Merge(a, b) = DOMAIN a \cup DOMAIN b
         /\ \A k : At(Merge(a, b), k) = IF At(a, k) < At(b, k) THEN At(b, k) ELSE At(a, k)
<1>1. DOMAIN Merge(a, b) = DOMAIN a \cup DOMAIN b
  BY DEF Merge
<1>2. ASSUME NEW k
      PROVE  At(Merge(a, b), k) = IF At(a, k) < At(b, k) THEN At(b, k) ELSE At(a, k)
  <2>1. At(a, k) \in Nat
    BY MapFacts
  <2>2. CASE k \in DOMAIN a \cup DOMAIN b
    <3>1. At(Merge(a, b), k)
            = IF k \in DOMAIN b /\ At(a, k) < b[k] THEN b[k] ELSE At(a, k)
      BY <2>2 DEF At, Merge
    <3> QED
      BY <2>1, <3>1 DEF At
  <2>3. CASE k \notin DOMAIN a \cup DOMAIN b
    BY <2>3, <1>1 DEF At
  <2> QED
    BY <2>2, <2>3
<1> QED
  BY <1>1, <1>2

\* A map is its slots and their values.
LEMMA SameMap ==
  ASSUME NEW a \in Map, NEW b \in Map, DOMAIN a = DOMAIN b, \A k : At(a, k) = At(b, k)
  PROVE  a = b
<1>1. \A k \in DOMAIN a : a[k] = b[k]
  BY DEF At
<1>2. a = [k \in DOMAIN a |-> a[k]] /\ b = [k \in DOMAIN b |-> b[k]]
  BY MapFacts
<1> QED
  BY <1>1, <1>2

\* What a replica or a client has merged does not depend on the order, the grouping or
\* the repetition of the messages it came in: merge is commutative, associative and
\* idempotent, also in which slots have an entry.
THEOREM MergeIsJoin ==
  ASSUME NEW a \in Map, NEW b \in Map, NEW c \in Map
  PROVE  /\ Merge(a, b) = Merge(b, a)
         /\ Merge(Merge(a, b), c) = Merge(a, Merge(b, c))
         /\ Merge(a, a) = a
<1>1. \A k : At(a, k) \in Nat /\ At(b, k) \in Nat /\ At(c, k) \in Nat
  BY MapFacts
<1>2. PICK ab, ba, bc, aa : /\ ab = Merge(a, b) /\ ba = Merge(b, a)
                            /\ bc = Merge(b, c) /\ aa = Merge(a, a)
  OBVIOUS
<1>3. ab \in Map /\ ba \in Map /\ bc \in Map /\ aa \in Map
  BY <1>2, MergeIsMap
<1>4. /\ DOMAIN ab = DOMAIN a \cup DOMAIN b /\ DOMAIN ba = DOMAIN a \cup DOMAIN b
      /\ DOMAIN bc = DOMAIN b \cup DOMAIN c /\ DOMAIN aa = DOMAIN a
  BY <1>2, MergeAt
<1>5. \A k : /\ At(ab, k) = IF At(a, k) < At(b, k) THEN At(b, k) ELSE At(a, k)
             /\ At(ba, k) = IF At(b, k) < At(a, k) THEN At(a, k) ELSE At(b, k)
             /\ At(bc, k) = IF At(b, k) < At(c, k) THEN At(c, k) ELSE At(b, k)
             /\ At(aa, k) = At(a, k)
  BY <1>2, MergeAt
<1>6. ab = ba
  <2>1. \A k : At(ab, k) = At(ba, k)
    BY <1>1, <1>5
  <2> QED
    BY <1>3, <1>4, <2>1, SameMap
<1>7. PICK l, r : l = Merge(ab, c) /\ r = Merge(a, bc)
  OBVIOUS
<1>8. l = r
  <2>1. l \in Map /\ r \in Map /\ DOMAIN l = DOMAIN r
    BY <1>3, <1>4, <1>7, MergeIsMap, MergeAt
  <2>2. \A k : At(Merge(ab, c), k) = IF At(ab, k) < At(c, k) THEN At(c, k) ELSE At(ab, k)
    BY <1>3, MergeAt
  <2>3. \A k : At(Merge(a, bc), k) = IF At(a, k) < At(bc, k) THEN At(bc, k) ELSE At(a, k)
    BY <1>3, MergeAt
  <2>4. \A k : At(l, k) = At(r, k)
    BY <1>1, <1>5, <1>7, <2>2, <2>3
  <2> QED
    BY <2>1, <2>4, SameMap
<1>9. aa = a
  BY <1>3, <1>4, <1>5, SameMap
<1> QED
  BY <1>2, <1>6, <1>7, <1>8, <1>9

\* Who has what a replica had before it merged a map learns as much from the delta of
\* that merge as from the map: forwarding deltas in place of what was received, to
\* clients and to other nodes, loses no value of a gcounter or of a gmap.
THEOREM DeltasSuffice ==
  ASSUME NEW a \in Map, NEW b \in Map, NEW d \in Map, Includes(d, a)
  PROVE  \A k : At(Merge(d, Delta(a, b)), k) = At(Merge(d, b), k)
<1> SUFFICES ASSUME NEW k
             PROVE  At(Merge(d, Delta(a, b)), k) = At(Merge(d, b), k)
  OBVIOUS
<1>1. PICK delta : delta = Delta(a, b)
  OBVIOUS
<1>2. delta \in Map
  BY <1>1, DeltaIsMap
<1>3. At(a, k) \in Nat /\ At(b, k) \in Nat /\ At(d, k) \in Nat /\ At(delta, k) \in Nat
  BY <1>2, MapFacts
<1>4. At(a, k) <= At(d, k)
  BY AtGrows
<1>5. /\ At(Merge(d, delta), k) = IF At(d, k) < At(delta, k) THEN At(delta, k) ELSE At(d, k)
      /\ At(Merge(d, b), k) = IF At(d, k) < At(b, k) THEN At(b, k) ELSE At(d, k)
      /\ At(Merge(a, b), k) = IF At(a, k) < At(b, k) THEN At(b, k) ELSE At(a, k)
  BY <1>2, MergeAt
<1>6. CASE k \in DOMAIN b
  <2>1. At(b, k) = b[k]
    BY <1>6 DEF At
  <2>2. CASE type = "gcounter"
    <3>1. At(delta, k) = IF At(a, k) < At(b, k) THEN At(b, k) ELSE 0
      BY <1>1, <1>6, <2>1, <2>2 DEF Delta, GCounterDelta, At
    <3> QED
      BY <1>1, <1>3, <1>4, <1>5, <3>1
  <2>3. CASE type # "gcounter"
    <3>1. At(delta, k) = IF At(a, k) # At(b, k) THEN At(Merge(a, b), k) ELSE 0
      <4>1. PICK c : c = Merge(a, b)
        OBVIOUS
      <4>2. delta = [j \in {i \in DOMAIN b : At(a, i) # b[i]} |-> At(c, j)]
        BY <1>1, <2>3, <4>1 DEF Delta, GMapDelta
      <4>3. k \in DOMAIN delta <=> At(a, k) # At(b, k)
        BY <1>6, <2>1, <4>2
      <4>4. k \in DOMAIN delta => delta[k] = At(c, k)
        BY <4>2
      <4> QED
        BY <4>1, <4>3, <4>4 DEF At
    <3> QED
      BY <1>1, <1>3, <1>4, <1>5, <3>1
  <2> QED
    BY <2>2, <2>3
<1>7. CASE k \notin DOMAIN b
  <2>1. At(b, k) = 0
    BY <1>7 DEF At
  <2>2. k \notin DOMAIN delta
    BY <1>1, <1>7 DEF Delta, GCounterDelta, GMapDelta
  <2>3. At(delta, k) = 0
    BY <2>2 DEF At
  <2> QED
    BY <1>1, <1>3, <1>5, <2>1, <2>3
<1> QED
  BY <1>6, <1>7

--------------------------------------------------------------------------------
(***************************************************************************)
(* Types.                                                                   *)
(***************************************************************************)

\* What merging into a replica leaves.
LEMMA OnPublishFacts ==
  ASSUME TypeOK, NEW n \in Node, NEW map \in Map, OnPublish(n, map)
  PROVE  /\ cvrdt' \in [Node -> Map] /\ buffer' \in [Node -> Map]
         /\ cvrdt'[n] = Merge(cvrdt[n], map)
         /\ buffer'[n] = Merge(buffer[n], Delta(cvrdt[n], map))
         /\ \A m \in Node \ {n} : cvrdt'[m] = cvrdt[m] /\ buffer'[m] = buffer[m]
<1>1. cvrdt[n] \in Map /\ buffer[n] \in Map
  BY DEF TypeOK
<1>2. Delta(cvrdt[n], map) \in Map
  BY <1>1, DeltaIsMap
<1>3. Merge(cvrdt[n], map) \in Map /\ Merge(buffer[n], Delta(cvrdt[n], map)) \in Map
  BY <1>1, <1>2, MergeIsMap
<1> QED
  BY <1>3 DEF TypeOK, OnPublish

LEMMA InitTypes == Init => TypeOK
  BY EmptyIsMap, BoundsAreNat DEF Init, TypeOK

\* A client's change keeps the types; the rest of Publish is about two fields.
LEMMA UpdatesTypes ==
  ASSUME TypeOK, NEW n \in Node, NEW k \in Slot, NEW v \in Value, Updates(n, k, v)
  PROVE  /\ cvrdt' \in [Node -> Map] /\ buffer' \in [Node -> Map]
         /\ type' = type /\ view' = view /\ wire' = wire /\ faults' = faults
         /\ updates' \in 0 .. MaxUpdates
<1>1. Entry(k, v) \in Map
  BY EntryIsMap
<1>2. OnPublish(n, Entry(k, v))
  BY DEF Updates
<1>3. cvrdt' \in [Node -> Map] /\ buffer' \in [Node -> Map]
  BY <1>1, <1>2, OnPublishFacts
<1> QED
  BY <1>3, BoundsAreNat DEF Updates, TypeOK

LEMMA PublishTypes ==
  ASSUME TypeOK, NEW n \in Node, NEW k \in Slot, NEW v \in Value, Publish(n, k, v)
  PROVE  TypeOK'
<1>1. Updates(n, k, v)
  BY DEF Publish
<1>2. /\ cvrdt' \in [Node -> Map] /\ buffer' \in [Node -> Map]
      /\ type' = type /\ view' = view /\ wire' = wire /\ faults' = faults
      /\ updates' \in 0 .. MaxUpdates
  BY <1>1, UpdatesTypes
<1>3. Merge(object[n], Entry(k, v)) \in Map /\ Merge(outbox[n], Entry(k, v)) \in Map
  BY EntryIsMap, MergeIsMap DEF TypeOK
<1>4. object' \in [Node -> Map] /\ outbox' \in [Node -> Map]
  BY <1>3 DEF Publish, TypeOK
<1> QED
  BY <1>2, <1>4 DEF TypeOK

\* A flush sends maps and leaves an empty one.
LEMMA FlushTypes ==
  ASSUME TypeOK, NEW n \in Node, FlushBuffer(n)
  PROVE  TypeOK'
<1>1. {[from |-> n, to |-> m, map |-> outbox[n]] :
        m \in {k \in view[n] : outbox[n] # EmptyMap}} \subseteq Message
  BY DEF TypeOK, Message
<1>2. wire' \in SUBSET Message
  BY <1>1 DEF FlushBuffer, TypeOK
<1>3. outbox' \in [Node -> Map]
  BY EmptyIsMap DEF FlushBuffer, TypeOK
<1> QED
  BY <1>2, <1>3 DEF FlushBuffer, localVars, TypeOK

\* Which entry a client's action publishes.
LEMMA ClientPublishes ==
  ASSUME NEW n \in Node, Increment(n) \/ Set(n)
  PROVE  \E k \in Slot : \E v \in Value : Publish(n, k, v)
<1>1. CASE Increment(n)
  BY <1>1 DEF Increment, Slot
<1>2. CASE Set(n)
  BY <1>2 DEF Set, Slot
<1> QED
  BY <1>1, <1>2

LEMMA NextTypes == TypeOK /\ [Next]_vars => TypeOK'
<1> SUFFICES ASSUME TypeOK, [Next]_vars
             PROVE  TypeOK'
  OBVIOUS
<1>1. CASE UNCHANGED vars
  BY <1>1 DEF vars, localVars, TypeOK
<1>2. ASSUME NEW n \in Node, Increment(n) \/ Set(n)
      PROVE  TypeOK'
  <2>1. PICK k \in Slot, v \in Value : Publish(n, k, v)
    BY <1>2, ClientPublishes
  <2> QED
    BY <2>1, PublishTypes
<1>3. ASSUME NEW n \in Node, WriteLocal(n)
      PROVE  TypeOK'
  <2>1. PICK k \in Slot, v \in Value : Updates(n, k, v)
    BY <1>3 DEF WriteLocal, Slot
  <2>2. /\ cvrdt' \in [Node -> Map] /\ buffer' \in [Node -> Map]
        /\ type' = type /\ view' = view /\ wire' = wire /\ faults' = faults
        /\ updates' \in 0 .. MaxUpdates
    BY <2>1, UpdatesTypes
  <2> QED
    BY <1>3, <2>2 DEF WriteLocal, TypeOK
<1>4. ASSUME NEW n \in Node, TickNotify(n)
      PROVE  TypeOK'
  <2>1. Merge(object[n], buffer[n]) \in Map
    BY MergeIsMap DEF TypeOK
  <2>2. object' \in [Node -> Map] /\ buffer' \in [Node -> Map]
    BY <1>4, <2>1, EmptyIsMap DEF TickNotify, TypeOK
  <2> QED
    BY <1>4, <2>2 DEF TickNotify, TypeOK
<1>5. ASSUME NEW n \in Node, TickState(n)
      PROVE  TypeOK'
  <2>1. Merge(outbox[n], cvrdt[n]) \in Map
    BY MergeIsMap DEF TypeOK
  <2>2. outbox' \in [Node -> Map]
    BY <1>5, <2>1 DEF TickState, TypeOK
  <2> QED
    BY <1>5, <2>2 DEF TickState, localVars, TypeOK
<1>6. ASSUME NEW n \in Node, TickBuffer(n)
      PROVE  TypeOK'
  BY <1>6, FlushTypes DEF TickBuffer
<1>7. ASSUME NEW n \in Node, OnUpdates(n)
      PROVE  TypeOK'
  <2>1. PICK m \in wire : /\ OnPublish(n, m.map)
                          /\ wire' = wire \ {m}
                          /\ UNCHANGED <<type, object, outbox, view, updates, faults>>
    BY <1>7 DEF OnUpdates, OnUpdatesFrom
  <2>2. m.map \in Map
    BY DEF TypeOK, Message
  <2>3. cvrdt' \in [Node -> Map] /\ buffer' \in [Node -> Map]
    BY <2>1, <2>2, OnPublishFacts
  <2> QED
    BY <2>1, <2>3 DEF TypeOK
<1>8. ASSUME NEW n \in Node, NEW m \in Node, Find(n, m)
      PROVE  TypeOK'
  BY <1>8 DEF Find, localVars, TypeOK
<1>9. ASSUME NEW n \in Node, NEW m \in Node, ConnectionLost(n, m)
      PROVE  TypeOK'
  BY <1>9, BoundsAreNat DEF ConnectionLost, localVars, TypeOK
<1>10. ASSUME NEW m \in wire, Lose(m)
       PROVE  TypeOK'
  BY <1>10, BoundsAreNat DEF Lose, localVars, TypeOK
<1> QED
  BY <1>1, <1>2, <1>3, <1>4, <1>5, <1>6, <1>7, <1>8, <1>9, <1>10
     DEF Next, Client, OnNode

\* Every variable keeps its type: replicas, buffers and messages hold maps from
\* slots to values that clients may write.
THEOREM TypeCorrect == Spec => []TypeOK
<1> QED
  BY InitTypes, NextTypes, PTL DEF Spec

--------------------------------------------------------------------------------
(***************************************************************************)
(* No gap between a replica and its client.                                 *)
(***************************************************************************)

\* Nothing is missing where nothing is.
LEMMA InitNoGap == Init => DeltasLeaveNoGap
  BY DEF Init, DeltasLeaveNoGap, EmptyMap

\* A replica that merges adds all that is new to its delta buffer.
LEMMA OnPublishKeepsNoGap ==
  ASSUME TypeOK, DeltasLeaveNoGap, NEW n \in Node, NEW map \in Map,
         OnPublish(n, map), object' \in [Node -> Map],
         \A m \in Node : Includes(object'[m], object[m])
  PROVE  DeltasLeaveNoGap'
<1> SUFFICES ASSUME NEW m \in Node, NEW k \in DOMAIN cvrdt'[m]
             PROVE  \/ cvrdt'[m][k] <= At(object'[m], k)
                    \/ cvrdt'[m][k] <= At(buffer'[m], k)
  BY DEF DeltasLeaveNoGap, At
<1>1. /\ cvrdt' \in [Node -> Map] /\ buffer' \in [Node -> Map]
      /\ cvrdt'[n] = Merge(cvrdt[n], map)
      /\ buffer'[n] = Merge(buffer[n], Delta(cvrdt[n], map))
      /\ \A i \in Node \ {n} : cvrdt'[i] = cvrdt[i] /\ buffer'[i] = buffer[i]
  BY OnPublishFacts
<1>2. /\ cvrdt[m] \in Map /\ buffer[m] \in Map /\ object[m] \in Map
      /\ cvrdt'[m] \in Map /\ buffer'[m] \in Map /\ object'[m] \in Map
  BY <1>1 DEF TypeOK
<1>3. At(object[m], k) <= At(object'[m], k)
  BY <1>2, AtGrows
<1>4. /\ At(cvrdt[m], k) \in Nat /\ At(cvrdt'[m], k) \in Nat
      /\ At(object[m], k) \in Nat /\ At(object'[m], k) \in Nat
      /\ At(buffer[m], k) \in Nat /\ At(buffer'[m], k) \in Nat
  BY <1>2, MapFacts
<1>5. cvrdt'[m][k] = At(cvrdt'[m], k)
  BY DEF At
<1>6. At(cvrdt[m], k) <= At(object[m], k) \/ At(cvrdt[m], k) <= At(buffer[m], k)
  <2>1. CASE k \in DOMAIN cvrdt[m]
    BY <2>1 DEF DeltasLeaveNoGap, At
  <2>2. CASE k \notin DOMAIN cvrdt[m]
    <3>1. At(cvrdt[m], k) = 0
      BY <2>2 DEF At
    <3> QED
      BY <1>4, <3>1
  <2> QED
    BY <2>1, <2>2
<1>7. CASE m # n
  <2>1. cvrdt'[m] = cvrdt[m] /\ buffer'[m] = buffer[m]
    BY <1>1, <1>7
  <2> QED
    BY <1>3, <1>4, <1>5, <1>6, <2>1
<1>8. CASE m = n
  <2>1. PICK d \in Map : d = Delta(cvrdt[n], map)
    BY <1>2, <1>8, DeltaIsMap
  <2>2. Includes(buffer'[n], buffer[n]) /\ Includes(buffer'[n], d)
    BY <1>1, <1>2, <1>8, <2>1, MergeIncludes
  <2>3. At(buffer[n], k) <= At(buffer'[n], k) /\ At(d, k) <= At(buffer'[n], k)
    BY <1>2, <1>8, <2>1, <2>2, AtGrows
  <2>4. At(cvrdt'[n], k) <= At(cvrdt[n], k) \/ At(cvrdt'[n], k) <= At(d, k)
    BY <1>1, <1>2, <1>8, <2>1, DeltaIsComplete
  <2>5. At(d, k) \in Nat
    BY <2>1, MapFacts
  <2> QED
    BY <1>3, <1>4, <1>5, <1>6, <1>8, <2>3, <2>4, <2>5
<1> QED
  BY <1>7, <1>8

\* A notification moves the gap from the delta buffer into the object.
LEMMA TickNotifyKeepsNoGap ==
  ASSUME TypeOK, DeltasLeaveNoGap, NEW n \in Node, TickNotify(n)
  PROVE  DeltasLeaveNoGap'
<1> SUFFICES ASSUME NEW m \in Node, NEW k \in DOMAIN cvrdt[m]
             PROVE  \/ cvrdt[m][k] <= At(object'[m], k)
                    \/ cvrdt[m][k] <= At(buffer'[m], k)
  BY DEF DeltasLeaveNoGap, At, TickNotify
<1>1. cvrdt[m] \in Map /\ buffer[m] \in Map /\ object[m] \in Map
  BY DEF TypeOK
<1>2. cvrdt[m][k] <= At(object[m], k) \/ cvrdt[m][k] <= At(buffer[m], k)
  BY DEF DeltasLeaveNoGap
<1>3. CASE m # n
  BY <1>2, <1>3 DEF TickNotify, TypeOK
<1>4. CASE m = n
  <2>1. PICK new \in Map : new = Merge(object[n], buffer[n])
    BY <1>1, <1>4, MergeIsMap
  <2>2. object'[n] = new
    BY <2>1 DEF TickNotify, TypeOK
  <2>3. Includes(new, object[n]) /\ Includes(new, buffer[n])
    BY <1>1, <1>4, <2>1, MergeIncludes
  <2>4. At(object[n], k) <= At(new, k) /\ At(buffer[n], k) <= At(new, k)
    BY <1>1, <1>4, <2>1, <2>3, AtGrows
  <2>5. /\ At(object[n], k) \in Nat /\ At(new, k) \in Nat /\ At(buffer[n], k) \in Nat
        /\ cvrdt[n][k] \in Nat
    BY <1>1, <1>4, <2>1, MapFacts
  <2> QED
    BY <1>2, <1>4, <2>2, <2>4, <2>5
<1> QED
  BY <1>3, <1>4

LEMMA NextNoGap ==
  TypeOK /\ TypeOK' /\ DeltasLeaveNoGap /\ [Next]_vars => DeltasLeaveNoGap'
<1> SUFFICES ASSUME TypeOK, TypeOK', DeltasLeaveNoGap, [Next]_vars
             PROVE  DeltasLeaveNoGap'
  OBVIOUS
<1>1. CASE UNCHANGED localVars
  BY <1>1 DEF localVars, DeltasLeaveNoGap, At
<1>2. ASSUME NEW n \in Node, NEW map \in Map, OnPublish(n, map), object' = object
      PROVE  DeltasLeaveNoGap'
  <2>1. object' \in [Node -> Map] /\ \A m \in Node : Includes(object'[m], object[m])
    BY <1>2, IncludesIsReflexive DEF TypeOK
  <2> QED
    BY <1>2, <2>1, OnPublishKeepsNoGap
<1>3. ASSUME NEW n \in Node, Increment(n) \/ Set(n)
      PROVE  DeltasLeaveNoGap'
  <2>1. PICK k \in Slot, v \in Value : Publish(n, k, v)
    BY <1>3, ClientPublishes
  <2>2. Entry(k, v) \in Map /\ OnPublish(n, Entry(k, v))
    BY <2>1, EntryIsMap DEF Publish, Updates
  <2>3. object' \in [Node -> Map]
    BY DEF TypeOK
  <2>4. ASSUME NEW m \in Node
        PROVE  Includes(object'[m], object[m])
    <3>1. object[m] \in Map
      BY DEF TypeOK
    <3>2. CASE m = n
      <4>1. object'[n] = Merge(object[n], Entry(k, v))
        BY <2>1 DEF Publish, TypeOK
      <4> QED
        BY <2>2, <3>1, <3>2, <4>1, MergeIncludes
    <3>3. CASE m # n
      <4>1. object'[m] = object[m]
        BY <2>1, <3>3 DEF Publish, TypeOK
      <4> QED
        BY <3>1, <4>1, IncludesIsReflexive
    <3> QED
      BY <3>2, <3>3
  <2> QED
    BY <2>2, <2>3, <2>4, OnPublishKeepsNoGap
<1>4. ASSUME NEW n \in Node, WriteLocal(n)
      PROVE  DeltasLeaveNoGap'
  <2>1. PICK k \in Slot, v \in Value : Updates(n, k, v)
    BY <1>4 DEF WriteLocal, Slot
  <2>2. Entry(k, v) \in Map /\ OnPublish(n, Entry(k, v))
    BY <2>1, EntryIsMap DEF Updates
  <2>3. object' = object
    BY <1>4 DEF WriteLocal
  <2> QED
    BY <1>2, <2>2, <2>3
<1>5. ASSUME NEW n \in Node, OnUpdates(n)
      PROVE  DeltasLeaveNoGap'
  <2>1. PICK m \in wire : OnPublish(n, m.map) /\ object' = object
    BY <1>5 DEF OnUpdates, OnUpdatesFrom
  <2>2. m.map \in Map
    BY DEF TypeOK, Message
  <2> QED
    BY <1>2, <2>1, <2>2
<1>6. ASSUME NEW n \in Node, TickState(n) \/ TickBuffer(n)
      PROVE  UNCHANGED localVars
  BY <1>6 DEF TickState, TickBuffer, FlushBuffer
<1>7. ASSUME NEW n \in Node, NEW m \in Node, Find(n, m) \/ ConnectionLost(n, m)
      PROVE  UNCHANGED localVars
  BY <1>7 DEF Find, ConnectionLost
<1>8. ASSUME NEW m \in wire, Lose(m)
      PROVE  UNCHANGED localVars
  BY <1>8 DEF Lose
<1> QED
  BY <1>1, <1>3, <1>4, <1>5, <1>6, <1>7, <1>8, TickNotifyKeepsNoGap
     DEF Next, Client, OnNode, vars

\* What a replica has and its client has not is in the delta buffer, for
\* gcounter and gmap: the deltas of merge suffice.
THEOREM NoGap == Spec => []DeltasLeaveNoGap
<1> QED
  BY InitTypes, NextTypes, InitNoGap, NextNoGap, PTL DEF Spec

--------------------------------------------------------------------------------
(***************************************************************************)
(* Refinement.                                                              *)
(***************************************************************************)

\* What waits to be sent or is under way, its sender has.
SentIsKnown ==
  /\ \A n \in Node : Includes(cvrdt[n], outbox[n])
  /\ \A m \in wire : Includes(cvrdt[m.from], m.map)

\* No step takes anything from a replica.
LEMMA ReplicasGrow ==
  ASSUME TypeOK, [Next]_vars, NEW n \in Node
  PROVE  Includes(cvrdt'[n], cvrdt[n])
<1>1. cvrdt[n] \in Map
  BY DEF TypeOK
<1>2. CASE cvrdt' = cvrdt
  BY <1>1, <1>2, IncludesIsReflexive
<1>3. ASSUME NEW i \in Node, NEW map \in Map, OnPublish(i, map)
      PROVE  Includes(cvrdt'[n], cvrdt[n])
  <2>1. /\ cvrdt'[i] = Merge(cvrdt[i], map)
        /\ \A m \in Node \ {i} : cvrdt'[m] = cvrdt[m]
    BY <1>3, OnPublishFacts
  <2> QED
    BY <1>1, <2>1, MergeIncludes, IncludesIsReflexive
<1>4. ASSUME NEW i \in Node, Client(i)
      PROVE  \E map \in Map : OnPublish(i, map)
  <2>1. \E k \in Slot : \E v \in Value : Updates(i, k, v)
    BY <1>4, ClientPublishes DEF Client, Publish, WriteLocal, Slot
  <2> QED
    BY <2>1, EntryIsMap DEF Updates
<1>5. ASSUME NEW i \in Node, OnUpdates(i)
      PROVE  \E map \in Map : OnPublish(i, map)
  BY <1>5 DEF OnUpdates, OnUpdatesFrom, TypeOK, Message
<1>6. ASSUME NEW i \in Node, OnNode(i), ~OnUpdates(i)
      PROVE  cvrdt' = cvrdt
  BY <1>6 DEF OnNode, TickNotify, TickState, TickBuffer, FlushBuffer, localVars
<1>7. ASSUME NEW i \in Node, NEW m \in Node, Find(i, m) \/ ConnectionLost(i, m)
      PROVE  cvrdt' = cvrdt
  BY <1>7 DEF Find, ConnectionLost, localVars
<1>8. ASSUME NEW m \in wire, Lose(m)
      PROVE  cvrdt' = cvrdt
  BY <1>8 DEF Lose, localVars
<1>9. UNCHANGED vars => cvrdt' = cvrdt
  BY DEF vars, localVars
<1> QED
  BY <1>2, <1>3, <1>4, <1>5, <1>6, <1>7, <1>8, <1>9 DEF Next

LEMMA InitSent == Init => SentIsKnown
  BY DEF Init, SentIsKnown, Includes, EmptyMap

\* A step keeps what is known known: only what a step adds to the buffers and to
\* the network is new.
LEMMA KnownStaysKnown ==
  ASSUME TypeOK, TypeOK', [Next]_vars, NEW n \in Node, NEW map \in Map,
         Includes(cvrdt[n], map)
  PROVE  Includes(cvrdt'[n], map)
<1>1. cvrdt[n] \in Map
  BY DEF TypeOK
<1>2. PICK new \in Map : new = cvrdt'[n]
  BY DEF TypeOK
<1>3. Includes(new, cvrdt[n])
  BY <1>2, ReplicasGrow
<1>4. Includes(new, map)
  BY <1>1, <1>3, IncludesIsTransitive
<1> QED
  BY <1>2, <1>4

LEMMA NextSent ==
  TypeOK /\ TypeOK' /\ SentIsKnown /\ [Next]_vars => SentIsKnown'
<1> SUFFICES ASSUME TypeOK, TypeOK', SentIsKnown, [Next]_vars
             PROVE  SentIsKnown'
  OBVIOUS
<1>1. \A n \in Node : Includes(cvrdt'[n], outbox[n])
  BY KnownStaysKnown DEF SentIsKnown, TypeOK
<1>2. \A m \in wire : Includes(cvrdt'[m.from], m.map)
  BY KnownStaysKnown DEF SentIsKnown, TypeOK, Message
<1>3. CASE outbox' = outbox /\ wire' \subseteq wire
  BY <1>1, <1>2, <1>3 DEF SentIsKnown
<1>4. ASSUME NEW n \in Node, NEW map \in Map, Includes(cvrdt'[n], map), wire' = wire,
             outbox' = [outbox EXCEPT ![n] = Merge(@, map)]
      PROVE  SentIsKnown'
  <2>1. PICK new \in Map : new = cvrdt'[n]
    BY DEF TypeOK
  <2>2. outbox[n] \in Map
    BY DEF TypeOK
  <2>3. Includes(new, Merge(outbox[n], map))
    BY <1>1, <1>4, <2>1, <2>2, MergeIsLeast
  <2>4. \A i \in Node : outbox'[i] = IF i = n THEN Merge(outbox[n], map) ELSE outbox[i]
    BY <1>4 DEF TypeOK
  <2>5. \A i \in Node : Includes(cvrdt'[i], outbox'[i])
    BY <1>1, <2>1, <2>3, <2>4
  <2> QED
    BY <1>2, <1>4, <2>5 DEF SentIsKnown
<1>5. ASSUME NEW n \in Node, Increment(n) \/ Set(n)
      PROVE  SentIsKnown'
  <2>1. PICK k \in Slot, v \in Value : Publish(n, k, v)
    BY <1>5, ClientPublishes
  <2>2. Entry(k, v) \in Map /\ OnPublish(n, Entry(k, v))
    BY <2>1, EntryIsMap DEF Publish, Updates
  <2>3. cvrdt'[n] = Merge(cvrdt[n], Entry(k, v))
    BY <2>2, OnPublishFacts
  <2>4. Includes(cvrdt'[n], Entry(k, v))
    BY <2>2, <2>3, MergeIncludes DEF TypeOK
  <2> QED
    BY <1>4, <2>1, <2>2, <2>4 DEF Publish, Updates
<1>6. ASSUME NEW n \in Node, TickState(n)
      PROVE  SentIsKnown'
  <2>1. cvrdt[n] \in Map /\ cvrdt' = cvrdt
    BY <1>6 DEF TickState, localVars, TypeOK
  <2>2. Includes(cvrdt'[n], cvrdt[n])
    BY <2>1, IncludesIsReflexive
  <2> QED
    BY <1>4, <1>6, <2>1, <2>2 DEF TickState
<1>7. ASSUME NEW n \in Node, TickBuffer(n)
      PROVE  SentIsKnown'
  <2>1. \A m \in wire' \ wire : m.from = n /\ m.map = outbox[n]
    BY <1>7 DEF TickBuffer, FlushBuffer
  <2>2. \A m \in wire' : Includes(cvrdt'[m.from], m.map)
    BY <1>1, <1>2, <2>1
  <2>3. \A i \in Node : outbox'[i] = IF i = n THEN EmptyMap ELSE outbox[i]
    BY <1>7 DEF TickBuffer, FlushBuffer, TypeOK
  <2>4. \A i \in Node : Includes(cvrdt'[i], outbox'[i])
    BY <1>1, <2>3 DEF Includes, EmptyMap
  <2> QED
    BY <2>2, <2>4 DEF SentIsKnown
<1>8. ASSUME NEW n \in Node, WriteLocal(n) \/ TickNotify(n) \/ OnUpdates(n)
      PROVE  outbox' = outbox /\ wire' \subseteq wire
  BY <1>8 DEF WriteLocal, Updates, TickNotify, OnUpdates, OnUpdatesFrom
<1>9. ASSUME NEW n \in Node, NEW m \in Node, Find(n, m) \/ ConnectionLost(n, m)
      PROVE  outbox' = outbox /\ wire' \subseteq wire
  BY <1>9 DEF Find, ConnectionLost
<1>10. ASSUME NEW m \in wire, Lose(m)
       PROVE  outbox' = outbox /\ wire' \subseteq wire
  BY <1>10 DEF Lose
<1>11. UNCHANGED vars => outbox' = outbox /\ wire' \subseteq wire
  BY DEF vars
<1> QED
  BY <1>3, <1>5, <1>6, <1>7, <1>8, <1>9, <1>10, <1>11 DEF Next, Client, OnNode

\* The operators of the store are those of the types.
LEMMA StoreOperators ==
  ASSUME NEW a, NEW b, NEW k, NEW v
  PROVE  /\ Store!Merge(a, b) = Merge(a, b)
         /\ Store!Includes(a, b) <=> Includes(a, b)
         /\ Store!Entry(k, v) = Entry(k, v)
         /\ Store!SetAssigns(a, k, v) <=> SetAssigns(a, k, v)
         /\ Store!Map = Map
         /\ Store!EmptyMap = EmptyMap
  BY DEF Store!Merge, Merge, Store!At, At, Store!Includes, Includes, Store!Entry, Entry,
         Store!SetAssigns, SetAssigns, Store!Map, Map, Store!EmptyMap, EmptyMap

\* A write is a step of the store, or changes nothing.
LEMMA WritesRefine ==
  ASSUME TypeOK, NEW n \in Node, NEW k \in Slot, NEW v \in Value,
         OnPublish(n, Entry(k, v))
  PROVE  [Store!Next]_cvrdt
<1>1. cvrdt[n] \in Map /\ v \in Nat
  BY ValuesAreNat DEF TypeOK
<1>2. cvrdt' = [cvrdt EXCEPT ![n] = Merge(@, Entry(k, v))]
  BY DEF OnPublish
<1>3. CASE SetAssigns(cvrdt[n], k, v)
  <2>1. Store!Update(n)
    BY <1>2, <1>3, StoreOperators DEF Store!Update
  <2> QED
    BY <2>1 DEF Store!Next
<1>4. CASE ~SetAssigns(cvrdt[n], k, v)
  <2>1. k \in DOMAIN cvrdt[n] /\ v <= cvrdt[n][k]
    BY <1>1, <1>4, MapFacts DEF SetAssigns
  <2>2. DOMAIN Merge(cvrdt[n], Entry(k, v)) = DOMAIN cvrdt[n]
    BY <2>1 DEF Merge, Entry
  <2>3. \A j \in DOMAIN cvrdt[n] : Merge(cvrdt[n], Entry(k, v))[j] = cvrdt[n][j]
    BY <1>1, <2>1, MapFacts DEF Merge, Entry, At
  <2>4. Merge(cvrdt[n], Entry(k, v)) = [j \in DOMAIN cvrdt[n] |-> cvrdt[n][j]]
    BY <2>1, <2>2, <2>3 DEF Merge
  <2>5. Merge(cvrdt[n], Entry(k, v)) = cvrdt[n]
    BY <1>1, <2>4, MapFacts
  <2>6. cvrdt' = cvrdt
    BY <1>2, <2>5 DEF TypeOK
  <2> QED
    BY <2>6
<1> QED
  BY <1>3, <1>4

\* Updates from another node are learnt from the sender.
LEMMA UpdatesRefine ==
  ASSUME TypeOK, SentIsKnown, NEW n \in Node, NEW m \in wire, OnPublish(n, m.map)
  PROVE  [Store!Next]_cvrdt
<1>1. cvrdt[n] \in Map /\ m.map \in Map /\ m.from \in Node
  BY DEF TypeOK, Message
<1>2. PICK new \in Map : new = Merge(cvrdt[n], m.map)
  BY <1>1, MergeIsMap
<1>3. cvrdt' = [cvrdt EXCEPT ![n] = new] /\ cvrdt'[n] = new
  BY <1>2 DEF OnPublish, TypeOK
<1>4. Includes(new, cvrdt[n])
  BY <1>1, <1>2, MergeIncludes
<1>5. ASSUME NEW k \in DOMAIN new
      PROVE  \E i \in Node : Store!Has(i, k, new[k])
  <2>1. CASE k \in DOMAIN m.map /\ At(cvrdt[n], k) < m.map[k]
    <3>1. new[k] = m.map[k]
      BY <1>2, <2>1 DEF Merge
    <3>2. k \in DOMAIN cvrdt[m.from] /\ m.map[k] <= cvrdt[m.from][k]
      BY <2>1 DEF SentIsKnown, Includes
    <3> QED
      BY <1>1, <3>1, <3>2 DEF Store!Has
  <2>2. CASE ~(k \in DOMAIN m.map /\ At(cvrdt[n], k) < m.map[k])
    <3>1. new[k] = At(cvrdt[n], k) /\ new[k] \in Nat
      BY <1>2, <2>2, MapFacts DEF Merge
    <3>2. CASE k \in DOMAIN cvrdt[n]
      <4>1. new[k] <= cvrdt[n][k]
        BY <3>1, <3>2 DEF At
      <4> QED
        BY <3>2, <4>1 DEF Store!Has
    <3>3. CASE k \notin DOMAIN cvrdt[n]
      <4>1. k \in DOMAIN m.map /\ new[k] = 0
        BY <1>2, <3>1, <3>3 DEF Merge, At
      <4>2. k \in DOMAIN cvrdt[m.from] /\ cvrdt[m.from] \in Map
        BY <1>1, <4>1 DEF SentIsKnown, Includes, TypeOK
      <4>3. 0 <= cvrdt[m.from][k]
        BY <4>2, MapFacts
      <4> QED
        BY <1>1, <4>1, <4>2, <4>3 DEF Store!Has
    <3> QED
      BY <3>2, <3>3
  <2> QED
    BY <2>1, <2>2
<1>6. cvrdt'[n] \in Store!Map /\ Store!Includes(cvrdt'[n], cvrdt[n])
  BY <1>3, <1>4, StoreOperators
<1>7. \A k \in DOMAIN cvrdt'[n] : \E i \in Node : Store!Has(i, k, cvrdt'[n][k])
  BY <1>3, <1>5
<1>8. cvrdt' = [cvrdt EXCEPT ![n] = cvrdt'[n]]
  BY <1>3
<1>9. Store!Learn(n)
  BY <1>6, <1>7, <1>8 DEF Store!Learn
<1> QED
  BY <1>9 DEF Store!Next

LEMMA InitRefines == Init => Store!Init
  BY StoreOperators DEF Init, Store!Init

LEMMA NextRefines == TypeOK /\ SentIsKnown /\ [Next]_vars => [Store!Next]_cvrdt
<1> SUFFICES ASSUME TypeOK, SentIsKnown, [Next]_vars
             PROVE  [Store!Next]_cvrdt
  OBVIOUS
<1>1. ASSUME NEW n \in Node, Client(n)
      PROVE  [Store!Next]_cvrdt
  <2>1. PICK k \in Slot, v \in Value : Updates(n, k, v)
    BY <1>1, ClientPublishes DEF Client, Publish, WriteLocal, Slot
  <2> QED
    BY <2>1, WritesRefine DEF Updates
<1>2. ASSUME NEW n \in Node, OnUpdates(n)
      PROVE  [Store!Next]_cvrdt
  <2>1. PICK m \in wire : OnPublish(n, m.map)
    BY <1>2 DEF OnUpdates, OnUpdatesFrom
  <2> QED
    BY <2>1, UpdatesRefine
<1>3. ASSUME NEW n \in Node, TickNotify(n) \/ TickState(n) \/ TickBuffer(n)
      PROVE  cvrdt' = cvrdt
  BY <1>3 DEF TickNotify, TickState, TickBuffer, FlushBuffer, localVars
<1>4. ASSUME NEW n \in Node, NEW m \in Node, Find(n, m) \/ ConnectionLost(n, m)
      PROVE  cvrdt' = cvrdt
  BY <1>4 DEF Find, ConnectionLost, localVars
<1>5. ASSUME NEW m \in wire, Lose(m)
      PROVE  cvrdt' = cvrdt
  BY <1>5 DEF Lose, localVars
<1>6. UNCHANGED vars => cvrdt' = cvrdt
  BY DEF vars, localVars
<1> QED
  BY <1>1, <1>2, <1>3, <1>4, <1>5, <1>6 DEF Next, OnNode

\* Replication implements the grow-only store: what a replica has never shrinks,
\* and a replica gets only what was written there or what another replica has,
\* although buffers are flushed to some of the nodes only and messages are lost,
\* late and overtaken.
THEOREM Implementation == Spec => ImplementsStore
<1> QED
  BY InitTypes, NextTypes, InitSent, NextSent, InitRefines, NextRefines, PTL
     DEF Spec, ImplementsStore, Store!Spec

================================================================================
