----------------------------- MODULE ShutdownProofs -----------------------------
(***************************************************************************)
(* What stopping a replicator leaves behind, for any nodes, keys, values    *)
(* and bounds: nothing that was published before its last tick.             *)
(***************************************************************************)
EXTENDS Shutdown, ReplicationProofs

--------------------------------------------------------------------------------
(***************************************************************************)
(* Types.                                                                   *)
(***************************************************************************)

StopTypeOK ==
  /\ TypeOK
  /\ running \subseteq Node
  /\ ending \subseteq running
  /\ owed \in [Node -> [Node -> Map]]

\* What is said of the types of all nodes, at one node or two.
LEMMA StopFields ==
  ASSUME StopTypeOK, NEW n \in Node, NEW m \in Node
  PROVE  /\ object[n] \in Map /\ cvrdt[n] \in Map /\ buffer[n] \in Map /\ outbox[n] \in Map
         /\ owed[n] \in [Node -> Map] /\ owed[n][m] \in Map
BY DEF StopTypeOK, TypeOK

\* What a client changes is what it publishes: the entry is new or has grown.
LEMMA ChangedIsPublished ==
  ASSUME StopTypeOK, NEW n \in Node, NEW k \in Slot, NEW v \in Value, Publish(n, k, v)
  PROVE  Changed(n) \in Map /\ Includes(Entry(k, v), Changed(n))
<1> DEFINE old == object[n]
           new == object'[n]
           S == {j \in DOMAIN new : j \in DOMAIN old => old[j] # new[j]}
<1>1. old \in Map /\ Entry(k, v) \in Map /\ v \in Nat
  BY StopFields, EntryIsMap, ValuesAreNat
<1>2. new = Merge(old, Entry(k, v))
  BY DEF Publish, StopTypeOK, TypeOK
<1>3. new \in Map
  BY <1>1, <1>2, MergeIsMap
<1>4. DOMAIN Entry(k, v) = {k} /\ Entry(k, v)[k] = v
  BY DEF Entry
<1>5. DOMAIN new = DOMAIN old \cup {k}
  BY <1>2, <1>4 DEF Merge
<1>6. \A j \in DOMAIN old : j # k => new[j] = old[j]
  BY <1>2, <1>4 DEF Merge, At
<1>7. S \subseteq {k}
  BY <1>5, <1>6
<1>8. k \in S => new[k] <= v
  <2>1. new[k] = IF At(old, k) < v THEN v ELSE At(old, k)
    BY <1>2, <1>4 DEF Merge
  <2>2. k \in DOMAIN old => old[k] \in Nat
    BY <1>1, MapFacts
  <2>3. QED
    BY <1>1, <2>1, <2>2 DEF At
<1>9. Changed(n) = [j \in S |-> new[j]]
  BY DEF Changed
<1>10. Changed(n) \in Map
  <2>1. S \in SUBSET Slot /\ \A j \in S : new[j] \in Value
    BY <1>3, MapFacts
  <2>2. Changed(n) \in [S -> Value]
    BY <1>9, <2>1
  <2>3. QED
    BY <2>1, <2>2, IsMap
<1>11. QED
  BY <1>4, <1>7, <1>8, <1>9, <1>10 DEF Includes

\* A step of the running nodes is one of Replication.
LEMMA RunsIsNext ==
  ASSUME \/ \E n \in running : ClientChange(n)
         \/ \E n \in Node : Runs(n, WriteLocal(n) \/ OnNode(n))
         \/ \E n \in Node : \E m \in running : Runs(n, Find(n, m)),
         StopTypeOK
  PROVE  Next
BY DEF StopTypeOK, ClientChange, Runs, Next, Client

LEMMA StopNextTypes ==
  ASSUME StopTypeOK, [StopNext]_allVars
  PROVE  StopTypeOK'
<1>1. TypeOK /\ running \subseteq Node /\ ending \subseteq running /\ owed \in [Node -> [Node -> Map]]
  BY DEF StopTypeOK
<1>2. CASE UNCHANGED allVars
  <2>1. TypeOK'
    BY <1>1, <1>2, NextTypes DEF allVars
  <2>2. QED
    BY <1>1, <1>2, <2>1 DEF StopTypeOK, allVars, stopVars
<1>3. ASSUME NEW n \in running, ClientChange(n)
      PROVE  StopTypeOK'
  <2>1. PICK k \in Slot, v \in Value : Publish(n, k, v)
    BY <1>1, <1>3, ClientPublishes DEF ClientChange
  <2>2. Changed(n) \in Map
    BY <1>1, <2>1, ChangedIsPublished
  <2>3. TypeOK'
    BY <1>1, <1>3, RunsIsNext, NextTypes
  <2>4. PICK changed \in Map : changed = Changed(n)
    BY <2>2
  <2>5. \A m \in Node : Merge(owed[n][m], changed) \in Map
    BY <1>1, MergeIsMap
  <2>6. owed' = [owed EXCEPT ![n] =
                  [m \in Node |-> IF m \in view[n] /\ n \notin ending
                                 THEN Merge(@[m], changed) ELSE @[m]]]
    BY <1>3, <2>4 DEF ClientChange
  <2>7. owed' \in [Node -> [Node -> Map]]
    BY <1>1, <2>5, <2>6
  <2>8. QED
    BY <1>1, <1>3, <2>3, <2>7 DEF StopTypeOK, ClientChange
<1>4. ASSUME NEW n \in running, Stop(n)
      PROVE  StopTypeOK'
  BY <1>1, <1>4, FlushTypes DEF StopTypeOK, Stop, LastTick
<1>5. ASSUME NEW n \in running, End(n)
      PROVE  StopTypeOK'
  BY <1>1, <1>5, EmptyIsMap DEF StopTypeOK, TypeOK, End, localVars
<1>6. ASSUME NEW n \in Node, Runs(n, WriteLocal(n) \/ OnNode(n))
      PROVE  StopTypeOK'
  <2>1. TypeOK'
    BY <1>1, <1>6, RunsIsNext, NextTypes
  <2>2. QED
    BY <1>1, <1>6, <2>1 DEF StopTypeOK, Runs, stopVars
<1>7. ASSUME NEW n \in Node, NEW m \in running, Runs(n, Find(n, m))
      PROVE  StopTypeOK'
  <2>1. TypeOK'
    BY <1>1, <1>7, RunsIsNext, NextTypes
  <2>2. QED
    BY <1>1, <1>7, <2>1 DEF StopTypeOK, Runs, stopVars
<1>8. ASSUME NEW n \in Node, Vanish(n)
      PROVE  StopTypeOK'
  BY <1>1, <1>8 DEF StopTypeOK, TypeOK, Vanish, localVars, stopVars
<1>9. ASSUME NEW n \in running, NEW m \in Node, PeerStopped(n, m)
      PROVE  StopTypeOK'
  BY <1>1, <1>9 DEF StopTypeOK, TypeOK, PeerStopped, localVars, stopVars
<1>10. QED
  BY <1>2, <1>3, <1>4, <1>5, <1>6, <1>7, <1>8, <1>9 DEF StopNext

--------------------------------------------------------------------------------
(***************************************************************************)
(* Nothing is left behind.                                                  *)
(***************************************************************************)

\* The replicators that flush before they end.
Flushing == running \ ending

\* A value that n published for slot k has got to m, is on its way, or waits for a
\* flush.
Covered(n, m, k, v) ==
  \/ v <= At(cvrdt[m], k)
  \/ \E msg \in wire : msg.from = n /\ msg.to = m /\ v <= At(msg.map, k)
  \/ n \in Flushing /\ m \in view[n] /\ v <= At(outbox[n], k)

\* What n has waiting for m still waits, or has been sent if there is anything.
StillGoesTo(n, m) ==
  \/ n \in Flushing' /\ m \in view'[n] /\ Includes(outbox'[n], outbox[n])
  \/ outbox[n] = EmptyMap
  \/ \E msg \in wire' : msg.from = n /\ msg.to = m /\ msg.map = outbox[n]

\* A step drops nothing that is for a node which goes on.
DropsNothing ==
  /\ running' \subseteq running
  /\ \A m \in running' : Includes(cvrdt'[m], cvrdt[m])
  /\ \A msg \in wire : msg.to \in running' =>
       msg \in wire' \/ Includes(cvrdt'[msg.to], msg.map)
  /\ \A n \in Flushing : \A m \in view[n] \cap running' : StillGoesTo(n, m)

\* Such a step leaves what is covered covered.
LEMMA CoveredStays ==
  ASSUME StopTypeOK, StopTypeOK', DropsNothing,
         NEW n \in Node, NEW m \in running', NEW k, NEW v \in Nat, Covered(n, m, k, v)
  PROVE  Covered(n, m, k, v)'
<1>1. m \in Node /\ cvrdt[m] \in Map /\ outbox[n] \in Map
  BY StopFields DEF StopTypeOK, DropsNothing
<1>2. PICK newState, newOut \in Map : newState = cvrdt'[m] /\ newOut = outbox'[n]
  BY <1>1 DEF StopTypeOK, TypeOK
<1>3. At(cvrdt[m], k) \in Nat /\ At(newState, k) \in Nat
      /\ At(outbox[n], k) \in Nat /\ At(newOut, k) \in Nat
  BY <1>1, <1>2, MapFacts
<1>4. CASE v <= At(cvrdt[m], k)
  <2>1. At(cvrdt[m], k) <= At(newState, k)
    BY <1>1, <1>2, AtGrows DEF DropsNothing
  <2>2. QED
    BY <1>2, <1>3, <1>4, <2>1 DEF Covered
<1>5. ASSUME NEW msg \in wire, msg.from = n, msg.to = m, v <= At(msg.map, k)
      PROVE  Covered(n, m, k, v)'
  <2>1. CASE msg \in wire'
    BY <1>5, <2>1 DEF Covered
  <2>2. CASE msg \notin wire'
    <3>1. msg.map \in Map /\ Includes(newState, msg.map)
      BY <1>2, <1>5, <2>2 DEF DropsNothing, StopTypeOK, TypeOK, Message
    <3>2. At(msg.map, k) <= At(newState, k) /\ At(msg.map, k) \in Nat
      BY <1>2, <3>1, AtGrows, MapFacts
    <3>3. QED
      BY <1>2, <1>3, <1>5, <3>2 DEF Covered
  <2>3. QED
    BY <2>1, <2>2
<1>6. CASE n \in Flushing /\ m \in view[n] /\ v <= At(outbox[n], k)
  <2>1. StillGoesTo(n, m)
    BY <1>6 DEF DropsNothing
  <2>2. CASE n \in Flushing' /\ m \in view'[n] /\ Includes(outbox'[n], outbox[n])
    <3>1. At(outbox[n], k) <= At(newOut, k)
      BY <1>1, <1>2, <2>2, AtGrows
    <3>2. QED
      BY <1>2, <1>3, <1>6, <2>2, <3>1 DEF Covered
  <2>3. CASE outbox[n] = EmptyMap
    <3>1. At(outbox[n], k) = 0
      BY <2>3 DEF At, EmptyMap
    <3>2. QED
      BY <1>2, <1>3, <1>6, <3>1 DEF Covered
  <2>4. CASE \E msg \in wire' : msg.from = n /\ msg.to = m /\ msg.map = outbox[n]
    BY <1>6, <2>4 DEF Covered
  <2>5. QED
    BY <2>1, <2>2, <2>3, <2>4 DEF StillGoesTo
<1>7. QED
  BY <1>4, <1>5, <1>6 DEF Covered

LEMMA QuietStopStep ==
  ASSUME StopTypeOK, StopTypeOK', NothingIsLeftBehind, DropsNothing, UNCHANGED owed
  PROVE  NothingIsLeftBehind'
<1>1. SUFFICES ASSUME NEW n \in Node, NEW m \in running', NEW k \in DOMAIN owed[n][m],
                      NEW v, v = owed[n][m][k]
               PROVE  Covered(n, m, k, v)'
  BY DEF NothingIsLeftBehind, Covered, Flushing
<1>2. m \in running /\ m \in Node
  BY DEF DropsNothing, StopTypeOK
<1>3. v \in Nat
  BY <1>1, <1>2, StopFields, MapFacts
<1>4. Covered(n, m, k, v)
  BY <1>1, <1>2 DEF NothingIsLeftBehind, Covered, Flushing
<1>5. QED
  BY <1>3, <1>4, CoveredStays

\* Replicas grow, also while others stop.
LEMMA StopReplicasGrow ==
  ASSUME StopTypeOK, [StopNext]_allVars, NEW m \in Node
  PROVE  Includes(cvrdt'[m], cvrdt[m])
<1>1. CASE [Next]_vars
  BY <1>1, ReplicasGrow DEF StopTypeOK
<1>2. CASE cvrdt' = cvrdt
  BY <1>2, StopFields, IncludesIsReflexive
<1>3. UNCHANGED allVars => UNCHANGED vars
  BY DEF allVars
<1>4. \A n \in running : Stop(n) \/ End(n) => cvrdt' = cvrdt
  BY DEF Stop, End, LastTick, FlushBuffer, localVars
<1>5. \A n, m1 \in Node : PeerStopped(n, m1) \/ Vanish(n) => cvrdt' = cvrdt
  BY DEF PeerStopped, Vanish, localVars
<1>6. QED
  BY <1>1, <1>2, <1>3, <1>4, <1>5, RunsIsNext DEF StopNext, StopTypeOK

\* A flush sends to all that the node knows what it has for them.
LEMMA FlushSends ==
  ASSUME NEW n \in Node, FlushBuffer(n), NEW m \in view[n]
  PROVE  outbox[n] = EmptyMap
         \/ \E msg \in wire' : msg.from = n /\ msg.to = m /\ msg.map = outbox[n]
<1>1. CASE outbox[n] # EmptyMap
  <2>1. [from |-> n, to |-> m, map |-> outbox[n]] \in wire'
    BY <1>1 DEF FlushBuffer
  <2>2. QED
    BY <2>1
<1>2. QED
  BY <1>1

\* What flushes, or goes on as it is, drops nothing.
LEMMA FlushDropsNothing ==
  ASSUME StopTypeOK, NEW n \in Node, FlushBuffer(n), running' = running,
         ending' \in {ending, ending \cup {n}},
         \A m \in Node : Includes(cvrdt'[m], cvrdt[m])
  PROVE  DropsNothing
<1>1. running' = running /\ running \subseteq Node /\ wire \subseteq wire'
      /\ view' = view
  BY DEF FlushBuffer, StopTypeOK
<1>2. ASSUME NEW i \in Flushing, NEW m \in view[i] \cap running'
      PROVE  StillGoesTo(i, m)
  <2>1. CASE i = n
    BY <2>1, FlushSends DEF StillGoesTo
  <2>2. CASE i # n
    <3>1. i \in Node /\ outbox'[i] = outbox[i] /\ i \in Flushing'
      BY <1>1, <2>2 DEF Flushing, FlushBuffer, StopTypeOK, TypeOK
    <3>2. Includes(outbox'[i], outbox[i])
      BY <3>1, StopFields, IncludesIsReflexive
    <3>3. QED
      BY <1>1, <3>1, <3>2 DEF StillGoesTo
  <2>3. QED
    BY <2>1, <2>2
<1>3. QED
  BY <1>1, <1>2 DEF DropsNothing

LEMMA LosslessDropsNothing ==
  ASSUME StopTypeOK, running' = running, ending' = ending,
         \A m \in Node : Includes(cvrdt'[m], cvrdt[m]),
         \A m \in Node : Includes(outbox'[m], outbox[m]),
         \A n \in Node : view[n] \cap running \subseteq view'[n],
         \A msg \in wire : msg.to \in running =>
           msg \in wire' \/ Includes(cvrdt'[msg.to], msg.map)
  PROVE  DropsNothing
<1>1. \A n \in Flushing : \A m \in view[n] \cap running : StillGoesTo(n, m)
  BY DEF StillGoesTo, Flushing, StopTypeOK
<1>2. QED
  BY <1>1 DEF DropsNothing, StopTypeOK

\* A running node handles something other than a change of its own client.
LEMMA RunsDropsNothing ==
  ASSUME StopTypeOK, NEW n \in Node, Runs(n, WriteLocal(n) \/ OnNode(n)),
         \A m \in Node : Includes(cvrdt'[m], cvrdt[m])
  PROVE  DropsNothing
<1>1. running' = running /\ ending' = ending /\ running \subseteq Node
  BY DEF Runs, stopVars, StopTypeOK
<1>2. \A m \in Node : Includes(outbox[m], outbox[m])
  BY StopFields, IncludesIsReflexive
<1>3. CASE WriteLocal(n) \/ TickNotify(n)
  <2>1. UNCHANGED <<outbox, view, wire>>
    BY <1>3 DEF WriteLocal, Updates, TickNotify
  <2>2. QED
    BY <1>1, <1>2, <2>1, LosslessDropsNothing
<1>4. CASE TickState(n)
  <2>1. UNCHANGED <<view, wire>>
        /\ \A m \in Node : outbox'[m] = IF m = n THEN Merge(outbox[n], cvrdt[n]) ELSE outbox[m]
    BY <1>4 DEF TickState, StopTypeOK, TypeOK
  <2>2. Includes(Merge(outbox[n], cvrdt[n]), outbox[n])
    BY StopFields, MergeIncludes
  <2>3. \A m \in Node : Includes(outbox'[m], outbox[m])
    BY <1>2, <2>1, <2>2
  <2>4. QED
    BY <1>1, <2>1, <2>3, LosslessDropsNothing
<1>5. CASE TickBuffer(n)
  BY <1>1, <1>5, FlushDropsNothing DEF TickBuffer
<1>6. CASE OnUpdates(n)
  <2>1. PICK msg \in wire : /\ msg.to = n /\ OnPublish(n, msg.map) /\ wire' = wire \ {msg}
                            /\ UNCHANGED <<outbox, view>>
    BY <1>6 DEF OnUpdates, OnUpdatesFrom
  <2>2. msg.map \in Map /\ cvrdt[n] \in Map
    BY StopFields DEF StopTypeOK, TypeOK, Message
  <2>3. cvrdt'[n] = Merge(cvrdt[n], msg.map)
    BY <2>1, <2>2, OnPublishFacts DEF StopTypeOK
  <2>4. Includes(cvrdt'[n], msg.map)
    BY <2>2, <2>3, MergeIncludes
  <2>5. QED
    BY <1>1, <1>2, <2>1, <2>4, LosslessDropsNothing
<1>7. QED
  BY <1>3, <1>4, <1>5, <1>6 DEF Runs, OnNode

\* A change by a client is owed to those that its node knows, and waits for them.
LEMMA ClientChangeIsCovered ==
  ASSUME StopTypeOK, StopTypeOK', NothingIsLeftBehind, NEW n \in running, ClientChange(n),
         \A m \in Node : Includes(cvrdt'[m], cvrdt[m])
  PROVE  NothingIsLeftBehind'
<1>1. n \in Node /\ running' = running /\ ending' = ending /\ running \subseteq Node
  BY DEF ClientChange, StopTypeOK
<1>2. PICK j \in Slot, e \in Value : Publish(n, j, e)
  BY <1>1, ClientPublishes DEF ClientChange
<1>3. PICK changed \in Map : changed = Changed(n) /\ Includes(Entry(j, e), changed)
  BY <1>1, <1>2, ChangedIsPublished
<1>4. /\ UNCHANGED <<view, wire>>
      /\ \A m \in Node : outbox'[m] = IF m = n THEN Merge(outbox[n], Entry(j, e))
                                      ELSE outbox[m]
  BY <1>2 DEF Publish, Updates, StopTypeOK, TypeOK
<1>5. Includes(outbox'[n], outbox[n]) /\ Includes(outbox'[n], Entry(j, e))
  BY <1>1, <1>4, EntryIsMap, StopFields, MergeIncludes
<1>6. DropsNothing
  <2>1. \A m \in Node : Includes(outbox'[m], outbox[m])
    BY <1>4, <1>5, StopFields, IncludesIsReflexive
  <2>2. QED
    BY <1>1, <1>4, <2>1, LosslessDropsNothing
<1>7. \A i, m \in Node :
        owed'[i][m] = IF i = n /\ m \in view[n] /\ n \notin ending
                      THEN Merge(owed[n][m], changed) ELSE owed[i][m]
  <2>1. owed' = [owed EXCEPT ![n] =
                  [m \in Node |-> IF m \in view[n] /\ n \notin ending
                                 THEN Merge(@[m], changed) ELSE @[m]]]
    BY <1>3 DEF ClientChange
  <2>2. QED
    BY <2>1 DEF StopTypeOK
<1>8. SUFFICES ASSUME NEW i \in Node, NEW m \in running, NEW k \in DOMAIN owed'[i][m],
                      NEW v, v = owed'[i][m][k]
               PROVE  Covered(i, m, k, v)'
  BY <1>1 DEF NothingIsLeftBehind, Covered, Flushing
<1>9. m \in Node /\ owed[i][m] \in Map /\ cvrdt[m] \in Map
  BY <1>1, StopFields
<1>10. PICK newState, newOut \in Map : newState = cvrdt'[m] /\ newOut = outbox'[i]
  BY <1>9 DEF StopTypeOK, TypeOK
<1>11. ASSUME k \in DOMAIN owed[i][m], v = owed[i][m][k]
       PROVE  Covered(i, m, k, v)'
  <2>1. v \in Nat
    BY <1>9, <1>11, MapFacts
  <2>2. Covered(i, m, k, v)
    BY <1>11 DEF NothingIsLeftBehind, Covered, Flushing
  <2>3. QED
    BY <1>1, <1>6, <2>1, <2>2, CoveredStays
<1>12. CASE i = n /\ m \in view[n] /\ n \notin ending
  <2>1. v = IF k \in DOMAIN changed /\ At(owed[i][m], k) < changed[k] THEN changed[k]
            ELSE At(owed[i][m], k)
    <3>1. owed'[i][m] = Merge(owed[i][m], changed)
      BY <1>7, <1>9, <1>12
    <3>2. k \in DOMAIN Merge(owed[i][m], changed) /\ v = Merge(owed[i][m], changed)[k]
      BY <1>8, <3>1
    <3>3. QED
      BY <3>2 DEF Merge
  <2>2. CASE k \in DOMAIN changed /\ v = changed[k]
    <3>1. At(changed, k) <= At(newOut, k)
      <4>1. Includes(newOut, changed)
        BY <1>3, <1>5, <1>10, <1>12, EntryIsMap, IncludesIsTransitive
      <4>2. QED
        BY <1>3, <1>10, <4>1, AtGrows
    <3>2. v <= At(newOut, k)
      BY <2>2, <3>1 DEF At
    <3>3. QED
      BY <1>1, <1>4, <1>10, <1>12, <3>2 DEF Covered, Flushing
  <2>3. CASE k \in DOMAIN owed[i][m] /\ v = owed[i][m][k]
    BY <1>11, <2>3
  <2>4. CASE v = 0
    <3>1. v <= At(newState, k)
      BY <1>10, <2>4, MapFacts
    <3>2. QED
      BY <1>10, <3>1 DEF Covered
  <2>5. QED
    BY <2>1, <2>2, <2>3, <2>4 DEF At
<1>13. CASE ~(i = n /\ m \in view[n] /\ n \notin ending)
  BY <1>7, <1>8, <1>9, <1>11, <1>13
<1>14. QED
  BY <1>12, <1>13

LEMMA StopNextCovers ==
  ASSUME StopTypeOK, StopTypeOK', NothingIsLeftBehind, [StopNext]_allVars
  PROVE  NothingIsLeftBehind'
<1>1. \A m \in Node : Includes(cvrdt'[m], cvrdt[m])
  BY StopReplicasGrow
<1>2. running \subseteq Node /\ \A m \in Node : Includes(outbox[m], outbox[m])
  BY StopFields, IncludesIsReflexive DEF StopTypeOK
<1>3. CASE UNCHANGED allVars
  BY <1>3 DEF allVars, vars, localVars, stopVars, NothingIsLeftBehind
<1>4. ASSUME NEW n \in running, ClientChange(n)
      PROVE  NothingIsLeftBehind'
  BY <1>1, <1>4, ClientChangeIsCovered
<1>5. ASSUME NEW n \in running, Stop(n)
      PROVE  NothingIsLeftBehind'
  <2>1. FlushBuffer(n) /\ UNCHANGED <<running, owed>> /\ ending' = ending \cup {n}
    BY <1>5 DEF Stop, LastTick
  <2>2. QED
    BY <1>1, <1>2, <2>1, FlushDropsNothing, QuietStopStep
<1>6. ASSUME NEW n \in running, End(n)
      PROVE  NothingIsLeftBehind'
  <2>1. /\ UNCHANGED <<view, wire, cvrdt, owed>> /\ n \in ending
        /\ running' = running \ {n} /\ ending' = ending \ {n}
        /\ \A i \in Node : i # n => outbox'[i] = outbox[i]
    BY <1>2, <1>6 DEF End, localVars, StopTypeOK, TypeOK
  <2>2. Flushing' = Flushing /\ n \notin Flushing
    BY <2>1 DEF Flushing
  <2>3. \A i \in Flushing : i \in Node /\ Includes(outbox'[i], outbox[i])
    BY <1>2, <2>1, <2>2 DEF Flushing
  <2>4. DropsNothing
    BY <1>1, <1>2, <2>1, <2>2, <2>3 DEF DropsNothing, StillGoesTo
  <2>5. QED
    BY <2>1, <2>4, QuietStopStep
<1>7. ASSUME NEW n \in Node, Runs(n, WriteLocal(n) \/ OnNode(n))
      PROVE  NothingIsLeftBehind'
  <2>1. UNCHANGED owed
    BY <1>7 DEF Runs, stopVars
  <2>2. QED
    BY <1>1, <1>7, <2>1, RunsDropsNothing, QuietStopStep
<1>8. ASSUME NEW n \in Node, NEW m \in running, Runs(n, Find(n, m))
      PROVE  NothingIsLeftBehind'
  <2>1. /\ UNCHANGED <<outbox, wire, running, ending, owed>>
        /\ \A i \in Node : view[i] \subseteq view'[i]
    BY <1>8 DEF Runs, stopVars, Find, StopTypeOK, TypeOK
  <2>2. DropsNothing
    BY <1>1, <1>2, <2>1, LosslessDropsNothing
  <2>3. QED
    BY <2>1, <2>2, QuietStopStep
<1>9. ASSUME NEW n \in Node, Vanish(n)
      PROVE  NothingIsLeftBehind'
  <2>1. /\ UNCHANGED <<outbox, view, running, ending, owed>> /\ n \notin running
        /\ wire' = {msg \in wire : msg.to # n}
    BY <1>9 DEF Vanish, stopVars
  <2>2. DropsNothing
    BY <1>1, <1>2, <2>1, LosslessDropsNothing
  <2>3. QED
    BY <2>1, <2>2, QuietStopStep
<1>10. ASSUME NEW n \in running, NEW m \in Node, PeerStopped(n, m)
      PROVE  NothingIsLeftBehind'
  <2>1. /\ UNCHANGED <<outbox, wire, running, ending, owed>> /\ m \notin running
        /\ \A i \in Node : view[i] \ {m} \subseteq view'[i]
    BY <1>2, <1>10 DEF PeerStopped, stopVars, StopTypeOK, TypeOK
  <2>2. DropsNothing
    BY <1>1, <1>2, <2>1, LosslessDropsNothing
  <2>3. QED
    BY <2>1, <2>2, QuietStopStep
<1>11. QED
  BY <1>3, <1>4, <1>5, <1>6, <1>7, <1>8, <1>9, <1>10 DEF StopNext

LEMMA StopInitCovers ==
  ASSUME StopInit
  PROVE  StopTypeOK /\ NothingIsLeftBehind
<1>1. running = Node /\ ending = {}
  BY DEF StopInit
<1>2. TypeOK
  BY InitTypes DEF StopInit
<1>3. \A n, m \in Node : owed[n][m] = EmptyMap
  BY DEF StopInit
<1>4. DOMAIN EmptyMap = {}
  BY DEF EmptyMap
<1>5. QED
  BY <1>1, <1>2, <1>3, <1>4, EmptyIsMap DEF StopInit, StopTypeOK, NothingIsLeftBehind

\* A replicator that stops leaves nothing behind of what its client has published
\* before the last tick: it has got to everybody who goes on and was known, or is on its
\* way there.
THEOREM NothingLeft == StopSpec => []NothingIsLeftBehind
<1>1. StopTypeOK /\ [StopNext]_allVars => StopTypeOK'
  BY StopNextTypes
<1>2. StopTypeOK /\ StopTypeOK' /\ NothingIsLeftBehind /\ [StopNext]_allVars
        => NothingIsLeftBehind'
  BY StopNextCovers
<1>3. QED
  BY <1>1, <1>2, StopInitCovers, PTL DEF StopSpec

================================================================================
