--------------------------- MODULE MvRegisterProofs ---------------------------
(***************************************************************************)
(* Proofs about MvRegister for any set of owners and any number of events.  *)
(* The inductive invariant says of every register that is current or was    *)
(* sent: its clock stands for exactly the events it includes, its values    *)
(* are the events nobody overwrote and maybe others, a single value has     *)
(* seen all the register's events, and no owner's slot is ahead of the      *)
(* owner.                                                                   *)
(***************************************************************************)
EXTENDS MvRegister, TLAPS

--------------------------------------------------------------------------------
(***************************************************************************)
(* What the operations of vector_clock do, for any set of slots: compare is *)
(* the slot-wise order and merge the slot-wise maximum, whatever slots the  *)
(* two maps have, a missing slot counting 0.                                *)
(***************************************************************************)

\* A clock is a function with values in Nat on some slots.
LEMMA ClockFacts ==
  ASSUME NEW c
  PROVE  c \in Clock <=>
           /\ c = [a \in DOMAIN c |-> c[a]]
           /\ DOMAIN c \subseteq Actor
           /\ \A a \in DOMAIN c : c[a] \in Nat
<1>1. ASSUME c \in Clock
      PROVE  /\ c = [a \in DOMAIN c |-> c[a]]
             /\ DOMAIN c \subseteq Actor
             /\ \A a \in DOMAIN c : c[a] \in Nat
  <2>1. PICK S \in SUBSET Actor : c \in [S -> Nat]
    BY <1>1 DEF Clock
  <2>2. QED
    BY <2>1
<1>2. ASSUME /\ c = [a \in DOMAIN c |-> c[a]]
             /\ DOMAIN c \subseteq Actor
             /\ \A a \in DOMAIN c : c[a] \in Nat
      PROVE  c \in Clock
  <2>1. c \in [DOMAIN c -> Nat]
    BY <1>2
  <2>2. QED
    BY <1>2, <2>1 DEF Clock
<1>3. QED
  BY <1>1, <1>2

LEMMA GetType ==
  ASSUME NEW c \in Clock, NEW a
  PROVE  Get(c, a) \in Nat
BY ClockFacts DEF Get

\* The empty clock counts nothing.
LEMMA EmptyClockFacts ==
  EmptyClock \in Clock /\ \A a : Get(EmptyClock, a) = 0
<1>1. EmptyClock \in [{} -> Nat]
  BY DEF EmptyClock
<1>2. EmptyClock \in Clock
  BY <1>1 DEF Clock
<1>3. \A a : Get(EmptyClock, a) = 0
  BY DEF EmptyClock, Get
<1>4. QED
  BY <1>2, <1>3

\* Ahead and Behind compare the counts, a missing slot counting as 0.
LEMMA AheadBehind ==
  ASSUME NEW c \in Clock, NEW d \in Clock, NEW a
  PROVE  /\ Ahead(c, d, a) <=> Get(c, a) > Get(d, a)
         /\ Behind(c, d, a) <=> Get(c, a) < Get(d, a)
<1>1. /\ a \in DOMAIN c => c[a] \in Nat
      /\ a \in DOMAIN d => d[a] \in Nat
  BY ClockFacts
<1>2. QED
  BY <1>1 DEF Ahead, Behind, Get

\* compare returns the pointwise order of the counts
\* (vector_clock.cpp:37-68): "greater" is this above other.
THEOREM CompareIsPointwise ==
  ASSUME NEW c \in Clock, NEW d \in Clock
  PROVE  LET above == \A a \in Actor : Get(c, a) >= Get(d, a)
             below == \A a \in Actor : Get(c, a) <= Get(d, a)
         IN  Compare(c, d) = IF above /\ below THEN "equal"
                             ELSE IF above THEN "greater"
                             ELSE IF below THEN "smaller" ELSE "concurrent"
<1>1. DOMAIN c \subseteq Actor /\ DOMAIN d \subseteq Actor
  BY ClockFacts
<1>2. \A a : Get(c, a) \in Nat /\ Get(d, a) \in Nat
  BY GetType
<1>3. (\E a \in DOMAIN c : Ahead(c, d, a)) <=> ~(\A a \in Actor : Get(c, a) <= Get(d, a))
  <2>1. \A a : Ahead(c, d, a) => a \in DOMAIN c
    BY DEF Ahead
  <2>2. \A a : Ahead(c, d, a) <=> ~(Get(c, a) <= Get(d, a))
    BY <1>2, AheadBehind
  <2>3. QED
    BY <1>1, <2>1, <2>2
<1>4. (\E a \in DOMAIN d : Behind(c, d, a)) <=> ~(\A a \in Actor : Get(c, a) >= Get(d, a))
  <2>1. \A a : Behind(c, d, a) => a \in DOMAIN d
    BY DEF Behind
  <2>2. \A a : Behind(c, d, a) <=> ~(Get(c, a) >= Get(d, a))
    BY <1>2, AheadBehind
  <2>3. QED
    BY <1>1, <2>1, <2>2
<1>5. QED
  BY <1>3, <1>4 DEF Compare

\* merge is the pointwise maximum (vector_clock.cpp:70-95).
THEOREM MergeIsMaximum ==
  ASSUME NEW c \in Clock, NEW d \in Clock
  PROVE  /\ Merge(c, d) \in Clock
         /\ \A a : Get(Merge(c, d), a) =
                     IF Get(c, a) < Get(d, a) THEN Get(d, a) ELSE Get(c, a)
<1> DEFINE delta == MergeDelta(c, d)
           m == Merge(c, d)
<1>1. /\ DOMAIN c \subseteq Actor /\ \A a \in DOMAIN c : c[a] \in Nat
      /\ DOMAIN d \subseteq Actor /\ \A a \in DOMAIN d : d[a] \in Nat
  BY ClockFacts
<1>2. /\ DOMAIN delta = (DOMAIN c \ DOMAIN d)
                        \cup {a \in DOMAIN d : a \notin DOMAIN c \/ c[a] < d[a]}
      /\ \A a \in DOMAIN delta : delta[a] = IF a \in DOMAIN d THEN d[a] ELSE c[a]
  BY DEF MergeDelta, OnlyInThis, NotInThisOrMax
<1> HIDE DEF delta
<1>3. m = [a \in DOMAIN c \cup DOMAIN delta |->
             IF a \in DOMAIN delta /\ Get(c, a) < delta[a]
             THEN delta[a] ELSE Get(c, a)]
  BY DEF Merge, delta
<1>4. DOMAIN m = DOMAIN c \cup DOMAIN delta
  BY <1>3
<1>5. DOMAIN m \subseteq Actor
  BY <1>1, <1>2, <1>4
<1> HIDE DEF m
<1>6. ASSUME NEW a
      PROVE  /\ a \in DOMAIN m => m[a] \in Nat
             /\ Get(m, a) = IF Get(c, a) < Get(d, a) THEN Get(d, a) ELSE Get(c, a)
  <2>1. CASE a \in DOMAIN c
    BY <1>1, <1>2, <1>3, <1>4, <2>1 DEF Get
  <2>2. CASE a \notin DOMAIN c /\ a \in DOMAIN d
    <3>1. a \in DOMAIN delta /\ delta[a] = d[a] /\ d[a] \in Nat /\ Get(c, a) = 0
      BY <1>1, <1>2, <2>2 DEF Get
    <3>2. Get(d, a) = d[a]
      BY <2>2 DEF Get
    <3>3. QED
      BY <1>3, <1>4, <3>1, <3>2 DEF Get
  <2>3. CASE a \notin DOMAIN c /\ a \notin DOMAIN d
    <3>1. a \notin DOMAIN m
      BY <1>2, <1>4, <2>3
    <3>2. QED
      BY <2>3, <3>1 DEF Get
  <2>4. QED
    BY <2>1, <2>2, <2>3
<1>7. m \in Clock
  <2>1. m = [a \in DOMAIN m |-> m[a]]
    BY <1>3, <1>4
  <2>2. QED
    BY <1>5, <1>6, <2>1, ClockFacts
<1>8. QED
  BY <1>6, <1>7 DEF m

\* increment adds one to its slot and leaves the others alone.
LEMMA IncrementAddsOne ==
  ASSUME NEW c \in Clock, NEW a \in Actor
  PROVE  /\ Increment(c, a) \in Clock
         /\ \A b : Get(Increment(c, a), b) = IF b = a THEN Get(c, a) + 1 ELSE Get(c, b)
<1>1. /\ DOMAIN c \subseteq Actor /\ \A b \in DOMAIN c : c[b] \in Nat
      /\ Get(c, a) \in Nat
  BY ClockFacts, GetType
<1>2. Increment(c, a) \in [DOMAIN c \cup {a} -> Nat]
  BY <1>1 DEF Increment
<1>3. Increment(c, a) \in Clock
  BY <1>1, <1>2 DEF Clock
<1>4. \A b : Get(Increment(c, a), b) = IF b = a THEN Get(c, a) + 1 ELSE Get(c, b)
  BY DEF Increment, Get
<1>5. QED
  BY <1>3, <1>4

--------------------------------------------------------------------------------
(***************************************************************************)
(* Clocks and events.                                                      *)
(***************************************************************************)

SeenBy(c) == {e \in Event : e[2] <= Get(c, e[1])}

\* A clock c stands for exactly the events in p.
Exact(c, p) ==
  /\ c \in Clock
  /\ p = SeenBy(c)
  /\ \A a \in Actor : Get(c, a) <= MaxEvents

\* The order of the event sets is the pointwise order of the clocks.
LEMMA SeenIsPointwise ==
  ASSUME NEW c \in Clock, NEW d \in Clock, \A a \in Actor : Get(c, a) <= MaxEvents
  PROVE  SeenBy(c) \subseteq SeenBy(d) <=> \A a \in Actor : Get(c, a) <= Get(d, a)
<1>1. \A a : Get(c, a) \in Nat /\ Get(d, a) \in Nat
  BY GetType
<1>2. ASSUME SeenBy(c) \subseteq SeenBy(d), NEW a \in Actor
      PROVE  Get(c, a) <= Get(d, a)
  <2>1. CASE Get(c, a) = 0
    BY <1>1, <2>1
  <2>2. CASE Get(c, a) # 0
    <3>1. Get(c, a) \in 1 .. MaxEvents
      BY <1>1, <2>2, MaxEventsIsNat
    <3>2. <<a, Get(c, a)>> \in SeenBy(c)
      BY <1>1, <3>1 DEF SeenBy, Event
    <3>3. <<a, Get(c, a)>> \in SeenBy(d)
      BY <1>2, <3>2
    <3>4. QED
      BY <3>3 DEF SeenBy
  <2>3. QED
    BY <2>1, <2>2
<1>3. ASSUME \A a \in Actor : Get(c, a) <= Get(d, a), NEW e \in SeenBy(c)
      PROVE  e \in SeenBy(d)
  <2>1. e \in Event /\ e[1] \in Actor /\ e[2] \in Nat /\ e[2] <= Get(c, e[1])
    BY <1>3, MaxEventsIsNat DEF SeenBy, Event
  <2>2. e[2] <= Get(d, e[1])
    BY <1>1, <1>3, <2>1
  <2>3. QED
    BY <2>1, <2>2 DEF SeenBy
<1>4. QED
  BY <1>2, <1>3

\* compare relates the events behind two clocks.
LEMMA CompareIsCausal ==
  ASSUME NEW c, NEW p, NEW d, NEW q, Exact(c, p), Exact(d, q)
  PROVE  Compare(c, d) = CompareEvents(p, q)
<1>1. p \subseteq q <=> \A a \in Actor : Get(c, a) <= Get(d, a)
  BY SeenIsPointwise DEF Exact
<1>2. q \subseteq p <=> \A a \in Actor : Get(d, a) <= Get(c, a)
  BY SeenIsPointwise DEF Exact
<1>3. \A a : Get(c, a) \in Nat /\ Get(d, a) \in Nat
  BY GetType DEF Exact
<1>4. q \subseteq p <=> \A a \in Actor : Get(c, a) >= Get(d, a)
  BY <1>2, <1>3
<1>5. Compare(c, d) = IF q \subseteq p /\ p \subseteq q THEN "equal"
                      ELSE IF q \subseteq p THEN "greater"
                      ELSE IF p \subseteq q THEN "smaller" ELSE "concurrent"
  BY <1>1, <1>4, CompareIsPointwise DEF Exact
<1>6. p = q <=> p \subseteq q /\ q \subseteq p
  OBVIOUS
<1>7. QED
  BY <1>5, <1>6, Zenon DEF CompareEvents

\* The empty clock stands for no event.
LEMMA EmptyIsExact == Exact(EmptyClock, {})
<1>1. \A e \in Event : e[2] \in Nat /\ e[2] >= 1
  BY MaxEventsIsNat DEF Event
<1>2. SeenBy(EmptyClock) = {}
  BY <1>1, EmptyClockFacts DEF SeenBy
<1>3. QED
  BY <1>2, EmptyClockFacts, MaxEventsIsNat DEF Exact

\* What a new set has seen: its own event besides what the owner had seen.
LEMMA IncrementIsExact ==
  ASSUME NEW c, NEW p, NEW a \in Actor, Exact(c, p), Get(c, a) < MaxEvents
  PROVE  /\ <<a, Get(c, a) + 1>> \in Event
         /\ Exact(Increment(c, a), p \cup {<<a, Get(c, a) + 1>>})
<1> DEFINE i == Increment(c, a)
<1>0. c \in Clock /\ p = SeenBy(c) /\ \A b \in Actor : Get(c, b) <= MaxEvents
  BY DEF Exact
<1>1. /\ i \in Clock
      /\ \A b : Get(i, b) = IF b = a THEN Get(c, a) + 1 ELSE Get(c, b)
      /\ \A b : Get(c, b) \in Nat
  BY <1>0, IncrementAddsOne, GetType
<1> HIDE DEF i
<1>2. <<a, Get(c, a) + 1>> \in Event
  BY <1>1, MaxEventsIsNat DEF Event
<1>3. ASSUME NEW e \in Event
      PROVE  e[2] <= Get(i, e[1]) <=> e[2] <= Get(c, e[1]) \/ e = <<a, Get(c, a) + 1>>
  <2>1. e = <<e[1], e[2]>> /\ e[1] \in Actor /\ e[2] \in Nat
    BY MaxEventsIsNat DEF Event
  <2>2. CASE e[1] = a
    BY <1>1, <2>1, <2>2
  <2>3. CASE e[1] # a
    BY <1>1, <2>1, <2>3
  <2>4. QED
    BY <2>2, <2>3
<1>4. SeenBy(i) = SeenBy(c) \cup {<<a, Get(c, a) + 1>>}
  BY <1>2, <1>3 DEF SeenBy
<1>5. \A b \in Actor : Get(i, b) <= MaxEvents
  BY <1>0, <1>1, MaxEventsIsNat
<1>6. QED
  BY <1>0, <1>1, <1>2, <1>4, <1>5 DEF Exact, i

\* What a merged clock has seen: the events of both.
LEMMA MergeIsExact ==
  ASSUME NEW c, NEW p, NEW d, NEW q, Exact(c, p), Exact(d, q)
  PROVE  Exact(Merge(c, d), p \cup q)
<1> DEFINE m == Merge(c, d)
<1>1. c \in Clock /\ d \in Clock
  BY DEF Exact
<1>2. /\ m \in Clock
      /\ \A a : Get(m, a) = IF Get(c, a) < Get(d, a) THEN Get(d, a) ELSE Get(c, a)
      /\ \A a : Get(c, a) \in Nat /\ Get(d, a) \in Nat
  BY <1>1, MergeIsMaximum, GetType
<1> HIDE DEF m
<1>3. \A e \in Event : e[2] \in Nat
  BY MaxEventsIsNat DEF Event
<1>4. SeenBy(m) = SeenBy(c) \cup SeenBy(d)
  BY <1>2, <1>3 DEF SeenBy
<1>5. \A a \in Actor : Get(m, a) <= MaxEvents
  BY <1>2 DEF Exact
<1>6. QED
  BY <1>2, <1>4, <1>5 DEF Exact, m

--------------------------------------------------------------------------------
(***************************************************************************)
(* The inductive invariant.                                                *)
(***************************************************************************)

\* The values of a register with respect to its events.
Sound(s) ==
  /\ s.reg \subseteq s.past
  /\ s.past # {} => s.reg # {}
  /\ \A e \in s.past : e \in s.reg \/ \E f \in s.past : Overwrote(f, e)
  /\ \A e \in Event : s.reg = {e} => s.past = saw[e]

\* No owner's slot is ahead of the owner.
Behindhand(s) == \A a \in Actor : Get(s.clk, a) <= Get(register[a].clk, a)

RegistersAreSound ==
  \A s \in Stamped : Exact(s.clk, s.past) /\ Sound(s) /\ Behindhand(s)

LEMMA OwnRegister ==
  ASSUME TypeOK, RegistersAreSound, NEW a \in Actor
  PROVE  /\ register[a] \in Register
         /\ Exact(register[a].clk, register[a].past)
         /\ Sound(register[a])
         /\ Behindhand(register[a])
<1>1. register[a] \in Stamped
  BY DEF Stamped
<1>2. QED
  BY <1>1 DEF TypeOK, RegistersAreSound

\* The two merged parts of a register, by the relation of the events.
LEMMA MergedCases ==
  ASSUME NEW s, NEW t, Exact(s.clk, s.past), Exact(t.clk, t.past)
  PROVE  \/ /\ s.past \subseteq t.past
            /\ MergedClock(s, t) = Merge(s.clk, t.clk)
            /\ MergedValues(s, t) = t.reg
         \/ /\ ~(s.past \subseteq t.past) /\ ~(t.past \subseteq s.past)
            /\ MergedClock(s, t) = Merge(s.clk, t.clk)
            /\ MergedValues(s, t) = s.reg \cup t.reg
         \/ /\ t.past \subseteq s.past
            /\ MergedClock(s, t) = s.clk
            /\ MergedValues(s, t) = s.reg
<1>1. Compare(t.clk, s.clk) = CompareEvents(t.past, s.past)
  BY CompareIsCausal
<1>2. CASE t.past = s.past
  <2>1. Compare(t.clk, s.clk) = "equal"
    BY <1>1, <1>2 DEF CompareEvents
  <2>2. QED
    BY <1>2, <2>1 DEF MergedClock, MergedValues
<1>3. CASE t.past # s.past /\ s.past \subseteq t.past
  <2>1. Compare(t.clk, s.clk) = "greater"
    BY <1>1, <1>3 DEF CompareEvents
  <2>2. QED
    BY <1>3, <2>1 DEF MergedClock, MergedValues
<1>4. CASE ~(s.past \subseteq t.past) /\ t.past \subseteq s.past
  <2>1. Compare(t.clk, s.clk) = "smaller"
    BY <1>1, <1>4 DEF CompareEvents
  <2>2. QED
    BY <1>4, <2>1 DEF MergedClock, MergedValues
<1>5. CASE ~(s.past \subseteq t.past) /\ ~(t.past \subseteq s.past)
  <2>1. Compare(t.clk, s.clk) = "concurrent"
    BY <1>1, <1>5 DEF CompareEvents
  <2>2. QED
    BY <1>5, <2>1 DEF MergedClock, MergedValues
<1>6. QED
  BY <1>2, <1>3, <1>4, <1>5

\* A merge keeps clock, events and values together.
LEMMA MergeIsSound ==
  ASSUME NEW s, NEW t, Exact(s.clk, s.past), Sound(s), Exact(t.clk, t.past), Sound(t),
         NEW m, m = [clk |-> MergedClock(s, t), reg |-> MergedValues(s, t),
                     past |-> s.past \cup t.past]
  PROVE  Exact(m.clk, m.past) /\ Sound(m)
<1>1. m.clk = MergedClock(s, t) /\ m.reg = MergedValues(s, t) /\ m.past = s.past \cup t.past
  OBVIOUS
<1>2. CASE /\ s.past \subseteq t.past
           /\ MergedClock(s, t) = Merge(s.clk, t.clk)
           /\ MergedValues(s, t) = t.reg
  <2>1. m.past = t.past /\ m.reg = t.reg
    BY <1>1, <1>2
  <2>2. Exact(m.clk, m.past)
    BY <1>1, <1>2, MergeIsExact
  <2>3. QED
    BY <2>1, <2>2 DEF Sound
<1>3. CASE /\ ~(s.past \subseteq t.past) /\ ~(t.past \subseteq s.past)
           /\ MergedClock(s, t) = Merge(s.clk, t.clk)
           /\ MergedValues(s, t) = s.reg \cup t.reg
  <2>1. Exact(m.clk, m.past)
    BY <1>1, <1>3, MergeIsExact
  <2>2. /\ m.reg = s.reg \cup t.reg
        /\ m.reg \subseteq m.past
        /\ m.reg # {}
    BY <1>1, <1>3 DEF Sound
  <2>3. ASSUME NEW e \in m.past
        PROVE  e \in m.reg \/ \E f \in m.past : Overwrote(f, e)
    BY <1>1, <2>2 DEF Sound
  <2>4. ASSUME NEW e \in Event, m.reg = {e}
        PROVE  FALSE
    <3>1. s.reg = {e} /\ t.reg = {e}
      BY <1>3, <2>2, <2>4 DEF Sound
    <3>2. QED
      BY <1>3, <3>1 DEF Sound
  <2>5. QED
    BY <2>1, <2>2, <2>3, <2>4 DEF Sound
<1>4. CASE /\ t.past \subseteq s.past
           /\ MergedClock(s, t) = s.clk
           /\ MergedValues(s, t) = s.reg
  <2>1. m.past = s.past /\ m.reg = s.reg /\ m.clk = s.clk
    BY <1>1, <1>4
  <2>2. QED
    BY <2>1 DEF Sound
<1>5. QED
  BY <1>2, <1>3, <1>4, MergedCases

\* A merged clock has seen, of every slot, what one of the two has.
LEMMA MergedCounts ==
  ASSUME NEW s, NEW t, Exact(s.clk, s.past), Exact(t.clk, t.past), NEW a
  PROVE  /\ Get(MergedClock(s, t), a) \in {Get(s.clk, a), Get(t.clk, a)}
         /\ a \in Actor => Get(s.clk, a) <= Get(MergedClock(s, t), a)
<1>1. /\ Get(s.clk, a) \in Nat /\ Get(t.clk, a) \in Nat
      /\ s.clk \in Clock /\ t.clk \in Clock
  BY GetType DEF Exact
<1>2. CASE MergedClock(s, t) = Merge(s.clk, t.clk)
  BY <1>1, <1>2, MergeIsMaximum
<1>3. CASE MergedClock(s, t) = s.clk
  BY <1>1, <1>3
<1>4. QED
  BY <1>2, <1>3 DEF MergedClock

--------------------------------------------------------------------------------
(***************************************************************************)
(* The steps.                                                              *)
(***************************************************************************)

LEMMA InitSound == Init => TypeOK /\ RegistersAreSound
<1> SUFFICES ASSUME Init PROVE TypeOK /\ RegistersAreSound
  OBVIOUS
<1>1. TypeOK
  BY EmptyClockFacts DEF Init, TypeOK, Register
<1>2. \A s \in Stamped : s = [clk |-> EmptyClock, reg |-> {}, past |-> {}]
  BY DEF Init, Stamped
<1>3. ASSUME NEW s \in Stamped PROVE Exact(s.clk, s.past)
  BY <1>2, EmptyIsExact
<1>4. ASSUME NEW s \in Stamped PROVE Sound(s)
  BY <1>2 DEF Sound
<1>5. ASSUME NEW s \in Stamped PROVE Behindhand(s)
  BY <1>2, EmptyClockFacts DEF Behindhand, Init
<1>6. QED
  BY <1>1, <1>3, <1>4, <1>5 DEF RegistersAreSound

\* The register that set leaves.
LEMMA SetKeepsSound ==
  ASSUME TypeOK, RegistersAreSound, NEW a \in Actor, Set(a)
  PROVE  TypeOK' /\ RegistersAreSound'
<1> DEFINE old == register[a]
           n   == Get(old.clk, a) + 1
           e   == <<a, n>>
<1>0. PICK new : new = AfterSet(a)
  OBVIOUS
<1>1. /\ old \in Register /\ Exact(old.clk, old.past) /\ Sound(old) /\ Behindhand(old)
      /\ Get(old.clk, a) < MaxEvents
  BY OwnRegister DEF Set
<1>2. new = [clk |-> Increment(old.clk, a), reg |-> {e}, past |-> old.past \cup {e}]
  BY <1>0 DEF AfterSet
<1>3. /\ register' = [register EXCEPT ![a] = new]
      /\ saw' = [saw EXCEPT ![e] = new.past]
      /\ published' = published \cup {new}
  BY <1>0 DEF Set
<1>4. e \in Event /\ Exact(new.clk, new.past)
  BY <1>1, <1>2, IncrementIsExact
<1>5. /\ old.clk \in Clock /\ new.clk \in Clock /\ n \in Nat
      /\ \A b \in Actor : Get(new.clk, b) = IF b = a THEN n ELSE Get(old.clk, b)
      /\ \A b \in Actor : Get(old.clk, b) \in Nat
  BY <1>1, <1>2, IncrementAddsOne, GetType DEF Exact
<1>6. new \in Register
  BY <1>1, <1>2, <1>4, <1>5 DEF Register
<1>7. TypeOK'
  BY <1>3, <1>4, <1>6 DEF TypeOK, Register
<1>8. /\ saw'[e] = new.past
      /\ \A f \in Event : f # e => saw'[f] = saw[f]
  BY <1>3, <1>4 DEF TypeOK
<1>9. Stamped' \subseteq Stamped \cup {new}
  BY <1>3 DEF Stamped, TypeOK
<1>10. \A b \in Actor : register'[b] = IF b = a THEN new ELSE register[b]
  BY <1>3 DEF TypeOK
<1>11. \A s : Sound(s)' <=>
          /\ s.reg \subseteq s.past
          /\ s.past # {} => s.reg # {}
          /\ \A x \in s.past : x \in s.reg \/ \E f \in s.past : f # x /\ x \in saw'[f]
          /\ \A x \in Event : s.reg = {x} => s.past = saw'[x]
  BY DEF Sound, Overwrote
<1>12. ASSUME NEW s \in Stamped
       PROVE  Exact(s.clk, s.past) /\ Sound(s)' /\ Behindhand(s)'
  <2>1. Exact(s.clk, s.past) /\ Sound(s) /\ Behindhand(s)
    BY DEF RegistersAreSound
  <2>2. \A b \in Actor : Get(s.clk, b) \in Nat
    BY <2>1, GetType DEF Exact
  <2>3. Behindhand(s)'
    <3>1. \A b \in Actor : Get(s.clk, b) <= Get(register[b].clk, b)
      BY <2>1 DEF Behindhand
    <3>2. \A b \in Actor : Get(s.clk, b) <= Get(register'[b].clk, b)
      BY <1>5, <1>10, <2>2, <3>1
    <3>3. QED
      BY <3>2 DEF Behindhand
  <2>4. e \notin s.past
    <3>1. Get(s.clk, a) <= Get(old.clk, a)
      BY <2>1 DEF Behindhand
    <3>2. ~(n <= Get(s.clk, a))
      BY <1>5, <2>2, <3>1
    <3>3. QED
      BY <2>1, <3>2 DEF Exact, SeenBy
  <2>5. \A f \in s.past : f \in Event /\ saw'[f] = saw[f]
    BY <1>8, <2>1, <2>4 DEF Exact, SeenBy
  <2>6. Sound(s)'
    <3>1. \A x \in Event : s.reg = {x} => s.past = saw'[x]
      BY <2>1, <2>5 DEF Sound
    <3>2. \A x \in s.past : x \in s.reg \/ \E f \in s.past : f # x /\ x \in saw'[f]
      BY <2>1, <2>5 DEF Sound, Overwrote
    <3>3. s.reg \subseteq s.past /\ (s.past # {} => s.reg # {})
      BY <2>1 DEF Sound
    <3>4. QED
      BY <1>11, <3>1, <3>2, <3>3
  <2>7. QED
    BY <2>1, <2>3, <2>6
<1>13. Exact(new.clk, new.past) /\ Sound(new)' /\ Behindhand(new)'
  <2>1. new.reg = {e} /\ new.past = old.past \cup {e}
    BY <1>2
  <2>2. Sound(new)'
    <3>1. new.reg \subseteq new.past /\ (new.past # {} => new.reg # {})
      BY <2>1
    <3>2. \A x \in new.past : x \in new.reg \/ \E f \in new.past : f # x /\ x \in saw'[f]
      BY <1>8, <2>1
    <3>3. \A x \in Event : new.reg = {x} => new.past = saw'[x]
      BY <1>8, <2>1
    <3>4. QED
      BY <1>11, <3>1, <3>2, <3>3
  <2>3. \A b \in Actor : Get(new.clk, b) <= Get(register'[b].clk, b)
    <3>1. \A b \in Actor : Get(old.clk, b) <= Get(register[b].clk, b)
      BY <1>1 DEF Behindhand
    <3>2. QED
      BY <1>5, <1>10, <3>1
  <2>4. Behindhand(new)'
    BY <2>3 DEF Behindhand
  <2>5. QED
    BY <1>4, <2>2, <2>4
<1>14. \A s \in Stamped' : Exact(s.clk, s.past) /\ Sound(s)' /\ Behindhand(s)'
  BY <1>9, <1>12, <1>13
<1>15. RegistersAreSound'
  BY <1>14 DEF RegistersAreSound, Exact, SeenBy
<1>16. QED
  BY <1>7, <1>15

\* The register that merge leaves.
LEMMA ReceiveKeepsSound ==
  ASSUME TypeOK, RegistersAreSound, NEW a \in Actor, Receive(a)
  PROVE  TypeOK' /\ RegistersAreSound'
<1>1. PICK other \in published :
        /\ register' = [register EXCEPT ![a] =
                          [clk  |-> MergedClock(@, other),
                           reg  |-> MergedValues(@, other),
                           past |-> @.past \cup other.past]]
        /\ UNCHANGED <<saw, published>>
  BY DEF Receive
<1>0. PICK old, new :
        /\ old = register[a]
        /\ new = [clk  |-> MergedClock(old, other), reg |-> MergedValues(old, other),
                  past |-> old.past \cup other.past]
  OBVIOUS
<1>2. /\ old \in Register /\ Exact(old.clk, old.past) /\ Sound(old) /\ Behindhand(old)
  BY <1>0, OwnRegister
<1>3. other \in Register /\ Exact(other.clk, other.past) /\ Sound(other) /\ Behindhand(other)
  BY DEF Stamped, RegistersAreSound, TypeOK
<1>4. Exact(new.clk, new.past) /\ Sound(new)
  BY <1>0, <1>2, <1>3, MergeIsSound
<1>5. new \in Register
  <2>1. new.clk \in Clock
    BY <1>4 DEF Exact
  <2>2. new.reg \in SUBSET Event /\ new.past \in SUBSET Event
    BY <1>0, <1>2, <1>3 DEF Register, MergedValues
  <2>3. QED
    BY <1>0, <2>1, <2>2 DEF Register
<1>6. register' = [register EXCEPT ![a] = new]
  BY <1>0, <1>1
<1>7. \A b : /\ Get(new.clk, b) \in {Get(old.clk, b), Get(other.clk, b)}
             /\ b \in Actor => Get(old.clk, b) <= Get(new.clk, b)
  BY <1>0, <1>2, <1>3, MergedCounts
<1>8. TypeOK'
  BY <1>1, <1>5, <1>6 DEF TypeOK
<1>9. \A b \in Actor : register'[b] = IF b = a THEN new ELSE register[b]
  BY <1>6 DEF TypeOK
<1>10. Stamped' \subseteq Stamped \cup {new}
  BY <1>1, <1>9 DEF Stamped
<1>11. \A s : Sound(s)' <=> Sound(s)
  BY <1>1 DEF Sound, Overwrote
<1>12. ASSUME NEW s, Exact(s.clk, s.past), Behindhand(s)
       PROVE  Behindhand(s)'
  <2>1. \A b \in Actor : Get(s.clk, b) \in Nat /\ Get(old.clk, b) \in Nat
                         /\ Get(new.clk, b) \in Nat
    BY <1>2, <1>4, <1>12, GetType DEF Exact
  <2>2. \A b \in Actor : Get(s.clk, b) <= Get(register[b].clk, b)
    BY <1>12 DEF Behindhand
  <2>3. ASSUME NEW b \in Actor PROVE Get(s.clk, b) <= Get(register'[b].clk, b)
    <3>1. CASE b = a
      <4>1. Get(s.clk, b) <= Get(old.clk, b) /\ Get(old.clk, b) <= Get(new.clk, b)
        BY <1>0, <1>7, <2>2, <3>1
      <4>2. Get(s.clk, b) <= Get(new.clk, b)
        BY <2>1, <4>1
      <4>3. QED
        BY <1>9, <3>1, <4>2
    <3>2. CASE b # a
      BY <1>9, <2>2, <3>2
    <3>3. QED
      BY <3>1, <3>2
  <2>4. QED
    BY <2>3 DEF Behindhand
<1>13. Behindhand(new)'
  <2>1. Behindhand(old)' /\ Behindhand(other)'
    BY <1>2, <1>3, <1>12
  <2>2. \A b \in Actor : Get(new.clk, b) <= Get(register'[b].clk, b)
    <3>1. \A b \in Actor : /\ Get(old.clk, b) <= Get(register'[b].clk, b)
                           /\ Get(other.clk, b) <= Get(register'[b].clk, b)
      BY <2>1 DEF Behindhand
    <3>2. QED
      BY <1>7, <3>1
  <2>3. QED
    BY <2>2 DEF Behindhand
<1>14. \A s \in Stamped' : Exact(s.clk, s.past) /\ Sound(s)' /\ Behindhand(s)'
  BY <1>4, <1>10, <1>11, <1>12, <1>13 DEF RegistersAreSound
<1>15. RegistersAreSound'
  BY <1>14 DEF RegistersAreSound, Exact, SeenBy
<1>16. QED
  BY <1>8, <1>15

LEMMA NextSound ==
  ASSUME TypeOK, RegistersAreSound, [Next]_vars
  PROVE  TypeOK' /\ RegistersAreSound'
<1>1. ASSUME NEW a \in Actor, Set(a) PROVE TypeOK' /\ RegistersAreSound'
  BY <1>1, SetKeepsSound
<1>2. ASSUME NEW a \in Actor, Receive(a) PROVE TypeOK' /\ RegistersAreSound'
  BY <1>2, ReceiveKeepsSound
<1>3. ASSUME NEW a \in Actor, Send(a) PROVE TypeOK' /\ RegistersAreSound'
  <2>1. TypeOK'
    BY <1>3 DEF Send, TypeOK
  <2>2. \A s \in Stamped' : s \in Stamped
    BY <1>3 DEF Send, Stamped
  <2>3. \A s : (Sound(s)' <=> Sound(s)) /\ (Behindhand(s)' <=> Behindhand(s))
    BY <1>3 DEF Send, Sound, Overwrote, Behindhand
  <2>4. RegistersAreSound'
    BY <2>2, <2>3 DEF RegistersAreSound, Exact, SeenBy
  <2>5. QED
    BY <2>1, <2>4
<1>4. CASE UNCHANGED vars
  <2>1. TypeOK'
    BY <1>4 DEF vars, TypeOK
  <2>2. Stamped' = Stamped
    BY <1>4 DEF vars, Stamped
  <2>3. \A s : (Sound(s)' <=> Sound(s)) /\ (Behindhand(s)' <=> Behindhand(s))
    BY <1>4 DEF vars, Sound, Overwrote, Behindhand
  <2>4. RegistersAreSound'
    BY <2>2, <2>3 DEF RegistersAreSound, Exact, SeenBy
  <2>5. QED
    BY <2>1, <2>4
<1>5. QED
  BY <1>1, <1>2, <1>3, <1>4 DEF Next

--------------------------------------------------------------------------------
(***************************************************************************)
(* The theorems.                                                           *)
(***************************************************************************)

\* The variables keep their types: every clock is a map of some slots to counts.
THEOREM TypeCorrect == Spec => []TypeOK
<1>1. TypeOK /\ RegistersAreSound /\ [Next]_vars => (TypeOK /\ RegistersAreSound)'
  BY NextSound
<1>2. QED
  BY <1>1, InitSound, PTL DEF Spec

\* compare says exactly how the events behind two clocks are related, for any
\* number of owners and sets and whatever copies were lost, late or repeated
\* (vector_clock.cpp:37-95).
THEOREM ClocksDecideCausality == Spec => []CompareDecidesCausality
<1>1. TypeOK /\ RegistersAreSound /\ [Next]_vars => (TypeOK /\ RegistersAreSound)'
  BY NextSound
<1>2. RegistersAreSound => CompareDecidesCausality
  BY CompareIsCausal DEF RegistersAreSound, CompareDecidesCausality
<1>3. QED
  BY <1>1, <1>2, InitSound, PTL DEF Spec

\* merge never gives up a value that no known write has overwritten
\* (mv_register.hpp:75-95).
THEOREM ConcurrentValuesAreKept == Spec => []ConcurrentValuesSurvive
<1>1. TypeOK /\ RegistersAreSound /\ [Next]_vars => (TypeOK /\ RegistersAreSound)'
  BY NextSound
<1>2. TypeOK /\ RegistersAreSound => ConcurrentValuesSurvive
  BY OwnRegister DEF ConcurrentValuesSurvive, Sound
<1>3. QED
  BY <1>1, <1>2, InitSound, PTL DEF Spec

\* get() returns a value only when its writer had seen everything the register
\* knows (mv_register.hpp:68-72).
THEOREM GetReturnsTheLastValue == Spec => []GetIsExact
<1>1. TypeOK /\ RegistersAreSound /\ [Next]_vars => (TypeOK /\ RegistersAreSound)'
  BY NextSound
<1>2. TypeOK /\ RegistersAreSound => GetIsExact
  BY OwnRegister DEF GetIsExact, Sound
<1>3. QED
  BY <1>1, <1>2, InitSound, PTL DEF Spec

================================================================================
