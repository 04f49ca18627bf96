------------------------------ MODULE VectorClock ------------------------------
(***************************************************************************)
(* The operations of vector_clock (caf/crdt/vector_clock.hpp,              *)
(* src/vector_clock.cpp).  A clock is the function map_ from the slots that *)
(* have an entry to their counts.                                          *)
(***************************************************************************)
EXTENDS Naturals, FiniteSets

CONSTANT Actor   \* the slots

Clock == UNION {[S -> Nat] : S \in SUBSET Actor}

EmptyClock == [a \in {} |-> 0]

Get(clk, a) == IF a \in DOMAIN clk THEN clk[a] ELSE 0

Increment(clk, a) ==
  [b \in DOMAIN clk \cup {a} |-> IF b = a THEN Get(clk, a) + 1 ELSE clk[b]]

\* The public count(), with which a register tells whether it was ever set.
Count(clk) == Cardinality(DOMAIN clk)

\* this is ahead of other in slot a: the first loop of compare clears `s`.
Ahead(this, other, a) ==
  /\ a \in DOMAIN this
  /\ IF a \in DOMAIN other THEN this[a] > other[a] ELSE this[a] # 0

\* this is behind other in slot a: the first or the second loop clears `g`.
Behind(this, other, a) ==
  /\ a \in DOMAIN other
  /\ IF a \in DOMAIN this THEN this[a] < other[a] ELSE other[a] # 0

\* Fault: the second loop is missing.
CompareOwnSlots(this, other) ==
  LET ahead  == \E a \in DOMAIN this : Ahead(this, other, a)
      behind == \E a \in DOMAIN this : Behind(this, other, a)
  IN  IF ~ahead /\ ~behind THEN "equal"
      ELSE IF ahead /\ ~behind THEN "greater"
      ELSE IF ~ahead /\ behind THEN "smaller" ELSE "concurrent"

\* A clock is "greater" when it is ahead somewhere and behind nowhere.
Compare(this, other) ==
  LET ahead  == \E a \in DOMAIN this : Ahead(this, other, a)
      behind == \E a \in DOMAIN other : Behind(this, other, a)
  IN  IF ~ahead /\ ~behind THEN "equal"
      ELSE IF ahead /\ ~behind THEN "greater"
      ELSE IF ~ahead /\ behind THEN "smaller" ELSE "concurrent"

\* The slots the two copy_if loops of merge put into the delta.
OnlyInThis(this, other) == DOMAIN this \ DOMAIN other

NotInThisOrMax(this, other) ==
  {a \in DOMAIN other : a \notin DOMAIN this \/ this[a] < other[a]}

MergeDelta(this, other) ==
  [a \in OnlyInThis(this, other) \cup NotInThisOrMax(this, other) |->
     IF a \in DOMAIN other THEN other[a] ELSE this[a]]

\* The clock after merge(other).
Merge(this, other) ==
  LET delta == MergeDelta(this, other)
  IN  [a \in DOMAIN this \cup DOMAIN delta |->
         IF a \in DOMAIN delta /\ Get(this, a) < delta[a]
         THEN delta[a] ELSE Get(this, a)]

================================================================================
