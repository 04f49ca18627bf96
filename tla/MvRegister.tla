------------------------------ MODULE MvRegister ------------------------------
(***************************************************************************)
(* mv_register (caf/crdt/types/mv_register.hpp).  Every owner has a         *)
(* register, increments its own slot of the clock with every set, publishes *)
(* copies, and merges the copies that reach it, late, out of order,         *)
(* repeatedly or never.                                                     *)
(*                                                                          *)
(* Every set writes a value of its own, so a value is named by the event    *)
(* that wrote it.  For distinct values register_ is an ordinary set, up to  *)
(* repetitions, whatever the operator< of the clocks does; the proof of     *)
(* GetIsExact shows that a repetition never makes get() miss a value.       *)
(***************************************************************************)
EXTENDS VectorClock

CONSTANT MaxEvents   \* bound: sets by one owner

ASSUME MaxEventsIsNat == MaxEvents \in Nat

VARIABLES
  register,   \* register[a] : clk_ and register_ (reg) of a's object, and as
              \* history the events it includes (past)
  saw,        \* history: saw[e], the events its writer had seen, e among them
  published   \* the copies that were sent

vars == <<register, saw, published>>

Event == Actor \X (1 .. MaxEvents)

Register == [clk : Clock, reg : SUBSET Event, past : SUBSET Event]

TypeOK ==
  /\ register \in [Actor -> Register]
  /\ saw \in [Event -> SUBSET Event]
  /\ published \in SUBSET Register

Init ==
  /\ register = [a \in Actor |-> [clk |-> EmptyClock, reg |-> {}, past |-> {}]]
  /\ saw = [e \in Event |-> {}]
  /\ published = {}

\* The register that set leaves and publishes.
AfterSet(a) ==
  LET this == register[a]
      e    == <<a, Get(this.clk, a) + 1>>
  IN  [clk |-> Increment(this.clk, a), reg |-> {e}, past |-> this.past \cup {e}]

\* set: clk_.increment(owner()), replace register_, publish.
Set(a) ==
  /\ Get(register[a].clk, a) < MaxEvents
  /\ register' = [register EXCEPT ![a] = AfterSet(a)]
  /\ saw' = [saw EXCEPT ![<<a, Get(register[a].clk, a) + 1>>] = AfterSet(a).past]
  /\ published' = published \cup {AfterSet(a)}

\* A copy of the object goes out (serialize).
Send(a) ==
  /\ published' = published \cup {register[a]}
  /\ UNCHANGED <<register, saw>>

\* Fault: the operands of compare are swapped, as in lww_register::merge.
MergedValuesSwapped(this, other) ==
  CASE Compare(this.clk, other.clk) = "greater"    -> other.reg
    [] Compare(this.clk, other.clk) = "concurrent" -> this.reg \cup other.reg
    [] OTHER                                       -> this.reg

\* register_ after merge(other).
MergedValues(this, other) ==
  CASE Compare(other.clk, this.clk) = "greater"    -> other.reg
    [] Compare(other.clk, this.clk) = "concurrent" -> this.reg \cup other.reg
    [] OTHER                                       -> this.reg

\* Fault: a greater register is taken over without its clock.
MergedClockIfConcurrent(this, other) ==
  IF Compare(other.clk, this.clk) = "concurrent"
  THEN Merge(this.clk, other.clk) ELSE this.clk

\* clk_ after merge(other): an equal or smaller clock returns early.
MergedClock(this, other) ==
  IF Compare(other.clk, this.clk) \in {"greater", "concurrent"}
  THEN Merge(this.clk, other.clk) ELSE this.clk

Receive(a) ==
  \E other \in published :
    /\ register' = [register EXCEPT ![a] =
                      [clk  |-> MergedClock(@, other),
                       reg  |-> MergedValues(@, other),
                       past |-> @.past \cup other.past]]
    /\ UNCHANGED <<saw, published>>

Next == \E a \in Actor : Set(a) \/ Send(a) \/ Receive(a)

Spec == Init /\ [][Next]_vars

--------------------------------------------------------------------------------

\* All registers that are current or were sent.
Stamped == published \cup {register[a] : a \in Actor}

\* How the events of two registers are related.
CompareEvents(p, q) ==
  IF p = q THEN "equal"
  ELSE IF q \subseteq p THEN "greater"
  ELSE IF p \subseteq q THEN "smaller" ELSE "concurrent"

\* compare decides causality: it says exactly how the events that two clocks
\* have seen are related, for any two clocks that were ever current or sent.
CompareDecidesCausality ==
  \A s, t \in Stamped : Compare(s.clk, t.clk) = CompareEvents(s.past, t.past)

\* f overwrote e: its writer had seen e.
Overwrote(f, e) == f # e /\ e \in saw[f]

\* A value is only given up for one that overwrote it: whatever copies were
\* merged in whatever order, get_set() holds every written value that the
\* register knows and that no write it knows has overwritten.
ConcurrentValuesSurvive ==
  \A a \in Actor : \A e \in register[a].past :
    e \in register[a].reg \/ \E f \in register[a].past : Overwrote(f, e)

\* When get() returns a value, its writer had seen every write the register
\* knows: get() hides no concurrent value and returns no outdated one.
GetIsExact ==
  \A a \in Actor : \A e \in Event :
    register[a].reg = {e} => register[a].past = saw[e]

\* "the current set of elements" (mv_register.hpp:60): no value in get_set()
\* was overwritten by a write that the register knows.
SetHoldsOnlyCurrentValues ==
  \A a \in Actor : \A e \in register[a].reg :
    ~ \E f \in register[a].past : Overwrote(f, e)

================================================================================
