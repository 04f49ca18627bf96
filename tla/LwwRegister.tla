------------------------------ MODULE LwwRegister ------------------------------
(***************************************************************************)
(* lww_register (caf/crdt/types/lww_register.hpp): one value, the actor     *)
(* that set it, and its vector clock.  Owners set values, publish copies    *)
(* and merge the copies that reach them, in any order and any number of     *)
(* times.  As in MvRegister a value is named by the event that wrote it.    *)
(***************************************************************************)
EXTENDS VectorClock

CONSTANT MaxEvents   \* bound: sets by one owner

VARIABLES
  register,   \* register[a] : clk_, setter_ and value_ of a's object
  known,      \* history: known[a], the writes that were set or merged by a
  saw,        \* history: saw[e], the writes known to e's writer, e among them
  published   \* the copies that were sent

vars == <<register, known, saw, published>>

\* The handles of the owners are ordered; the one of a register that was
\* never set is invalid and comes before them.
Invalid == 0

Event == Actor \X (1 .. MaxEvents)

\* value_ before the first set: T's default.
Default == <<Invalid, 0>>

Register == [clk : Clock, setter : Actor \cup {Invalid}, value : Event \cup {Default}]

TypeOK ==
  /\ register \in [Actor -> Register]
  /\ known \in [Actor -> SUBSET Event]
  /\ saw \in [Event -> SUBSET Event]
  /\ published \in SUBSET Register

Init ==
  /\ register = [a \in Actor |->
                   [clk |-> EmptyClock, setter |-> Invalid, value |-> Default]]
  /\ known = [a \in Actor |-> {}]
  /\ saw = [e \in Event |-> {}]
  /\ published = {}

\* set: clk_.increment(owner()), become the setter, publish.
Set(a) ==
  LET e == <<a, Cardinality({f \in Event : f[1] = a /\ saw[f] # {}}) + 1>>
  IN  /\ e \in Event
      /\ register' = [register EXCEPT ![a] =
                        [clk |-> Increment(@.clk, a), setter |-> a, value |-> e]]
      /\ known' = [known EXCEPT ![a] = @ \cup {e}]
      /\ saw' = [saw EXCEPT ![e] = known'[a]]
      /\ published' = published \cup {register'[a]}

\* When merge(other) takes the other register over, clock and all.
Transfers(this, other) ==
  LET order == Compare(this.clk, other.clk)
  IN  \/ order = "greater"
      \/ order = "concurrent" /\ this.setter < other.setter

\* merge; otherwise the register stays as it is.
Receive(a) ==
  \E other \in published :
    /\ register' = [register EXCEPT ![a] = IF Transfers(@, other) THEN other ELSE @]
    /\ known' = [known EXCEPT ![a] = @ \cup saw[other.value]]
    /\ UNCHANGED <<saw, published>>

Next == \E a \in Actor : Set(a) \/ Receive(a)

Spec == Init /\ [][Next]_vars

--------------------------------------------------------------------------------

\* "Last Writer Wins" (lww_register.hpp:31): no register holds a value that a
\* write it has set or merged is known to have overwritten, nor the default
\* once it knows a write.
LastWriterWins ==
  \A a \in Actor : \A f \in known[a] :
    /\ register[a].value # Default
    /\ f # register[a].value => register[a].value \notin saw[f]

================================================================================
