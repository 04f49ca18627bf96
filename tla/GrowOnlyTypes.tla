----------------------------- MODULE GrowOnlyTypes -----------------------------
(***************************************************************************)
(* gcounter (caf/crdt/types/gcounter.hpp) and gmap (types/gmap.hpp), as     *)
(* functions from the keys that have an entry to their values.  The key of  *)
(* a counter is the owner.  Values are numbers; 0 is their default.         *)
(***************************************************************************)
EXTENDS Naturals

EmptyMap == [k \in {} |-> 0]

Entry(k, v) == [j \in {k} |-> v]

\* map_[k], which is the default when there is no entry.
At(m, k) == IF k \in DOMAIN m THEN m[k] ELSE 0

\* m has all that other has.
Includes(m, other) == \A k \in DOMAIN other : k \in DOMAIN m /\ other[k] <= m[k]

\* Fault: the values of the other map win.
MergeOverwriting(this, other) ==
  [k \in DOMAIN this \cup DOMAIN other |->
     IF k \in DOMAIN other THEN other[k] ELSE this[k]]

\* Fault: values are added.
MergeAdding(this, other) ==
  [k \in DOMAIN this \cup DOMAIN other |-> At(this, k) + At(other, k)]

\* The map that merge(other) leaves, for both types.
Merge(this, other) ==
  [k \in DOMAIN this \cup DOMAIN other |->
     IF k \in DOMAIN other /\ At(this, k) < other[k] THEN other[k] ELSE At(this, k)]

\* The delta merge returns: a counter's has the raised entries, ...
GCounterDelta(this, other) ==
  [k \in {j \in DOMAIN other : At(this, j) < other[j]} |-> other[k]]

\* ... a map's also those the other map has too small.
GMapDelta(this, other) ==
  [k \in {j \in DOMAIN other : At(this, j) # other[j]} |-> At(Merge(this, other), k)]

\* increment_by: the new value of the own slot, for an increment by d.
Incremented(m, owner, d) == At(m, owner) + d

\* set assigns a new key, and a greater value.
SetAssigns(m, k, v) == k \in DOMAIN m => m[k] < v

================================================================================
