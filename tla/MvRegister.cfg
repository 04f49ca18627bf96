SPECIFICATION Spec
CONSTANTS
  Actor = {a1, a2}
  MaxEvents = 3
SYMMETRY SymmetricActors
INVARIANTS CompareDecidesCausality ConcurrentValuesSurvive GetIsExact
