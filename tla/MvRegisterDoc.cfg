SPECIFICATION Spec
CONSTANTS
  Actor = {a1, a2}
  MaxEvents = 2
INVARIANT SetHoldsOnlyCurrentValues
