SPECIFICATION Spec
CONSTANTS
  Actor = {1, 2}
  MaxEvents = 2
INVARIANT LastWriterWins
