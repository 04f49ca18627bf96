SPECIFICATION FairSpec
CONSTANTS
  Node = {1, 2, 3}
  View = {{1, 2, 3}, {0}}
  K = {0, 1}
  SizeT = 8
  MaxOps = 2
  MaxTimeouts = 1
INVARIANTS TypeOK SuccessMeansAccepted ReadsSeeCompletedWrites WaitingIsOwed
PROPERTIES ImplementsQuorums RequestsComplete
CHECK_DEADLOCK FALSE
