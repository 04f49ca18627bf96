SPECIFICATION FairSpec
CONSTANTS
  Node = {n1, n2}
  Peer <- Mesh
  Key = {k1}
  Value = {0, 1, 2}
  MaxInFlight = 2
  MaxUpdates = 2
  MaxFaults = 1
INVARIANTS TypeOK DeltasLeaveNoGap
PROPERTIES ImplementsStore Converge
