SPECIFICATION FairStopSpec
CONSTANTS
  n1 = n1
  n2 = n2
  n3 = n3
  Node = {n1, n2, n3}
  Peer <- Line
  Key = {k1}
  Value = {0, 1}
  MaxInFlight = 1
  MaxUpdates = 1
  MaxFaults = 0
  MaxStops = 1
INVARIANT NothingIsLeftBehind
PROPERTY RunningPeersConverge
