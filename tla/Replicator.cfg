SPECIFICATION FairReplicatorSpec
CONSTANTS
  Node = {n1, n2}
  Uri = {u1}
  Registered <- Everywhere
  Delta = {d1}
  MaxVersion = 2
  MaxInFlight = 1
INVARIANTS IndexMatchesFilters CaughtUpViewsAreExact OnlyWantedIdsSpread CaughtUpPeersSend
PROPERTIES ViewsOnlyAdvance ImplementsLayer PairedNodesReconcile HoldersShareStates
