SPECIFICATION FairSpec
CONSTANTS
  Node = {n1, n2}
  Uri = {u1}
  Delta = {d1}
  MaxVersion = 1
  MaxInFlight = 9
PROPERTY PullsAreAnswered
