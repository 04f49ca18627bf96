SPECIFICATION FairSpec
CONSTANTS
  Client = {c1, c2}
  Elem = {e1}
  MaxSpawn = 1
  MaxMail = 2
  MaxDelete = 0
INVARIANT NothingSkipsSubscribers
PROPERTY ChangesReachSubscribers
