SPECIFICATION FairSpec
CONSTANTS
  Client = {c1}
  Elem = {e1}
  MaxSpawn = 2
  MaxMail = 1
  MaxDelete = 1
PROPERTY ChangesReachSubscribers
