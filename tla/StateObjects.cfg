SPECIFICATION Spec
CONSTANTS
  Actor = {a1}
  Object = {o1, o2}
  Text <- Texts
  MaxCount = 2
  MaxMailbox = 2
SYMMETRY SymmetricObjects
INVARIANTS TypeOK SubscribedWhileNoneIsDestroyed OnlyUnawareIncrementsAreLost TextsDenoteIds
