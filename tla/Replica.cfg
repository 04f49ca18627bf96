SPECIFICATION Spec
CONSTANTS
  Client = {c1}
  Elem = {e1}
  MaxSpawn = 2
  MaxMail = 2
  MaxDelete = 1
INVARIANTS TypeOK ReadsSeeAckedWrites QuitReplicasOweNothing
