SPECIFICATION Spec
CONSTANTS
  Tasks = {"a", "b"}
  NodeOf <- TwoNodes
  Lengths = {0, 3, 13, 19, 20}
  TxMtu = 20
  RxMtu = 19
  IdMod <- IdMods
  CountMod <- CountMods
  PoolSize = 2
  FifoCap = 1
  MaxPackets = 2
  MaxTime = 3
  Bus = {"lose", "twice"}
  MayFail = TRUE
INVARIANTS TypeOK OnlyIntact   AllArrive
CHECK_DEADLOCK FALSE
