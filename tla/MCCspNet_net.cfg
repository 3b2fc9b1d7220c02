SPECIFICATION Spec
CONSTANTS
  BufferCount = 3
  BufferSize = 256
  ConnMax = 2
  QfifoLen = 2
  RxqueueLen = 1
  PortMaxBind = 8
  DedupCount = 2
  DedupWindow = 1
  ClockMod = 8
  DedupMode = "all"
  HostBits = 4
  RtableSize = 2
  RouteIfaces = {"lo", "A", "B", "C"}
  Sockets <- mc_Sockets
  IfList <- mc_IfList
  Iface <- mc_Iface
  CmpRoute <- mc_CmpRoute
  Clients = {c1, c2}
  ServerPort = 7
  Garbage = {7}
  Scenes <- mc_Scenes
SYMMETRY mc_Symmetry
INVARIANTS TypeOK BuffersOwned ConnsOwned AnswersMine OnlyVerified DedupExact
 
CHECK_DEADLOCK FALSE
