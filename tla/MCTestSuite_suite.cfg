SPECIFICATION Spec
CONSTANTS
  BufferCount = 8
  BufferSize = 256
  ConnMax = 8
  QfifoLen = 15
  RxqueueLen = 15
  PortMaxBind = 16
  DedupCount = 1
  DedupWindow = 1
  ClockMod = 4
  DedupMode = "off"
  HostBits = 14
  RtableSize = 1
  RouteIfaces = {"lo"}
  Sockets <- mc_Sockets
  IfList <- mc_IfList
  Iface <- mc_Iface
  CmpRoute <- mc_CmpRoute
  Clients = {"client"}
  ServerPort = 10
  Garbage = {0}
  Campaign <- mc_Campaign
INVARIANTS  NothingLost
