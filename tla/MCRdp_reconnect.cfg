SPECIFICATION Spec
CONSTANTS
  Mod = 16
  Window = 1
  RxLen = 4
  QueueCap = 2
  AckDelay = 0
  DelayedAcks = TRUE
  Iss <- NearWrap
  Senders = {"client"}
  Closers = {"client", "server"}
  MaxConnects = 2
  MaxSend = 1
  NetCap = 1
  Duplicating = TRUE
  Expires = TRUE
  MayFail = TRUE
INVARIANTS  SlotAccounted  
