SPECIFICATION Spec
CONSTANTS
  Mod = 16
  Window = 2
  RxLen = 6
  QueueCap = 4
  AckDelay = 1
  DelayedAcks = TRUE
  Iss <- NearWrap
  Senders = {"client"}
  Closers = {}
  MaxConnects = 1
  MaxSend = 3
  NetCap = 2
  Duplicating = FALSE
  Expires = FALSE
  MayFail = FALSE
INVARIANTS TypeOK Retained WindowRespected
PROPERTY StreamSpec
