SPECIFICATION ReclaimSpec
CONSTANTS
  Mod = 16
  Window = 1
  RxLen = 4
  QueueCap = 2
  AckDelay = 1
  DelayedAcks = TRUE
  Iss <- NearWrap
  Senders = {"client"}
  Closers = {"client", "server"}
  MaxConnects = 1
  MaxSend = 2
  NetCap = 1
  Duplicating = FALSE
  Expires = TRUE
  MayFail = FALSE
PROPERTY SlotReclaimed
