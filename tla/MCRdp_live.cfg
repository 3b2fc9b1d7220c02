SPECIFICATION DeliverySpec
CONSTANTS
  Mod = 16
  Window = 1
  RxLen = 4
  QueueCap = 2
  AckDelay = 1
  DelayedAcks = TRUE
  Iss <- NearWrap
  Senders = {"client"}
  Closers = {}
  MaxConnects = 1
  MaxSend = 2
  NetCap = 2
  Duplicating = FALSE
  Expires = FALSE
  MayFail = FALSE
PROPERTIES Delivered SenderUnblocked
