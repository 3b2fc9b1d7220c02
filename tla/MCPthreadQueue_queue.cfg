CONSTANTS
  Threads = {t1, t2, t3}
  Values = {v1, v2}
  NoValue = NoValue
  Size = 2
  StaleErrno = {FALSE}
  MaxPut = 3
SPECIFICATION FairSpec
INVARIANTS TypeOK NoLostWakeup
PROPERTIES FifoSpec  WaitersServed
