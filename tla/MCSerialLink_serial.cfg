SPECIFICATION Spec
CONSTANTS
  MaxRx = 6
  QfifoLen = 1
  Transfers <- mc_Different
  Pool = 2
  RxqueueLen = 1
  Noise <- mc_Noise
  MaxNoise = 2
INVARIANTS OnlyWhole PacketsAccounted FrameLossBounded
CHECK_DEADLOCK FALSE
