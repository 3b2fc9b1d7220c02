SPECIFICATION Spec
CONSTANTS
  MaxRx = 6
  QfifoLen = 1
  Transfers <- mc_Alike
  Pool = 2
  RxqueueLen = 1
  Noise <- mc_Noise
  MaxNoise = 1
INVARIANT OnlyWhole
CHECK_DEADLOCK FALSE
