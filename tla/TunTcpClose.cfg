SPECIFICATION Spec
CONSTANTS
  Modes = {"pipeline"}
  Window = 1
  SndBuf = 2
  RcvWnd = 2
  SendMax = 1
  AppVolume = 0
  FarVolume = 2
INVARIANTS ClosedWhole
CHECK_DEADLOCK FALSE
