SPECIFICATION FairSpec
CONSTANTS
  Modes = {"pipeline", "tls", "local"}
  Window = 1
  SndBuf = 1
  RcvWnd = 2
  SendMax = 1
  AppVolume = 4
  FarVolume = 2
INVARIANTS StreamsIntact OneReader OwedExact AcksExact ClosedDrained
PROPERTIES Transfer Drains
CHECK_DEADLOCK FALSE
