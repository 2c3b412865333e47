SPECIFICATION FairSpec
CONSTANTS
  MaxPush = 6
  MaxReentrant = 2
INVARIANTS
  ExactlyOnce
PROPERTIES
  BufferStable
  ImplementsOrderedSender
  EveryPushAnswered
CHECK_DEADLOCK FALSE
