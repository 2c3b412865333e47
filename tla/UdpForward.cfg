SPECIFICATION FairSpec
CONSTANTS
  Endpoints = {a}
  MaxSessions = 2
  MaxPackets = 3
  MaxReplies = 2
INVARIANTS
  UpOrder
  NothingStuck
  RepliesInOrder
PROPERTIES
  Flushed
CHECK_DEADLOCK FALSE
