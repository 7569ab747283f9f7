CONSTANTS
  p1 = p1
  Producers = {p1}
  FrameCap = 1
  MsgCap = 1
  OutCap = 1
  ReadTimeout = 1
  ReadLockTimeout = 1
  WriteLockTimeout = 2
  Late = 1
  MaxSends = 3
  MaxInbound = 2
  Requests <- Mixed
  Incoming <- Heard
  MaxFlushes = 1
SPECIFICATION ZSpec
INVARIANTS RequestsAccounted ConversionsReverse FlushedIsGone ClosedMeansDrained
CHECK_DEADLOCK FALSE
