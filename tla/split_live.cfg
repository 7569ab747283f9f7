CONSTANTS
  p1 = p1
  Producers = {p1}
  FrameCap = 1
  MsgCap = 1
  OutCap = 1
  ReadTimeout = 1
  ReadLockTimeout = 1
  WriteLockTimeout = 2
  Late = 0
  MaxSends = 3
  MaxInbound = 2
SPECIFICATION NoConsumerSpec
INVARIANTS NothingDropped DrainOnClose
PROPERTIES OutboundInOrder InboundInOrder OutboundProgress SendersReleased BrokenPortCloses InboundProgress ReadErrorEndsReader
CHECK_DEADLOCK FALSE
