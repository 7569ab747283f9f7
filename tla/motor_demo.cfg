CONSTANTS
  p1 = p1
  Producers = {p1}
  FrameCap = 100
  MsgCap = 100
  OutCap = 2
  ReadTimeout = 1
  ReadLockTimeout = 2
  WriteLockTimeout = 4
  Late = 1
  MaxSends = 12
  MaxInbound = 0
  MMCL_LEN = 512
SPECIFICATION MSpec
INVARIANT StoppedAndPoweredOff
CHECK_DEADLOCK FALSE
