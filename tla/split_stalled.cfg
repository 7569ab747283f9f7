CONSTANTS
  p1 = p1
  Producers = {p1}
  FrameCap = 1
  MsgCap = 1
  OutCap = 1
  ReadTimeout = 1
  ReadLockTimeout = 2
  WriteLockTimeout = 4
  Late = 1
  MaxSends = 2
  MaxInbound = 1
SPECIFICATION StalledDeviceSpec
PROPERTIES HalvesIndependent
CHECK_DEADLOCK FALSE
