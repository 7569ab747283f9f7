CONSTANTS
  p1 = p1
  p2 = p2
  Producers = {p1, p2}
  FrameCap = 2
  MsgCap = 1
  OutCap = 1
  ReadTimeout = 1
  ReadLockTimeout = 2
  WriteLockTimeout = 2
  Late = 1
  MaxSends = 2
  MaxInbound = 1
SPECIFICATION Spec
SYMMETRY Interchangeable
INVARIANTS TypeOK LockDiscipline OnlyGivenUpLost
CHECK_DEADLOCK FALSE
