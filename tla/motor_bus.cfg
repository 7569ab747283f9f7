CONSTANTS
  Motors = {1, 2}
  MMCL_LEN = 16
  PollLimit = 2
  Menus <- Callers
SPECIFICATION FairSpec
INVARIANTS TypeOK MotorsTakeWholeCommands BatchIsPrefix FreshAnswerIsOwn AnswersInOrder
PROPERTY CallsEnd
CHECK_DEADLOCK FALSE
