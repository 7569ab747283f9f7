CONSTANTS
  Configs <- Varied
  Messages <- Plain
  MaxWrites = 5
  MaxTorn = 1
SPECIFICATION Spec
INVARIANTS TypeOK ConfigArrives WritesReadBack TornWriteBounded
CHECK_DEADLOCK FALSE
