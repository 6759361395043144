SPECIFICATION ConnFairSpec
CONSTANTS
  High = 6
  Low = 2
  MaxChunk = 3
  MaxBurst = 3
  Hard = 11
  InboxCap = 2
  MaxEarly = 2
  MaxMsgs = 4
INVARIANTS
  ConnTypeOK NeverOverHard NoLostWakeup InOrder
PROPERTIES
  WakesUp Connects
CHECK_DEADLOCK FALSE
