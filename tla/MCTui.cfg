SPECIFICATION TuiFairSpec
CONSTANTS
  MaxAttempts = 2
INVARIANTS
  TuiTypeOK InStep SpinnerWaits
PROPERTIES
  GatheringEnds
CHECK_DEADLOCK FALSE
