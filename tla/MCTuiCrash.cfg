SPECIFICATION TuiSpec
CONSTANTS
  MaxAttempts = 1
INVARIANTS
  NeverCrashes
CHECK_DEADLOCK FALSE
