SPECIFICATION InteropFairSpec
CONSTANTS
  MaxFiles = 2
  MaxFileSize = 3
  Names <- MCNames
  BadName = BadName
  InboxCap = 2
  NumFiles = 2
  Size <- MCSize
  Name <- MCName
  OtherSize <- MCOtherSize
  ChunkSize = 1
  HighWater = 2
  MaxAttempts = 2
  NoFile = NoFile
  NoPath = NoPath
  Before <- MCBefore
  LowWater = 1
  MaxRead = 2
INVARIANTS
  InteropTypeOK SuccessIsShared NobodyIsAccused
PROPERTIES
  BothSidesEnd
CHECK_DEADLOCK FALSE
