SPECIFICATION FairSpec
CONSTANTS
  MaxFiles = 2
  MaxFileSize = 3
  Names <- MCNames
  BadName = BadName
  InboxCap = 2
  NumFiles = 1
  Size <- MCSize
  Name <- MCName
  OtherSize <- MCOtherSize
  ChunkSize = 1
  HighWater = 2
  MaxAttempts = 1
  NoFile = NoFile
  NoPath = NoPath
  Before <- MCBefore
PROPERTIES
  CancelClosesPeer
CHECK_DEADLOCK FALSE
