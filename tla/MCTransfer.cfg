SPECIFICATION Spec
CONSTANTS
  MaxFiles = 2
  MaxFileSize = 3
  Names <- MCNames
  BadName = BadName
  InboxCap = 2
  NumFiles = 2
  Size <- MCSize
  Name <- MCName
  OtherSize <- MCOtherSize
  ChunkSize = 1
  HighWater = 2
  MaxAttempts = 3
  NoFile = NoFile
  NoPath = NoPath
  Before <- MCBefore
INVARIANTS
  Inductive SavedIntact AckedIsSaved HonestPeersAgree BlameIsTrue FrontEndTold
PROPERTIES
  SavedForever KeepsPromise
CHECK_DEADLOCK FALSE
