SPECIFICATION FairSpec
CONSTANTS
  MaxFiles = 2
  MaxFileSize = 3
  Names <- MCNames
  BadName = BadName
  InboxCap = 1
  MaxAttempts = 3
  NoFile = NoFile
  NoPath = NoPath
  Before <- MCBefore
  PeerMsgs <- MCPeerMsgs
  MaxFlying = 1
INVARIANTS
  NothingLeftBehind SavedAsClaimed SpeaksTP1 PeerIsTold
PROPERTIES
  PeerCloseEndsReceive
CHECK_DEADLOCK FALSE
