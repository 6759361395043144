SPECIFICATION FairSpec
CONSTANTS
  MaxFiles = 2
  MaxFileSize = 3
  Names <- MCNames
  BadName = BadName
  InboxCap = 1
  NumFiles = 2
  Size <- MCSize
  Name <- MCName
  OtherSize <- MCOtherSize
  ChunkSize = 2
  HighWater = 100
  PeerMsgs <- MCPeerMsgs
  MaxGiven = 4
  MaxFlying = 1
INVARIANTS
  SpeaksTP1 OnlyAccepted PeerIsTold
PROPERTIES
  DeferralKeeps PeerCloseEndsSend
CHECK_DEADLOCK FALSE
