SPECIFICATION RendezvousSpec
CONSTANTS
  Senders <- MCSenders
  Receivers <- MCReceivers
  Tokens <- MCTokens
  None = None
  Ttl = 1
  Attempts = 2
  MaxTime = 2
INVARIANTS
  RightAnswer OneExchange
CHECK_DEADLOCK FALSE
