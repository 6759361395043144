SPECIFICATION HandshakeFairSpec
CONSTANTS
  Senders <- MCSenders
  Receivers <- MCReceivers
  Tokens <- MCTokens
  None = None
  Ttl = 1
  Attempts = 1
  MaxTime = 1
  Calls <- MCCalls
  MaxLines <- MCMaxLines
INVARIANTS
  HandshakeTypeOK NoneStaysOffline TerminalKeepsLines ExitIsTrue
PROPERTIES
  CtrlCEnds SearchEnds
CHECK_DEADLOCK FALSE
