SPECIFICATION Spec
CONSTANTS
  ReadCalls = 2
  WriteCalls = 0
  PingCalls = 0
  MaxFrames = 1
  MaxPeer = 2
  IdleTimeout = TRUE
  HandshakeTimeout = TRUE
  KeepAlive = TRUE
  CtrlCb = TRUE
  PeerErrors = TRUE
  NetErrors = FALSE
  FullBuffers = TRUE
INVARIANTS
  TypeOK
  NobodyStranded
  BlocksReleased
  BlocksHeld
  SuspendedReadStops
  EndOfMessage
CHECK_DEADLOCK FALSE
