SPECIFICATION FairSpec
CONSTANTS
  ReadCalls = 1
  WriteCalls = 0
  PingCalls = 0
  MaxFrames = 1
  MaxPeer = 1
  IdleTimeout = TRUE
  HandshakeTimeout = TRUE
  KeepAlive = FALSE
  CtrlCb = FALSE
  PeerErrors = TRUE
  NetErrors = FALSE
  FullBuffers = FALSE
PROPERTIES
  CloseTerminates
CHECK_DEADLOCK FALSE
