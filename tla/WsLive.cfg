SPECIFICATION FairSpec
CONSTANTS
  ReadCalls = 1
  WriteCalls = 1
  PingCalls = 0
  MaxFrames = 1
  MaxPeer = 1
  IdleTimeout = TRUE
  HandshakeTimeout = TRUE
  KeepAlive = FALSE
  CtrlCb = FALSE
  PeerErrors = TRUE
  NetErrors = TRUE
  FullBuffers = TRUE
INVARIANTS
  TimeoutReported
  OneReport
PROPERTIES
  EndsUnlessForsaken
CHECK_DEADLOCK FALSE
