SPECIFICATION Spec
CONSTANTS
  ReadCalls = 1
  WriteCalls = 1
  PingCalls = 1
  MaxFrames = 2
  MaxPeer = 1
  IdleTimeout = FALSE
  HandshakeTimeout = FALSE
  KeepAlive = FALSE
  CtrlCb = FALSE
  PeerErrors = TRUE
  NetErrors = TRUE
  FullBuffers = TRUE
INVARIANTS
  OneWriter
  OneReader
  CloseFrameIsLast
  AssertionsHold
PROPERTIES
  ImplementsWriteBlock
  ImplementsReadBlock
  DeadIsFinal
CHECK_DEADLOCK FALSE
