SPECIFICATION FairSpec
CONSTANTS
  Roles = {"client", "server"}
  Sessions = 2
  Frames = 2
  HeadSizes = {1, 3}
  Room = 2
  HandshakeTimeout = TRUE
  IdleTimeout = TRUE
  KeepAlive = TRUE
  NetErrors = TRUE
INVARIANTS
  FramesInOrder
  CauseTold
PROPERTIES
  OpenedForReal
  HandshakeTerminates
CHECK_DEADLOCK FALSE
