SPECIFICATION FairSpec
CONSTANTS
  IsRequest = FALSE
  ToServer = FALSE
  Limit = 6
  WriteModes = {"write", "header"}
  MayFail = FALSE
  MaxBuffer = 12
  HeaderLimit = 12
  BodyLimit = 4
  ReadModes = {"read", "header", "some"}
  Readers = {"buffer"}
  Window = 1
  Scripts <- ResponseScripts
INVARIANTS
  NothingToWaitFor
  HeaderAlone
PROPERTIES
  EveryMessageRead
CHECK_DEADLOCK FALSE
