SPECIFICATION Spec
CONSTANTS
  IsRequest = TRUE
  ToServer = TRUE
  Limit = 6
  WriteModes = {"write", "header"}
  MayFail = TRUE
  MaxBuffer = 11
  HeaderLimit = 11
  BodyLimit = 2
  ReadModes = {"read", "header", "some"}
  Readers = {"string", "buffer"}
  Window = 1
  Scripts <- RequestScripts
INVARIANTS
  BytesAgree
  AssertionsHold
PROPERTIES
  ImplementsPipe
CHECK_DEADLOCK FALSE
