SPECIFICATION Spec
CONSTANTS
  Transfers = 2
  Connects = 1
  Expires = 2
  Stops = 1
  Limit = 1
  Limited = FALSE
  NetErrors = TRUE
INVARIANTS
  AssertionsHold
  TimeoutFlagOwned
PROPERTIES
  TimeoutTold
  ClosedForCause
CHECK_DEADLOCK FALSE
