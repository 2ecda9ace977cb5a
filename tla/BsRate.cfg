SPECIFICATION FairSpec
CONSTANTS
  Transfers = 2
  Connects = 0
  Expires = 1
  Stops = 1
  Limit = 1
  Limited = TRUE
  NetErrors = FALSE
INVARIANTS
  RateWaitersCounted
PROPERTIES
  BudgetRenewedUncut
  DeadlineEnds
CHECK_DEADLOCK FALSE
