SPECIFICATION FairSpec
CONSTANTS
  Waiter = {call}
  TheCall = call
  InitMayFail = TRUE
  MaxLosses = 2
  BelowInBinary = {1001}
  RoundsUp = {1234565}
  IntMax = 1073741823
  Wanted <- SomeWanted
  Handwritten <- SomeHandwritten
PROPERTIES
  FailedInitFillsFuture
CHECK_DEADLOCK FALSE
