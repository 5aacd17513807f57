SPECIFICATION FairSpec
CONSTANTS
  Waiter = {call, w1, w2}
  TheCall = call
  InitMayFail = TRUE
  MaxLosses = 2
  BelowInBinary = {1001}
  RoundsUp = {1234565}
  IntMax = 1073741823
  Wanted <- SomeWanted
  Handwritten <- SomeHandwritten
INVARIANTS
  EveryWaiterIsKept
  StateSeenIsTrue
  NoMissedConnection
  OutcomeIsTrue
  ConnectsAsAsked
  TimeoutIsClose
PROPERTIES
  StateSeenOnce
  ConnectEndsIfRecoverable
CHECK_DEADLOCK FALSE
