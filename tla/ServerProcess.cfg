SPECIFICATION FairSpec
CONSTANTS
  Server = {s1, s2}
  Stubborn = {s2}
  Silent = {s2}
  Kept = {s2}
  PipeMax = 1
INVARIANTS
  NothingIsLeftBehind
  SignalsOwnChild
  AlarmIsHarmless
PROPERTIES
  ShutdownStops
CHECK_DEADLOCK FALSE
