SPECIFICATION FairSpec
CONSTANTS
  Server = {s1}
  Stubborn = {s1}
  Silent = {}
  Kept = {}
  PipeMax = 1
PROPERTIES
  EscalatesToAbort
CHECK_DEADLOCK FALSE
