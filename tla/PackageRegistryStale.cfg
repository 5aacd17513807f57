SPECIFICATION Spec
CONSTANTS
  Registration = {g1, g2, g3}
  Version = {v1, v2, v3}
  None = None
INVARIANTS
  OnlyOwnEntryIsRemoved
CHECK_DEADLOCK FALSE
