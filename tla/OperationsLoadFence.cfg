SPECIFICATION Spec
CONSTANTS
  Call = {c1, c2}
  MaxTxn = 2
  MaxSession = 3
SYMMETRY Symmetry
INVARIANTS
  NoUseOfDeletedPromise
CHECK_DEADLOCK FALSE
