SPECIFICATION Spec
CONSTANTS
  Call = {c1, c2}
  Addr = {a1, a2}
  MaxSession = 3
  NoCall = NoCall
  NoAddr = NoAddr
SYMMETRY Symmetry
INVARIANTS
  AnsweredIsNotClosed
CHECK_DEADLOCK FALSE
