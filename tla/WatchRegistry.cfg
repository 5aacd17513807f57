SPECIFICATION FairSpec
CONSTANTS
  Call = {c1, c2}
  Addr = {a1, a2}
  MaxSession = 3
  NoCall = NoCall
  NoAddr = NoAddr
INVARIANTS
  TypeOK
  NoDanglingWatcher
  ClosedOnlyByClose
  NoLostWatch
  WatchIsArmed
  CloseSettlesAll
  MapMatchesMemory
PROPERTIES
  MeetsContract
  AnswersArrive
  CloseEnds
CHECK_DEADLOCK FALSE
