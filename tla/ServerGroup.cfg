SPECIFICATION Spec
CONSTANTS
  BelowInBinary = {}
  RoundsUp = {}
  Unknown = {"other"}
  ServerNo = {1, 2, 300}
  Word = {"", "yes", "no", "srvr", "ruok", "ruok<tab>", "stat", "*", "peer", "127.0.0.1", "/d", "/a b"}
  Spaced = {"/a b"}
  Trim <- SomeTrim
  LongMax = 1073741823
  Values <- SomeValues
  Added <- SomeAdded
  Files <- SomeFiles
  MaxSize = 2
  MaxEdits = 2
INVARIANTS
  LinesAreOwned
  ReloadKeepsSettings
  RunsItsSettings
  EnsembleAgrees
  ConnectionStringNamesAll
  EveryMemberStartsOnce
CHECK_DEADLOCK FALSE
