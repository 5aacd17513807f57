SPECIFICATION FairSpec
CONSTANTS
  Call = {c1, c2}
  MaxTxn = 3
  MaxSession = 3
INVARIANTS
  TypeOK
  NoBrokenPromise
  NobodyWaitsInVain
  OnlyLoadFenceRaces
  CloseSettlesOperations
  CommitNamesFailedOperation
  
PROPERTIES
  MeetsContract
  OperationsComplete
CHECK_DEADLOCK FALSE
