SPECIFICATION FairSpec
CONSTANTS
  Source <- People
  Target <- People
  Operations <- MCOperations
  Pairings <- MCPairings
  Beginnings <- MCBeginnings
  Watched = 1
INVARIANTS
  TypeOK
  OperationsCompose
  EveryRowIsExplained
  CacheIsCurrent
PROPERTY EveryOperationEnds
CHECK_DEADLOCK FALSE
