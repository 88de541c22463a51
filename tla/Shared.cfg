SPECIFICATION FairSpec
CONSTANT Scenarios <- SharedPrograms
INVARIANTS
  TypeOK
  AllOrNothing
  TransactionNotShared
  WrapperAtRest
  HooksOnlyAfterCommit
PROPERTY EveryFlowEnds
CHECK_DEADLOCK FALSE
