SPECIFICATION FairSpec
CONSTANT Scenarios <- FreshPrograms
INVARIANT TransactionNeverShared
CHECK_DEADLOCK FALSE
