SPECIFICATION Spec
CONSTANTS
  Kinds <- PlainKinds
  MaxDepth = 3
  MaxSid = 2
  MaxEffect = 2
  AUTOCOMMIT = TRUE
  Pooled = FALSE
  Events = {"marked", "lost", "refused", "hook"}
INVARIANTS
  TypeOK
  NothingLeftBehind
  PendingHooksRideWithPendingWork
  HooksOnlyForCommittedWork
PROPERTY NestedTransactionSpec
