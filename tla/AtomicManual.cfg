SPECIFICATION Spec
CONSTANTS
  Kinds <- AllKinds
  MaxDepth = 2
  MaxSid = 2
  MaxEffect = 2
  AUTOCOMMIT = FALSE
  Pooled = FALSE
  Events = {"marked", "unmarked", "manual", "lost", "refused", "close", "hook"}
INVARIANT SavepointsMatchServer
PROPERTY ManualTransactionIsLeftAlone
