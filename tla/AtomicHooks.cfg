SPECIFICATION Spec
CONSTANTS
  Kinds <- PlainKinds
  MaxDepth = 3
  MaxSid = 2
  MaxEffect = 3
  AUTOCOMMIT = TRUE
  Pooled = TRUE
  Events = {"marked", "close"}
INVARIANTS
  HooksOfCommittedWorkRan
  HooksRunOnce
  ReconnectIsPossible
PROPERTY CleanExitCommits
