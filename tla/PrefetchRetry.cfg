SPECIFICATION Spec
CONSTANTS
  Task = {"t", "u"}
  Attr <- MCAttr
  Kind <- MCKind
  Empty = {"none"}
  Auto <- MCAuto
  Asked <- MCAsked
  Requests <- MCRequests
  Failures = 1
INVARIANT InstancesStayPrefetched
CONSTRAINT OneAtATime
CHECK_DEADLOCK FALSE
