SPECIFICATION FairSpec
CONSTANT Scenarios <- Programs
INVARIANTS
  TypeOK
  ConnectionsComeBack
  StatementsStayHome
  RecycledConnectionWorks
PROPERTY EveryTaskEnds
CHECK_DEADLOCK FALSE
