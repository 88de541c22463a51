SPECIFICATION FairSpec
CONSTANTS
  Model <- MCModel
  Row <- MCRow
  ModelOf <- MCModelOf
  Relation <- MCRelation
  Databases <- MCDatabases
  MaxStack = 13
INVARIANTS
  TypeOK
  TheClosureOrNothing
  RefusedForAReason
  NoReferenceDangles
  DependentsGoFirst
  GivesUpOnlyOnCycles
PROPERTY EveryDeleteEnds
