SPECIFICATION Spec
CONSTANTS
  Key = {"k", "l"}
  Operations <- MCOperations
  Mixes <- MCMixes
  Beginnings <- MCBeginnings
INVARIANTS
  TypeOK
  EveryRowIsExplained
  GetOrCreateReturns
