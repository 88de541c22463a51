SPECIFICATION Spec
CONSTANTS
  Key = {"k", "l"}
  Operations <- MCOperations
  Mixes <- Inherited
  Beginnings <- MCBeginnings
INVARIANT InheritedInstancesAreSaved
