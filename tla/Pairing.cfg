SPECIFICATION Spec
CONSTANTS
  MaxNodes = 6
  MaxClusters = 3
  MaxPlaced = 5
  Latitudes <- MCLatitudes
  Loads = {1, 2}
  WrongLoads <- MCWrongLoads
\* the functions return
CHECK_DEADLOCK FALSE
INVARIANTS
  TypeOK
  ReadyToOrder
  PairsWithinClusters
  FaultOnlyOnBadInput
PROPERTIES
  ImplementsMatching
  PairingEnds
