SPECIFICATION Spec
CONSTANTS
  Requests = 3
  Loads = {0, 2}
  Routed <- MCRouted
\* the function returns
CHECK_DEADLOCK FALSE
INVARIANTS
  TypeOK
  MatrixFollowsNodes
  PickupThenDelivery
  FaultIffNoPickup
PROPERTIES
  ImplementsRenumbering
  ChaseMovesOn
  Terminates
