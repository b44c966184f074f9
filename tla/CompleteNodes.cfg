SPECIFICATION CompleteSpec
CONSTANTS
  Requests = 3
  Spot = {0, 6}
  Centers <- MCCenters
  NumPoints = {0, 1, 3, 4}
  Wrap = 8
  Horizon = 16
  HalfWindow = 1
  CentralTries = 1
  RandomTries = 2
  Roads <- MCRoads
  Services = {0, 10}
\* the loop may run out of nodes
CHECK_DEADLOCK FALSE
INVARIANTS
  TypeOK
  NeverInVain
  WholeRequests
  SelectedIsAccepted
PROPERTIES
  Returns
