SPECIFICATION Spec
CONSTANTS
  Horizon = 120
  Requests = 2
  Legs = {10, 60}
  Center = {0, 20, 80}
  TimeWindow = {0, 30}
  ServiceTime = {0, 10}
\* the program ends
CHECK_DEADLOCK FALSE
INVARIANTS
  TypeOK
  AcceptedServable
  OpensWhenReachable
