SPECIFICATION RoutedSpec
CONSTANTS
  Horizon = 4800
  Requests = 2
  Legs <- MCLegs
  Center = {100, 400, 1500}
  TimeWindow = {100}
  ServiceTime = {50}
\* the program ends
CHECK_DEADLOCK FALSE
INVARIANT FeasibleIsServable
