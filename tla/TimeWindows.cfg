SPECIFICATION Spec
CONSTANTS
  Horizon = 100
  Request = {r1, r2}
  Legs = {10, 40}
  TimeWindow = {0, 40}
  ServiceTime = {0, 10}
  Tenths = {0, 3}
SYMMETRY Perms
\* the program ends
CHECK_DEADLOCK FALSE
INVARIANTS
  TypeOK
  InstanceServable
  TimedFitsUnlessMoved
