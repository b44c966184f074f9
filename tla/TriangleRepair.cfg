SPECIFICATION Spec
CONSTANTS
  Size = 4
  Seconds <- MCSeconds
  Trash = 600
\* the router returns or throws
CHECK_DEADLOCK FALSE
INVARIANTS
  TypeOK
  TwoLegsRepaired
  NeverBelowShortest
