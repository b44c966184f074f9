SPECIFICATION Spec
CONSTANTS
  Lines <- MCLines
  MaxFlaws = 2
  Files <- MCFiles
  PlainFiles <- MCPlainFiles
  MaxNodes = 4
\* the program ends
CHECK_DEADLOCK FALSE
INVARIANTS
  TypeOK
  FileIffSuccess
  ComplaintsStop
  LacksOnlyAfterGap
  NodesAsWritten
  CouplesIffAlternating
PROPERTIES
  ReadingEnds
