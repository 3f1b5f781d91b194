CONSTANTS
  MaxRows = 5
  MaxDeadline = 2
  W = 4
  Base = 4
  MemSize = 11
  TextSize = 6
SPECIFICATION Spec
INVARIANTS
  SortCorrect
  CopiesMove
  VlenCounts
CHECK_DEADLOCK FALSE
