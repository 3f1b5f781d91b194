CONSTANTS
  Sessions = {A, B}
  NoSession = NoSession
  Wild = Wild
  Deadlines = {0, 1, 9}
  Preempt = 0
  Size = 1
  NullTest = "before"
  MaxNow = 1
  MaxInsert = 2
SPECIFICATION FairSpec
INVARIANTS
  TypeOK
  RowsAreGiven
PROPERTIES
  FrontIsSent
CHECK_DEADLOCK FALSE
