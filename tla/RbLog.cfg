SPECIFICATION FairSpec
CONSTANTS
  N = 4
  Batch = 2
  Levels = {"info", "debug"}
  Enabled = {"info"}
  MaxPush = 10
INVARIANTS
  TypeOK
  WrittenInOrder
  NoLostWakeup
PROPERTIES
  ImplementsLogQueue
  ConnectedIsDrained
  ShutdownReturns
  ShutdownDrains
\* The program ends after rb_log_flush.
CHECK_DEADLOCK FALSE
