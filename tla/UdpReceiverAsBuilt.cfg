SPECIFICATION FairSpec
CONSTANTS
  N = 3
  MaxDatagrams = 4
  EntryPool = "as_built"
  Relock = "block"
PROPERTY ReceivedIsQueued
CHECK_DEADLOCK FALSE
