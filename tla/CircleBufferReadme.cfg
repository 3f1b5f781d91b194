CONSTANTS
  N = 3
  MaxBatch = 4
  MaxPush = 6
SPECIFICATION FairSpec
PROPERTY AllReachRing
CHECK_DEADLOCK FALSE
