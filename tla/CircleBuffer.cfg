CONSTANTS
  N = 3
  MaxBatch = 4
  MaxPush = 6
SPECIFICATION FairSpec
INVARIANTS
  TypeOK
  RingHoldsLatest
  LastSlotSkipped
PROPERTIES
  BatchReachesRing
  StopEnds
  ImplementsRingWriter
CHECK_DEADLOCK FALSE
