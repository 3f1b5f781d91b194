SPECIFICATION FairSpec
CONSTANTS
  Uris <- MCUris
  Resolve <- MCResolve
  CapSize = 2
  PoolSizes = {1, 2}
  Ports = {1, 2}
  MaxConn = 2
  MaxClosed = 2
  MaxShared = 1
CHECK_DEADLOCK FALSE
INVARIANTS
  TypeOK
  SlotsAreOwn
  SessionFiled

  
