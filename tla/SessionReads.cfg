CONSTANTS
  N = 2
  Values <- Node
  MaxBytes = 2
  IovMax = 2
  LinkProto = "tcp"
  PoolSize = 1
  CfgSizes = {2}
  MaxWrite = 3
  MaxShared = 1
  MaxInsert = 2
  MaxAhead = 2
SPECIFICATION Spec
PROPERTY ReadsBehindCursor
CHECK_DEADLOCK FALSE
