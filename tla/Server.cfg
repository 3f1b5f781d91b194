CONSTANTS
  k1 = k1
  k2 = k2
  v1 = v1
  v2 = v2
  Settings <- MCSettings
  Values <- MCValues
  Contents <- MCContents
  NoValue = NoValue
  Absent = Absent
  NoCrc = NoCrc
  EditsWhile = {"begin", "poll", "reload", "test"}
  MayVanish = FALSE
  MayReturn = FALSE
  MaxEdits = 3
  Modes = {"foreground", "daemon"}
SPECIFICATION FairSpec
INVARIANTS
  TypeOK
  ToldBeforeFreed
  StartedOrRolledBack
PROPERTIES
  ConfigConverges
  SignalEndsLoop
CHECK_DEADLOCK FALSE
