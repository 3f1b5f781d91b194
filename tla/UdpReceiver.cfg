SPECIFICATION FairSpec
CONSTANTS
  N = 3
  MaxDatagrams = 8
  EntryPool = "fresh"
  Relock = "error"
INVARIANTS
  TypeOK
  DeliveredAsReceived
  QueuedIntact
  SpinsOnlyAfterEmpties
PROPERTIES
  ImplementsSlotQueue
  ReceivedIsQueued
\* The receiver rests when the network has nothing more to deliver, and
\* ends when recvmsg fails.
CHECK_DEADLOCK FALSE
