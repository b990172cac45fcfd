SPECIFICATION FairSpec
CONSTANTS
  Tasks = {"t1", "t2"}
  Lengths = {1, 3}
  Depth = 2
  U32 = 16
  QueueLength = 3
  MaxCalls = 2
  Faults = {"NACK", "LOST", "STUCK"}
INVARIANTS TypeOK NoForeignAccess
PROPERTIES ImplementsContract ReadAbortReported TransferEnds
CHECK_DEADLOCK FALSE
