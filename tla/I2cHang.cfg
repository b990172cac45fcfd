SPECIFICATION FairSpec
CONSTANTS
  Tasks = {"t1", "t2"}
  Lengths = {1}
  Depth = 2
  U32 = 16
  QueueLength = 3
  MaxCalls = 2
  Faults = {"NACK"}
PROPERTIES MutexGivenBack
CHECK_DEADLOCK FALSE
