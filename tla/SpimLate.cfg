SPECIFICATION FairSpec
CONSTANTS
  Tasks = {"t1", "t2"}
  Lengths = {0, 2, 5}
  Depth = 3
  MaxCalls = 1
  Faults = TRUE
  Late = TRUE
PROPERTIES SuccessMeansDone
CHECK_DEADLOCK FALSE
