SPECIFICATION FairSpec
CONSTANTS
  Tasks = {"t1", "t2"}
  Lengths = {0, 2, 5}
  Depth = 3
  MaxCalls = 1
  Faults = TRUE
  Late = FALSE
INVARIANTS TypeOK InFlightFits BuffersReturned AssertsHold
PROPERTIES ImplementsContract CallReturns
CHECK_DEADLOCK FALSE
