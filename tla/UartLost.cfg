SPECIFICATION Spec
CONSTANTS
  Tasks = {"t1", "t2"}
  Lengths = {1, 3}
  Masks = {{"RX", "RT", "ERR"}}
  Depth = 2
  RxLevel = 2
  TxLevel = 1
  U32 = 8
  MaxCalls = 2
  MaxRx = 3
  Faults = {"LINE", "LOST"}
INVARIANT NoByteLost
CHECK_DEADLOCK FALSE
