SPECIFICATION FairSpec
CONSTANTS
  Tasks = {"t1", "t2"}
  Lengths = {1, 3}
  Masks = {{"RX", "RT", "TX", "ERR"}, {"ERR"}}
  Depth = 2
  RxLevel = 2
  TxLevel = 1
  U32 = 8
  MaxCalls = 2
  MaxRx = 3
  Faults = {}
INVARIANTS TypeOK RxInBuffer Truthful
PROPERTIES SendImplementsContract ReceiverWakes SendReturns
CHECK_DEADLOCK FALSE
