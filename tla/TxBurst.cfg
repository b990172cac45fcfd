SPECIFICATION FairSpec
CONSTANTS
  N = 4
  U32 = 16
  MaxPkts = 6
  Frags = {1}
  Window = 4
  TxErrors = {}
INVARIANT NoEarlyRelease
CHECK_DEADLOCK FALSE
