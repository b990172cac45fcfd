SPECIFICATION Spec
CONSTANTS
  N = 3
  U32 = 8
  PoolSize = 8
  StackMax = 2
  PQ_QUEUE_SIZE = 3
  SEMAPHORE_MAXCOUNT = 2
  MaxFrames = 7
  MaxDrops = 0
  RxErrors = {}
INVARIANT NoWildDma
CHECK_DEADLOCK FALSE
