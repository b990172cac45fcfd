SPECIFICATION FairSpec
CONSTANTS
  N = 3
  U32 = 8
  PoolSize = 5
  StackMax = 1
  PQ_QUEUE_SIZE = 3
  SEMAPHORE_MAXCOUNT = 2
  MaxFrames = 4
  MaxDrops = 2
  RxErrors = {"BUFFNA", "RXOVR", "HRESPNOK"}
INVARIANTS TypeOK RingInv NoFault PbufsConserved FreedInOrder NoLostWakeup
PROPERTIES InOrder EventuallyDelivered
CHECK_DEADLOCK FALSE
