SPECIFICATION FairSpec
CONSTANTS
  N = 8
  U32 = 32
  MaxPkts = 6
  Frags = {1, 2, 9}
  Window = 3
  TxErrors = {"COLLISION", "HRESPNOK", "TXERR"}
INVARIANTS TypeOK NoEarlyRelease NoTornPacket TxRingInv StorageMatchesRing
  FillNeverRefused
PROPERTY SendTerminates
CHECK_DEADLOCK FALSE
