SPECIFICATION FairSpec
CONSTANTS
  Chans = {"c0", "c1"}
  MaxOps = 6
  Faults = TRUE
INVARIANTS RegistersAgree
PROPERTIES NoCallAfterRevoke TransferReported
CHECK_DEADLOCK FALSE
