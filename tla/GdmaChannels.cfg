SPECIFICATION FairSpec
CONSTANTS
  NumChans = 2
  NumBlocks = 2
  MaxOps = 6
  Faults = TRUE
INVARIANTS BlocksOwned DescriptorsLive NoStorm
PROPERTIES ReportTruthful TransferReported
CHECK_DEADLOCK FALSE
