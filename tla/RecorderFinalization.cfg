SPECIFICATION FairSpec
CONSTANTS
  MaxCaptures = 2
  DiskFaults = TRUE
INVARIANTS
  PublishedFailureStands
  CompletedIsLossless
  FinalizationIsAccounted
PROPERTIES
  ClosedGateHolds
  CallReturns
  OutstandingClears
CHECK_DEADLOCK FALSE
