SPECIFICATION FairSpec
CONSTANTS
  MaxCaptures = 2
  MaxFrames <- FramesOfCaptures
  ArchiveCapacity = 1
  StreamCapacity = 1
  BatchSize = 2
INVARIANTS
  RecordingIsWhole
  LossIsCounted
PROPERTIES
  NothingRecordedAfterFailure
  IngressNeverStalls
  StopReturns
CHECK_DEADLOCK FALSE
