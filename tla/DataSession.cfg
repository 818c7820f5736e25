SPECIFICATION Spec
CONSTANTS
  FirstSequences = {1, 2}
  MaxSequence = 7
  MaxBatch = 4
  SegmentSize = 2
  Interference = TRUE
INVARIANTS
  SegmentsAreTruthful
  CompletedIsWhole
  FailureIsNotCompletion
  InspectionTruthful
PROPERTIES
  SegmentsStand
CHECK_DEADLOCK FALSE
