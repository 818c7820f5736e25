SPECIFICATION Spec
CONSTANTS
  FirstSequences = {1, 2}
  MaxSequence = 7
  MaxBatch = 4
  SegmentSize = 2
  Interference = FALSE
PROPERTIES
  ImplementsContract
CHECK_DEADLOCK FALSE
