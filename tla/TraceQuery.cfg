SPECIFICATION Spec
CONSTANTS
  Kinds <- MCKinds
  IdOf <- MCIdOf
  Filters <- MCFilters
  Limits = {1, 2}
  TopNs = {1, 2}
  MaxSegments = 2
  MaxFrames = 4
  MaxTime = 2
INVARIANTS
  PagesAreExact
  AggregatesCoverSnapshot
PROPERTIES
  PagesAdvance
