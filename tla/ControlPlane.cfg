SPECIFICATION FairSpec
CONSTANTS
  Children = {r1, r2}
  Foreign = foreign
  NoProcess = none
  Clients = {c1, c2}
  MaxCaptures = 2
  MaxAcquires = 2
  MaxMishaps = 1
CHECK_DEADLOCK FALSE
INVARIANTS NoOrphan OkMeansStopped
PROPERTY ReleaseStops
