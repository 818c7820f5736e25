SPECIFICATION FairKernelSpec
CONSTANTS
  a1 = a1
  k1 = k1
  k2 = k2
  Coords <- MCCoords
  CoordValues <- MCCoordValues
  Callers <- MCCallers
  Operations <- MCOperations
  ApprovalIds <- MCApprovalIds
  ApprovalSpecs <- MCApprovalSpecs
  ArmScopes <- MCArmScopes
  Permissions <- MCPermissions
  Cancellers <- MCCancellers
  MaxTime = 2
  MaxStops = 2
INVARIANTS
  NoAuthorityAcrossStop
  AuthorityIsAccounted
PROPERTIES
  ReleaseIsNoResume
  FanOutReachesAll
  EngageCompletes
