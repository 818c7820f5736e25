SPECIFICATION Spec
CONSTANTS
  Workers = {w1, w2}
  Ids = {p1, p2}
  MaxCalls = 2
  MaxCrashes = 1
  Contents = {"body", "other", "text"}
  Encodings = {"utf", "latin"}
  Parsable <- MCParsable
  Owned <- MCOwned
  Assets = {1, 2, 3}
  MaxEntries = 1
  MaxTampers = 1
INVARIANTS
  ProjectIsWhole
  RegisteredIsStored
  DecodesRegistered
SYMMETRY MCSymmetry
CHECK_DEADLOCK FALSE
