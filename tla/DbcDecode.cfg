SPECIFICATION Spec
CONSTANTS
  Imports <- MCImports
  Requests <- MCRequests
  ChunkChars = 4
  MaxBytes = 5
  ExtraPads = TRUE
  MaxFrames = 2
INVARIANTS
  DecodesAreExact
  StepsDecodeTheWhole
