SPECIFICATION Spec
CONSTANTS
  MaxCaptures = 1
  DiskFaults = FALSE
PROPERTIES
  TerminalRowStands
CHECK_DEADLOCK FALSE
