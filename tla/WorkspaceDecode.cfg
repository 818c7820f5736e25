SPECIFICATION WorkspaceSpec
CONSTANTS
  c1 = c1
  c2 = c2
  Channels <- MCChannels
  Assets = {a1, a2}
  Projects = {p1, p2}
  None = None
  ChannelOf <- MCChannelOf
  MaxFrames = 3
  ViewCapacity = 3
  MaxWorkSetFrames = 1
  StoreCapacity = 2
  MaxStreams = 2
  Outlives = FALSE
INVARIANTS ShownIsCurrent RequestsAreNeeded NothingForgotten
CHECK_DEADLOCK FALSE
