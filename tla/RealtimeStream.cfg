SPECIFICATION FairSpec
CONSTANTS
  Pairs = {p1, p2}
  NoPair = NoPair
  Retries = 1
  ViewCapacity = 1
  ClientCapacity = 1
  MaxListeners = 2
  MaxSubscribes = 2
  MaxAccepts = 1
  MaxStreams = 2
  MaxFrames = 3
INVARIANTS OnePipeline ShownAccounts
PROPERTIES ViewCatchesUp Settles
CHECK_DEADLOCK FALSE
