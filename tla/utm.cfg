SPECIFICATION FairSpec
CONSTANTS
  Runs = 2
  Values = 2
  Days = 3
  ChunkSize = 1
  MaxAsked = 1
  MaxEdits = 1
  MaxFaults = 1
  MaxOverlaps = 1
  MaxPairs = 2
INVARIANTS RunsExclude DoubleNeedsCause NothingMissed
PROPERTIES CursorForward CatchesUp
CHECK_DEADLOCK FALSE
