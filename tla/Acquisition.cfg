CONSTANTS
  Depth = 2
  FullAcq = 4
  StarveLimit = 2
  MaxRestarts = 1
  Limit = 3
  Complaints = {"no BCLK", "no LRC"}
  MaxBlocks = 5
  MaxOrphans = 1
SPECIFICATION Spec
INVARIANTS GivesUpWithTheCause
PROPERTIES StreamIsLossyFeed DeadAnalyserEndsRun
