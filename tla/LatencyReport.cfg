SPECIFICATION Spec
CONSTANTS
  FdxDrain = 2
  FdxCushion = 1
  FdxDiscard = 2
  FdxCapacity = 4
  FdxJitter = 1
  FdxRuns = 2
  GlPeriod = 3
  GlLock = 2
  GlWait = 2
  GlUpsets = 3
  LatGoodRuns = 2
  LatBadRuns = 1
  LatFrames = 1
  LatPresses = 2
  LatAnalyses = 2
  TsStarts = 4
  TsConfigs = 2
  NcThreads = 3
  NcPresses = 6
  RecSize = 4
  RecBlock = 3
  RecWritten = 10
INVARIANT OnlyValidLatencies
CHECK_DEADLOCK FALSE
