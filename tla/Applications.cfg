CHECK_DEADLOCK FALSE
SPECIFICATION ApplicationsSpec
CONSTANTS
  FdxDrain = 2
  FdxCushion = 1
  FdxDiscard = 2
  FdxCapacity = 4
  FdxJitter = 1
  FdxRuns = 2
  GlPeriod = 3
  GlLock = 2
  GlWait = 2
  GlUpsets = 3
  LatGoodRuns = 2
  LatBadRuns = 1
  LatFrames = 1
  LatPresses = 2
  LatAnalyses = 2
  TsStarts = 4
  TsConfigs = 2
  NcThreads = 3
  NcPresses = 6
  RecSize = 4
  RecBlock = 3
  RecWritten = 10
  SeStreams = 3
  SeDevices = {0, 1}
  EpRate = 3
  EpSamples = 20
  EpBlock = 4
  LeLibrary = "noise"
  LeRates = {1, 2}
  LeCalls = 6
  LfqIndex = 8
  LfqCapacity = 4
  LfqItems = 20
  RgGames = 2
  RgDisconnects = 1
  RgFrames = 5
  AxBlocks = 6
  AxRooms = {4, 6}
  AxInputs = 3
  AxDelay = 2
  SpRates = {3, 4, 7}
  SpRate = 4
  SpFrames = 5
  SpBlock = 2
  SpStreams = 3
  SpTriggers = 3
  WrBlock = 2
  WrFrames = 5
  WrMissing = 9
  FxKinds = {"gain", "echo", "vibrato"}
  FxSpinUp = 0
  FxEngines = 2
  FxTouches = 4
  FxLate = FALSE
  DlTimes = {1, 2, 3}
  DlFlanger = FALSE
  DlSamples = 14
INVARIANTS
  InStep
  IdleWhenEnabled
  NothingLeft
  DataThreadsInHand
  FileIsInOrder
  EnginePlays
  
  EffectWorks
  QueueInOrder
  GamePlays
  FilesDecoded
  SamplesLive
PROPERTIES
  GlitchesEnd
  TestsEnd
