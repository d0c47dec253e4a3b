SPECIFICATION OboeSpec
CONSTANTS
  s1 = s1
  s2 = s2
  s3 = s3
  Stream = {s1, s2, s3}
  Nobody = Nobody
  Failures = {"engine", "mixer", "object"}
  MaxLeaks = 2
  Half = 2
  SampleRate = 3
  kMillisPerSecond = 2
  FramesPerCallback = 2
  MaxFrames = 10
  PausesPlayback = FALSE
  o1 = o1
  o2 = o2
  Opener = {o1, o2}
  Phones <- SomePhones
  Requests <- AnyRequest
  SharedRequests <- UnsafeRequest
  Burst = 192
  NativeRate = 48
  AlUser = {o1, o2}
  AlDevices <- Libraries
  AlOpens = 2
  FgFrames = 3
  FgPort = 2
  FgReads = {1, 3}
  FgCalls = 3
  FgWraps = TRUE
  RlTargets = {0, 243}
  RlLength = 3
  RlChanges = 4
  RlFrames = 4
  App = {a1, a2}
  Stoppers = {t1, t2}
  NoThread = NoThread
  Sdk = 27
  Workarounds = TRUE
  HandlesErrors = TRUE
  MaxCalls = 4
INVARIANT WrapsInFrame
