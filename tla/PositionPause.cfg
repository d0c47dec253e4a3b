SPECIFICATION PosSpec
CONSTANTS
  Half = 2
  SampleRate = 3
  kMillisPerSecond = 2
  FramesPerCallback = 2
  MaxFrames = 6
  PausesPlayback = TRUE
INVARIANT FramesServedMonotonic
