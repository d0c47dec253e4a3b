SPECIFICATION Spec
CONSTANTS
  TotalFrames = 3
  MaxTransfer = 4
  MaxWritten = 11
  App = {a1, a2}
  Main = a1
  Nobody = Nobody
  MaxCalls = 6
  Capacity = 4
  Burst = 1
  BurstTime = 2
  Margin = 1
  MinSleep = 1
  MaxRequest = 3
  Timeouts = {0, 1, 5}
  MinimumBufferSize = 1
  MaxBufferSize = 3
  kIdleCount = 2
  MaxResets = 2
  Paths = {"outputCallback", "outputWrite", "inputCallback", "inputRead"}
  Rates <- SomeRates
  Blocks = {1, 2, 3}
  BufferSize = 2
  ChildBurst = 3
  MaxCall = 4
  MaxFrames = 8
PROPERTY StopIsImmediate
