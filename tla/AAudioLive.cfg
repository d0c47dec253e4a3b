SPECIFICATION AaFairSpec
CONSTANTS
  App = {a1}
  Stoppers = {}
  NoThread = NoThread
  Sdk = 31
  Workarounds = TRUE
  HandlesErrors = FALSE
  MaxCalls = 3
PROPERTIES
  CloseReturns
  DisconnectCloses
