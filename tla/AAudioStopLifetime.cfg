SPECIFICATION AaSpec
CONSTANTS
  App = {a1}
  Stoppers = {t1, t2}
  NoThread = NoThread
  Sdk = 30
  Workarounds = TRUE
  HandlesErrors = FALSE
  MaxCalls = 3
INVARIANT NoThreadOutlivesStream
