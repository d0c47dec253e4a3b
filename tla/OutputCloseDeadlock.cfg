SPECIFICATION OutputSpec
CONSTANTS
  App = {a1}
  Main = a1
  Nobody = Nobody
  MaxCalls = 4
INVARIANT NoCircularWait
CHECK_DEADLOCK FALSE
