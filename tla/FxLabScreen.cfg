SPECIFICATION FxSpec
CONSTANTS
  FxKinds = {"gain", "echo", "vibrato"}
  FxSpinUp = 0
  FxEngines = 2
  FxTouches = 4
  FxLate = FALSE
CHECK_DEADLOCK FALSE
INVARIANT EffectsListed
