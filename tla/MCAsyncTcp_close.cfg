SPECIFICATION Spec
CONSTANTS
  MaxAvail = 1
  MaxLag = 1
  Debug = TRUE
  Prompt = TRUE
INVARIANT PostedHasNoTick
