SPECIFICATION Spec
CONSTANTS
  MaxAvail = 2
  MaxLag = 1
  Debug = FALSE
  Prompt = TRUE
INVARIANT NoLostReadiness
