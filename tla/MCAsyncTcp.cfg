SPECIFICATION FairSpec
CONSTANTS
  MaxAvail = 1
  MaxLag = 1
  Debug = FALSE
  Prompt = TRUE
INVARIANTS TypeOK OneHolder Assertions BoundIsHeld
PROPERTIES BrokenEnds ClosingEnds
