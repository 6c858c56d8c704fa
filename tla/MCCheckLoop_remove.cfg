SPECIFICATION FairSpec
CONSTANTS
  w1 = w1
  w2 = w2
  Worker = {w1, w2}
  Last = 3
  Registered = {1, 2, 3}
  Removed = {1}
  WhenIdle = TRUE
PROPERTY EveryoneChecked
CHECK_DEADLOCK FALSE
