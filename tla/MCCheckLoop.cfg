SPECIFICATION FairSpec
CONSTANTS
  w1 = w1
  w2 = w2
  Worker = {w1, w2}
  Last = 3
  Registered = {2, 3}
  Removed = {1}
  WhenIdle = TRUE
INVARIANTS TypeOK OneAhead NothingChecked
PROPERTIES EveryoneChecked StopEnds
