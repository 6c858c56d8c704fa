SPECIFICATION FairSpec
CONSTANTS
  Op = {o1, o2}
  Thread = {t0}
  Pool = t0
  Client = {c}
  Busy = {t0}
  TickCount = 10
  Start = 1
  End = 10
  MaxTimewait = 0
  Timeouts = {2}
  Wakeups = {TRUE}
  Slack = 0
  MaxSignals = 1
  Stops = {t0}
PROPERTIES
  EachIsCalled
