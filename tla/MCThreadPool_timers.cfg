SPECIFICATION Spec
CONSTANTS
  Op = {o1, o2}
  Thread = {t0, t1}
  Pool = t0
  Client = {c}
  Busy = {}
  TickCount = 16
  Start = 14
  End = 0
  MaxTimewait = 3
  Timeouts = {2}
  Wakeups = {TRUE}
  Slack = 1
  MaxSignals = 1
  Stops = {t1}
SYMMETRY Symmetry
INVARIANTS
  NoOversleep
  ClaimIsWatched
  PrivateIsServed
  StopIsServed
