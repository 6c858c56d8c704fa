SPECIFICATION Spec
CONSTANTS
  Op = {o1, o2}
  Thread = {t0, t1}
  Pool = t0
  Client = {c}
  Busy = {}
  TickCount = 12
  Start = 3
  End = 4
  MaxTimewait = 0
  Timeouts = {2}
  Wakeups = {TRUE}
  Slack = 1
  MaxSignals = 1
  Stops = {t0, t1}
SYMMETRY Symmetry
INVARIANTS
  TypeOK
  OnePlace
  DrainedAtEnd
PROPERTIES
  KeepsPromise
