SPECIFICATION Spec
CONSTANTS
  t1 = t1
  t2 = t2
  r1 = r1
  r2 = r2
  r3 = r3
  Thread = {t1, t2}
  Receiver = {r1, r2, r3}
  Oneshot = {r1, r2}
  Preproc = {r2, r3}
INVARIANTS TypeOK ChainIsErasable RefsBalance
PROPERTY KeepsBus
