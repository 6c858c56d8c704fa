SPECIFICATION FairSpec
CONSTANTS
  Msg = {m1, m2, m3}
  Thread = {t1, t2}
  MaxLate = 1
INVARIANTS TypeOK OneDriver OneOwner QuietWhenIdle RefsBalance
PROPERTIES KeepsOrder AbortEnds
