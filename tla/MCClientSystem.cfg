SPECIFICATION FairSpec
CONSTANTS
  Thread = {t1, t2}
  AutoReopen <- Both
  OpenHeart <- Both
  Prompt = TRUE
  Stalls = TRUE
INVARIANTS TypeOK OneRun AbortStaysInSession SessionOverAtClose RefsBalance
PROPERTIES KeepsLife OpeningEnds AbortCloses
CHECK_DEADLOCK FALSE
