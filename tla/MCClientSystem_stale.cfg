SPECIFICATION Spec
CONSTANTS
  Thread = {t1, t2}
  AutoReopen <- Always
  OpenHeart <- Always
  Prompt = TRUE
  Stalls = FALSE
INVARIANT ResultIsRunnable
CHECK_DEADLOCK FALSE
