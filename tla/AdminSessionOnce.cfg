SPECIFICATION Spec
CONSTANTS
  Tabs = {t1, t2}
  MaxRuns = 1
INVARIANT OneTimeLink
CHECK_DEADLOCK FALSE
