SPECIFICATION Spec
CONSTANTS
  Tabs = {t1}
  MaxRuns = 1
INVARIANT QueryTokenSetsCookie
CHECK_DEADLOCK FALSE
