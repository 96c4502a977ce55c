SPECIFICATION Spec
CONSTANTS
  Tabs = {t1, t2}
  MaxRuns = 2
SYMMETRY Symmetric
INVARIANTS TypeOK AdmittedKnows ChartsOfSameRun TokenAdmits
PROPERTY SessionKept
CHECK_DEADLOCK FALSE
