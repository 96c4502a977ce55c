SPECIFICATION Spec
CONSTANTS
  Requests = {r1}
  Absent = Absent
  Torn = Torn
  Zones = {0}
  MaxStarts = 3
INVARIANT ImportedOnce
CHECK_DEADLOCK FALSE
