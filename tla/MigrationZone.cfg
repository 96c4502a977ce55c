SPECIFICATION Spec
CONSTANTS
  Requests = {r1}
  Absent = Absent
  Torn = Torn
  Zones = {1, 3}
  MaxStarts = 3
INVARIANT StartPreserved
CHECK_DEADLOCK FALSE
