SPECIFICATION Spec
CONSTANTS
  Requests = {r1}
  Absent = Absent
  Torn = Torn
  Zones = {0}
  MaxStarts = 4
INVARIANT OriginalsKept
CHECK_DEADLOCK FALSE
