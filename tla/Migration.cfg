SPECIFICATION FairSpec
CONSTANTS
  Requests = {r1, r2}
  Absent = Absent
  Torn = Torn
  Zones = {1, 3}
  MaxStarts = 4
INVARIANTS TypeOK NothingLost ImportsBounded
PROPERTY MigrationEnds
CHECK_DEADLOCK FALSE
