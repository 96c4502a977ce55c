SPECIFICATION Spec
CONSTANTS
  Handlers = {h1}
  IPs = {ip1}
  UserAgents = {ua1}
  MaxIPs = 1
  MaxUserAgents = 1
  MaxRecent = 1
  Absent = Absent
  Torn = Torn
  MaxRequests = 1
INVARIANT FinalSnapshotStays
