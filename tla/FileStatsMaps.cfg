SPECIFICATION FairSpec
CONSTANTS
  Handlers = {h1, h2}
  IPs = {ip1}
  UserAgents = {ua1, ua2}
  MaxIPs = 1
  MaxUserAgents = 1
  MaxRecent = 1
  Absent = Absent
  Torn = Torn
  MaxRequests = 2
INVARIANTS TypeOK CountsConsistent LogCoversStats
PROPERTIES StatsReachFile ShutdownSaves
