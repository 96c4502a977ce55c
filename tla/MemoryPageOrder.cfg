SPECIFICATION Spec
CONSTANTS
  Handlers = {h1, h2}
  Readers = {r1}
  NoThread = NoThread
  IPs = {ip1}
  UserAgents = {ua1}
  MaxIPs = 1
  MaxUserAgents = 1
  MaxRecent = 4
  TopItems = 1
  RecentLimit = 3
  MaxLoaded = 1
  MaxRequests = 5
INVARIANT RecentNearlyOrdered
