SPECIFICATION Spec
CONSTANTS
  Handlers = {h1, h2}
  Readers = {r1}
  NoThread = NoThread
  IPs = {ip1}
  UserAgents = {ua1}
  MaxIPs = 1
  MaxUserAgents = 1
  MaxRecent = 2
  TopItems = 1
  RecentLimit = 2
  MaxLoaded = 0
  MaxRequests = 2
INVARIANT MostRecentFirst
