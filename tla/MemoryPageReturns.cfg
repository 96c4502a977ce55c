SPECIFICATION FairSpec
CONSTANTS
  Handlers = {h1, h2}
  Readers = {r1, r2}
  NoThread = NoThread
  IPs = {ip1, ip2}
  UserAgents = {ua1}
  MaxIPs = 2
  MaxUserAgents = 1
  MaxRecent = 2
  TopItems = 1
  RecentLimit = 1
  MaxLoaded = 0
  MaxRequests = 2
PROPERTY CallsReturn
