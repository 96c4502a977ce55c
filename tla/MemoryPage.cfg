SPECIFICATION FairSpec
CONSTANTS
  Handlers = {h1, h2}
  Readers = {r1}
  NoThread = NoThread
  IPs = {ip1, ip2, ip3}
  UserAgents = {ua1}
  MaxIPs = 3
  MaxUserAgents = 2
  MaxRecent = 4
  TopItems = 2
  RecentLimit = 3
  MaxLoaded = 3
  MaxRequests = 2
INVARIANTS TypeOK PageAddsUp
PROPERTIES ImplementsReads CallsReturn
