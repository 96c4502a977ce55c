SPECIFICATION FairSpec
CONSTANTS
  Visitors = {v1, v2}
  Dashboards = {d1}
  Charts = {}
  NoThread = NoThread
  IPs = {ip1, ip2}
  UserAgents = {ua1}
  TopItems = 1
  RecentLimit = 2
  MaxRequests = 3
INVARIANTS TypeOK LedgerBalanced StatsAreSnapshot PagePlausible NoOtherDeadlock
PROPERTIES ImplementsLedger CallsReturn
