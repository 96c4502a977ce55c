SPECIFICATION FairSpec
CONSTANTS
  Visitors = {v1}
  Dashboards = {d1}
  Charts = {}
  NoThread = NoThread
  IPs = {ip1}
  UserAgents = {ua1}
  TopItems = 1
  RecentLimit = 2
  MaxRequests = 2
PROPERTY CancelledRecordReturns
