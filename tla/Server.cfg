SPECIFICATION FairSpec
CONSTANTS
  Handlers = {h1, h2}
  NoThread = NoThread
  IPs = {ip1, ip2}
  Peers = {ip1}
  NoIP = NoIP
  TrustProxy = TRUE
  LinksPerPageMin = 1
  LinksPerPageMax = 2
  MaxRequests = 2
INVARIANTS TypeOK ClosedAfterLastUse RecordedWereAdmitted PagesHaveLinks
PROPERTIES RequestsEnd ShutdownEnds
CHECK_DEADLOCK FALSE
