SPECIFICATION FairSpec
CONSTANTS
  IPs = {ip1, ip2}
  Calls = {c1, c2}
  Buckets = {1, 2, 3}
  NoBucket = NoBucket
  Burst = 2
  MaxTracked = 1
INVARIANTS TypeOK WithinCapacity Accounted
PROPERTIES ImplementsBuckets AllowReturns QuietForgotten CleanerExits
