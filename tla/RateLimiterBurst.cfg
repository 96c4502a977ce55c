SPECIFICATION Spec
CONSTANTS
  IPs = {ip1}
  Calls = {c1, c2}
  Buckets = {1, 2, 3}
  NoBucket = NoBucket
  Burst = 2
  MaxTracked = 1
INVARIANT BurstPerIP
