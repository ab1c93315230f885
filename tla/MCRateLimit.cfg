SPECIFICATION Spec
SYMMETRY Symmetry
CONSTANTS
  b1 = b1  b2 = b2
  u1 = u1
  r1 = r1  r2 = r2
  Bearers = {b1, b2}
  Subs = {u1}
  SubOf <- SharedSub
  Requests = {r1, r2}
  Burst = 2
  Period = 1
  BucketIdleTtl = 3
  MaxBuckets = 1
  None = None
  MaxStall = 1
  MaxTime = 4
  MaxCalls = 4
CHECK_DEADLOCK FALSE
INVARIANTS TypeOK WithinQuota MapsBounded RefusalIsFree
PROPERTIES RefusalsJustified
