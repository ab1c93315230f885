SPECIFICATION Spec
SYMMETRY Symmetry
CONSTANTS
  f1 = f1  f2 = f2  f3 = f3
  s1 = s1  s2 = s2  s3 = s3
  Flows = {f1, f2, f3}
  Registered = {f1, f2}
  States = {s1, s2, s3}
  PendingTtl = 2
  PendingCap = 2
  None = None
  MaxTime = 3
INVARIANTS TypeOK RightClient RedirectedOnce PendingBounded
PROPERTIES SignInsNotEvicted BusyOnlyWhenFull
