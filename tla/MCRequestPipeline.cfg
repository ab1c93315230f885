SPECIFICATION PFairSpec
CHECK_DEADLOCK FALSE
CONSTANTS
  r1 = r1  r2 = r2  s1 = s1  s2 = s2
  b1 = b1  b2 = b2  alice = alice  here = here  there = there  junk = junk
  Requests = {r1, r2}
  SessionIds = {s1, s2}
  MaxSessions = 1
  Bearers = {b1, b2}
  Valid = {b1, b2}
  Subs = {alice}
  SubOf <- MCSubOf
  Entries = {here, there, junk}
  Text = {here, there}
  Addresses = {here, there}
  Clients = {here}
  Claims <- MCClaims
  Sent <- MCSent
  Proxies <- MCProxies
  TrustedProxyHops = 2
  MaxEntries = 1
  Burst = 1
  None = None
  MaxTime = 1
  MaxRequests = 3
INVARIANTS PTypeOK CapHolds LatestUseShown SessionsWithinQuota
PROPERTIES RequestsAnswered
