SPECIFICATION Spec
SYMMETRY Symmetry
CHECK_DEADLOCK FALSE
CONSTANTS
  c1 = c1  c2 = c2  t1 = t1  t2 = t2
  p1 = p1  h1 = h1  h2 = h2  evil = evil
  b1 = b1  b2 = b2  k1 = k1  k2 = k2  k3 = k3
  Calls = {c1, c2}
  Tokens = {t1, t2}
  AccountsOf <- MCAccountsOf
  Queries <- MCQueries
  Books = {h1, b1, b2, evil}
  HomeOf <- MCHomeOf
  Contacts = {k1, k2, k3, evil}
  BookOf <- MCBookOf
  AtFirst = {k1, k2}
  Trusted = {p1, h1, h2, b1, b2, k1, k2, k3}
  DiscoveryTtl = 2
  HttpTimeout = 1
  DiscoveryCap = 1
  Limit = 2
  None = None
  MaxTime = 3
  MaxChanges = 1
INVARIANTS TypeOK BearerStaysOnOrigin DiscoveriesBounded CompleteOrFailed
PROPERTIES HomeLagBounded
