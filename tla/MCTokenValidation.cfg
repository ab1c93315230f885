SPECIFICATION FairSpec
CONSTANTS
  r1 = r1  r2 = r2  r3 = r3
  old = old  new = new  noKid = noKid
  a = a  b = b  c = c  x = x
  Requests = {r1, r2}
  Kids = {old, new}
  NoKid = noKid
  Tokens = {a, b, c, x}
  Kid <- MCKid
  SupportedAlg <- MCSupported
  Authentic <- MCAuthentic
  OurAudience <- MCSupported
  Exp <- MCExp
  RevokedAt <- MCRevokedAt
  PublishedAt <- MCPublishedAt
  WithdrawnAt <- MCWithdrawnAt
  MaxCacheTtl = 2
  CacheCap = 1
  JwksTtl = 4
  MinRefresh = 2
  Leeway = 1
  MaxTime = 4
INVARIANTS TypeOK GateExclusive CacheHitsSound CacheBounded
PROPERTIES RefreshSpacing MissingKeyExplained StaleKeyOnlyAfterFailure EveryRequestAnswered
