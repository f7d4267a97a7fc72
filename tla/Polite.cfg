SPECIFICATION Spec
CONSTANTS
  Workers = {w1, w2, w3}
  Hosts = {home}
  StartHost = home
  Permits = 2
  Interval = 1
  CrawlDelay <- MCCrawlDelay
  LongAgo = 2
  MaxRedirects = 1
  MaxRetries = 1
  Backoff = 1
  Waits <- MCWaits
INVARIANTS
  TypeOK
  PermitsConserved
  RequestsBounded
PROPERTIES
  GrantsSpaced
  EveryoneServed
