SPECIFICATION Spec
CONSTANTS
  home = home
  a = a
  b = b
  Worker = {w1, w2}
  Url <- MCUrl
  Links <- MCLinks
  StartUrl = home
  SitemapUrls = {b}
  MaxDepth = 3
  MaxErrors = 2
\* Workers with nothing to pop wait until the engine ends the crawl.
CHECK_DEADLOCK FALSE
INVARIANTS
  TypeOK
  DuplicateFetchesBounded
  OfferedIsHeld
  LossesBounded
PROPERTY
  OfferedIsVisited
