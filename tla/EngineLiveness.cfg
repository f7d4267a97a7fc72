SPECIFICATION Spec
CONSTANTS
  home = home
  about = about
  admin = admin
  partner = partner
  blocked = blocked
  main = main
  other = other
  Worker = {w1, w2}
  Url <- MCUrl
  Domain <- MCDomain
  DomainOf <- MCDomainOf
  Links <- MCLinks
  Priority <- MCPriority
  StartUrl = home
  SitemapUrls <- MCLongSitemap
  Disallowed <- MCDisallowed
  MaxPages = 2
  MaxDepth = 2
  IdleLimit = 0
  RespectRobots = TRUE
  OutlivesCache = TRUE
  EnableBrowser = TRUE
  BadAgent = TRUE
INVARIANT
  BudgetOvershootBounded
PROPERTIES
  ImplementsContract
  CrawlEnds
  QueuedIsTaken
