SPECIFICATION Spec
CONSTANTS
  home = home
  about = about
  admin = admin
  partner = partner
  blocked = blocked
  main = main
  other = other
  Worker = {w1, w2, w3}
  Url <- MCUrl
  Domain <- MCDomain
  DomainOf <- MCDomainOf
  Links <- MCLinks
  Priority <- MCPriority
  StartUrl = home
  SitemapUrls <- MCSitemapUrls
  Disallowed <- MCDisallowed
  MaxPages = 3
  MaxDepth = 2
  IdleLimit = 1
  RespectRobots = TRUE
  OutlivesCache = FALSE
  EnableBrowser = FALSE
  BadAgent = FALSE
SYMMETRY WorkerSymmetry
INVARIANTS
  TypeOK
  QueueDisciplined
  OneFetchPerUrl
  ActiveCounted
  StatsMatchRows
  StartHostRulesBind
