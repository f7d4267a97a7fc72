SPECIFICATION Spec
CONSTANTS
  home = home
  about = about
  admin = admin
  partner = partner
  blocked = blocked
  main = main
  other = other
  Worker = {w1, w2}
  Url <- MCUrl
  Domain <- MCDomain
  DomainOf <- MCDomainOf
  Links <- MCLinks
  Priority <- MCPriority
  StartUrl = home
  SitemapUrls <- MCNoSitemapUrls
  Disallowed <- MCDisallowed
  MaxPages = 5
  MaxDepth = 2
  IdleLimit = 0
  RespectRobots = TRUE
  OutlivesCache = FALSE
  EnableBrowser = FALSE
  BadAgent = FALSE
PROPERTY
  RulesOnceReadBind
