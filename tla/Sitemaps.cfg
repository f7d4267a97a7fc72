SPECIFICATION Spec
CONSTANTS
  default = default
  shop = shop
  news = news
  deep = deep
  p1 = p1
  p2 = p2
  p3 = p3
  p4 = p4
  p5 = p5
  abroad = abroad
  image = image
  com = com
  example = example
  www = www
  Sitemap <- MCSitemap
  Roots <- MCRoots
  ChildLists <- MCChildLists
  Page <- MCPage
  Pages <- MCPages
  Domain <- MCDomain
  Crawlable = {p1, p2, p3, p4, p5, abroad}
  AllowedDomains <- MCAllowedDomains
  MaxUrls = 4
  MaxDepth = 2
CHECK_DEADLOCK FALSE
INVARIANTS
  EachOnce
  WalkComplete
  FailureContained
