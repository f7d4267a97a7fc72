SPECIFICATION ScanSpec
CONSTANTS
  KeywordSegment = {"team"}
  StaticSegment = {"logo.png"}
  DeniedPair = {3}
  Element <- MCElement
  PageUrl <- MCPageUrl
  AllowedDomains <- MCAllowedDomains
  IncludeSubdomains = TRUE
  FollowExternal = FALSE
  MaxLinks = 2
  ValidEmail = {"mail"}
  LinkedInLabel = {"linkedin", "notlinkedin"}
  ProfilePath <- MCProfilePath
  RegionOf <- MCRegionOf
  CallingCode <- MCCallingCode
  Possible <- MCPossible
  Valid <- MCValid
  CountryOf <- MCCountryOf
  MaxElements = 4
\* A page ends.
CHECK_DEADLOCK FALSE
INVARIANTS
  LinksWellFormed
  LinksComplete
  ContactsOnce
