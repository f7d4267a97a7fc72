SPECIFICATION Spec
CONSTANTS
  p1 = p1
  p2 = p2
  p3 = p3
  p4 = p4
  mail = mail
  phone = phone
  Page <- MCPage
  Contact <- MCContact
  Extracted <- MCExtracted
  MaxFailures = 1
CHECK_DEADLOCK FALSE
INVARIANTS
  TypeOK
  OneSourcePerContact
  FoundMatchesSources
  StoredPageCovered
PROPERTY
  PagesSettle
