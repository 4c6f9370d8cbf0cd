SPECIFICATION FairSpec
CONSTANTS
  Customers = {c1, c2}
  ATTEMPTS = 3
  DISPLAYED = 1
  MaxTokens = 2
CHECK_DEADLOCK FALSE
INVARIANTS
  TypeOK
  DoneMeansAllShown
  PageEndsWithAnswer
PROPERTIES
  ChatEnds
