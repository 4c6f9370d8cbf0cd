SPECIFICATION FairSpec
CONSTANTS
  Opps = {o1, o2}
  Reads = {r1, r2}
  Missing = Missing
  MaxEdits = 1
  MaxChanges = 1
CHECK_DEADLOCK FALSE
INVARIANTS
  TypeOK
  DismissedNotListed
  ListShowsApprovedText
PROPERTIES
  CachesSettle
