SPECIFICATION FairSpec
CONSTANTS
  Histories <- MCHistories
  Profiles <- MCProfiles
  MaxAttempts = 2
  MaxTries = 2
  MaxFaults = 5
CHECK_DEADLOCK FALSE
INVARIANTS
  TypeOK
  DoubtfulHighRiskNotDrafted
  IneligibleLoanNotDrafted
  EventIsAccountedFor
  ApiCallsBounded
PROPERTIES
  RunEnds
