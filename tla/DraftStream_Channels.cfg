SPECIFICATION FairSpec
CONSTANTS
  Channels = {"whatsapp", "email"}
  Calls = {"generate"}
  Drafts <- MCDrafts
CHECK_DEADLOCK FALSE
INVARIANTS
  TypeOK
  DoneDraftIsOfTheTokens
PROPERTIES
  OutcomesHold
  ReportedDraftsAreShown
  StreamEnds
