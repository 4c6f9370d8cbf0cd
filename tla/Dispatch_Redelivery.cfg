SPECIFICATION FairSpec
CONSTANTS
  c1 = c1
  c2 = c2
  phoneA = phoneA
  phoneB = phoneB
  mailA = mailA
  s1 = s1
  s2 = s2
  Campaigns = {c1, c2}
  Requests = {r1, r2}
  Workers = {w1}
  Channel <- SmsAndEmail
  Contact <- OneReachable
  GenSession <- EachSession
  HdrSession <- OtherSession
  Templated = {}
  Edits = {}
  NoContact = NoContact
  NoSession = NoSession
  Draft = Draft
  NoEdit = NoEdit
  TemplateText = TemplateText
  LIMITS <- SmallLimits
  MaxRetries = 1
  MaxDays = 1
  MaxLost = 1
CHECK_DEADLOCK FALSE
INVARIANTS
  SendsPerApprovalBounded
  OutcomeIsHonest
  OptOutTakesEffect
PROPERTIES
  EveryTaskSettles
