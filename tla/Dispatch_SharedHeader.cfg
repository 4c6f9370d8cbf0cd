SPECIFICATION Spec
CONSTANTS
  c1 = c1
  c2 = c2
  phoneA = phoneA
  phoneB = phoneB
  mailA = mailA
  s1 = s1
  s2 = s2
  Campaigns = {c1, c2}
  Requests = {r1, r2}
  Workers = {w1, w2}
  Channel <- TwoSms
  Contact <- TwoCustomers
  GenSession <- SharedSession
  HdrSession <- NoHeader
  Templated = {}
  Edits = {}
  NoContact = NoContact
  NoSession = NoSession
  Draft = Draft
  NoEdit = NoEdit
  TemplateText = TemplateText
  LIMITS <- SmallLimits
  MaxRetries = 0
  MaxDays = 1
  MaxLost = 0
CHECK_DEADLOCK FALSE
INVARIANTS
  RightRecipient
