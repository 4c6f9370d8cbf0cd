SPECIFICATION Spec
CONSTANTS
  c1 = c1
  c2 = c2
  phoneA = phoneA
  phoneB = phoneB
  mailA = mailA
  s1 = s1
  s2 = s2
  Campaigns = {c1}
  Requests = {r1, r2}
  Workers = {w1, w2}
  Channel <- OneChannel
  Contact <- OneContact
  GenSession <- OneSession
  HdrSession <- NoHeader
  Templated = {}
  Edits = {typed}
  NoContact = NoContact
  NoSession = NoSession
  Draft = Draft
  NoEdit = NoEdit
  TemplateText = TemplateText
  LIMITS <- SmallLimits
  MaxRetries = 1
  MaxDays = 1
  MaxLost = 0
CHECK_DEADLOCK FALSE
SYMMETRY Symmetry
INVARIANTS
  TypeOK
  SentTextWasApproved
  SentRecordsAcceptedMessage
  FunnelOrder
PROPERTIES
  LifecycleHolds
