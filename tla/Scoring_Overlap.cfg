SPECIFICATION Spec
CONSTANTS
  wedding = wedding
  home = home
  scan1 = scan1
  scan2 = scan2
  nightly = nightly
  Customers = {c1}
  EventTypes = {wedding}
  RuleOrder <- OneEvent
  Confidence <- OneEvent
  Jobs = {scan1, scan2, nightly}
  Scans = {scan1, scan2}
  Slots = 2
  Blank = Blank
  NoVector = NoVector
  Unknown = Unknown
  NoCustomer = NoCustomer
  MaxRetries = 1
  MaxFaults = 1
  MaxDismissals = 1
CHECK_DEADLOCK FALSE
SYMMETRY Symmetry
INVARIANTS
  TypeOK
  NewOpportunitiesBounded
  EventRowsBounded
PROPERTIES
  DismissedStaysDismissed
