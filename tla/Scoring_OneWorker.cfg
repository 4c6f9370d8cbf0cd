SPECIFICATION FairSpec
CONSTANTS
  wedding = wedding
  home = home
  scan1 = scan1
  scan2 = scan2
  nightly = nightly
  Customers = {c1, c2}
  EventTypes = {wedding}
  RuleOrder <- OneEvent
  Confidence <- OneEvent
  Jobs = {scan1, nightly}
  Scans = {scan1}
  Slots = 1
  Blank = Blank
  NoVector = NoVector
  Unknown = Unknown
  NoCustomer = NoCustomer
  MaxRetries = 1
  MaxFaults = 1
  MaxDismissals = 0
CHECK_DEADLOCK FALSE
INVARIANTS
  DetectedEventIsScored
PROPERTIES
  EveryJobSettles
