SPECIFICATION FairSpec
CONSTANTS
  a = a
  b = b
  Ends = {a, b}
  Polite = a
  ForceRelay = {}
  DenyRelay = {b}
  Misses = {a}
  Eager = FALSE
  Faults = TRUE
  MaxGen = 2
  MaxMsgs = 2
  MaxLost = 0
PROPERTIES Settles PartnerLossNoticed
CHECK_DEADLOCK FALSE
