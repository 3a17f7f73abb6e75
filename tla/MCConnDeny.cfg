SPECIFICATION Spec
CONSTANTS
  a = a
  b = b
  Ends = {a, b}
  Polite = a
  ForceRelay = {}
  DenyRelay = {b}
  Misses = {}
  Eager = FALSE
  Faults = FALSE
  MaxGen = 1
  MaxMsgs = 3
  MaxLost = 0
INVARIANTS DenyMeansNoRelay
CHECK_DEADLOCK FALSE
