SPECIFICATION Spec
CONSTANTS
  a = a
  b = b
  Ends = {a, b}
  Polite = a
  ForceRelay = {}
  DenyRelay = {}
  Misses = {a}
  Eager = TRUE
  Faults = TRUE
  MaxGen = 2
  MaxMsgs = 3
  MaxLost = 1
INVARIANTS SessionsAgree IgnoredIsStale RefusesOnlyNewcomers GapsOnlyAtTheSwitch
PROPERTIES SessionSpec
CHECK_DEADLOCK FALSE
