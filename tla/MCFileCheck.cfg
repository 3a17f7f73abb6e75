CONSTANTS
  p1 = p1
  p2 = p2
  p3 = p3
  Procs = {p1, p2, p3}
  Runs <- OneTwice
SPECIFICATION Spec
INVARIANTS
  EveryoneGetsTheFile
  TempsHaveReason
SYMMETRY Alike
CHECK_DEADLOCK FALSE
