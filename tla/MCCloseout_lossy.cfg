SPECIFICATION Spec
CONSTANTS
  Proc = {p1, p2, p3}
  Nobody = Nobody
  Unwritten = Unwritten
  NoDir = NoDir
  Overlap = FALSE
  EarlyFaults = TRUE
  CrashPoints = {}
PROPERTY AbortRestores
CHECK_DEADLOCK FALSE
