SPECIFICATION Spec
CONSTANTS
  Proc = {p1, p2}
  Nobody = Nobody
  Unwritten = Unwritten
  NoDir = NoDir
  Overlap = TRUE
  EarlyFaults = FALSE
  CrashPoints = {"implement"}
PROPERTY PreparedIsKept
CHECK_DEADLOCK FALSE
