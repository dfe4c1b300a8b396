SPECIFICATION Spec
CONSTANTS
  Agent = {a1, a2}
  Claim = {c1, c2, c3}
  Rev = {r1}
  NoClaim = NoClaim
  NoTree = NoTree
  NoRecord = NoRecord
  Nobody = Nobody
  Inline = TRUE
  Unleased = FALSE
  IOFaults = TRUE
  CrashPoints = {"rename"}
SYMMETRY Symmetry
PROPERTY AllOrNothing
CHECK_DEADLOCK FALSE
