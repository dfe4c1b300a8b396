SPECIFICATION Spec
CONSTANTS
  Agent = {a1, a2}
  Claim = {c1, c2, c3}
  Rev = {r1, r2}
  NoClaim = NoClaim
  NoTree = NoTree
  NoRecord = NoRecord
  Nobody = Nobody
  Inline = TRUE
  Unleased = FALSE
  IOFaults = TRUE
  CrashPoints <- RecordedPoints
SYMMETRY Symmetry
INVARIANT NoAmbiguousResidue
PROPERTY CompletesOrRestores
CHECK_DEADLOCK FALSE
