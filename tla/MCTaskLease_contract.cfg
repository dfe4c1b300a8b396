SPECIFICATION Spec
CONSTANTS
  Agent = {a1, a2}
  Claim = {c1, c2, c3}
  Rev = {r1, r2}
  NoClaim = NoClaim
  NoTree = NoTree
  NoRecord = NoRecord
  Nobody = Nobody
  Inline = FALSE
  Unleased = TRUE
  IOFaults = FALSE
  CrashPoints <- LitteredPoints
SYMMETRY Symmetry
INVARIANT TypeOK
INVARIANT WindowIsFenced
INVARIANT TokenFollowsBinding
PROPERTY WritesAreFenced
PROPERTY OwnerPublishes
CHECK_DEADLOCK FALSE
