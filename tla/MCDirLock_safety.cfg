SPECIFICATION Spec
CONSTANTS
  Proc = {p1, p2, p3}
  Slot = {s1, s2}
  Inode = {i1, i2}
  NoDir = NoDir
  NoToken = NoToken
  Nobody = Nobody
  ReclaimOwner = TRUE
  ReclaimEmpty = TRUE
  IOFaults = TRUE
  PidReuse = TRUE
  CrashPoints <- EveryPoint
SYMMETRY Symmetry
INVARIANT TypeOK
INVARIANT MutualExclusion
PROPERTY OnlyOwnerUnlinks
PROPERTY ImplementsService
CHECK_DEADLOCK FALSE
