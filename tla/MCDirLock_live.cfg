SPECIFICATION FairSpec
CONSTANTS
  Proc = {p1, p2}
  Slot = {s1, s2}
  Inode = {i1, i2}
  NoDir = NoDir
  NoToken = NoToken
  Nobody = Nobody
  ReclaimOwner = TRUE
  ReclaimEmpty = FALSE
  IOFaults = TRUE
  PidReuse = FALSE
  CrashPoints <- RecoverablePoints
INVARIANT QuiescentIsAcquirable
PROPERTY DeadOwnerIsReclaimed
PROPERTY AcquisitionReturns
CHECK_DEADLOCK FALSE
