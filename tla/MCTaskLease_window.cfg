SPECIFICATION FairSpec
CONSTANTS
  Agent = {a1, a2}
  Claim = {1, 2, 3}
  Rev = {r1}
  NoClaim = NoClaim
  NoTree = NoTree
  NoRecord = NoRecord
  Nobody = Nobody
  Inline = FALSE
  Unleased = FALSE
  IOFaults = FALSE
  CrashPoints <- ResumablePoints
PROPERTY ImplementsOwnership
PROPERTY WindowCloses
PROPERTY PublishedLeaseIsCleared
ACTION_CONSTRAINT LeastFresh
CHECK_DEADLOCK FALSE
