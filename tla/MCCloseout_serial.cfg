SPECIFICATION FairSpec
CONSTANTS
  Proc = {p1, p2, p3}
  Nobody = Nobody
  Unwritten = Unwritten
  NoDir = NoDir
  Overlap = FALSE
  EarlyFaults = FALSE
  CrashPoints <- EveryPoint
INVARIANT OneOwner
INVARIANT Restorable
INVARIANT UnfinishedIsClaimed
PROPERTY AbortSettles
PROPERTY LandedIsNeverUndone
PROPERTY CloseoutEnds
CHECK_DEADLOCK FALSE
