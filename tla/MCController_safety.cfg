SPECIFICATION Spec
CONSTANTS
  Proc = {p1, p2}
  Key = {k1, k2}
  OperatorKey = {o1}
  Run = {d1, d2}
  MaxRetry = 1
  MaxEvents = 8
  Torn <- NonTerminal
  Nothing = Nothing
SYMMETRY Symmetry
INVARIANT TypeOK
INVARIANT OneHistory
INVARIANT EffectsAreRecorded
INVARIANT OneClaimAtATime
INVARIANT DispatchOnce
INVARIANT LaunchIsCovered
PROPERTY AcquiresWhenAnnounced
CHECK_DEADLOCK FALSE
