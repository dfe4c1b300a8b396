SPECIFICATION Spec
CONSTANTS
  Proc = {p1, p2}
  Key = {k1, k2}
  Op = {"retry_attempt"}
  Outcomes = {"progress", "provider_failure"}
  MaxRev = 2
  Limit <- MCLimit
  StreakLimit <- MCStreakLimit
  Deadline <- MCDeadline
  MaxClock = 2
  NoKey = NoKey
  NoRecord = NoRecord
  Nobody = Nobody
INVARIANT TypeOK
INVARIANT NeverCorrupt
INVARIANT DecidesOnTruth
INVARIANT DecisionBinds
INVARIANT WithinLimits
PROPERTY ImplementsBudget
SYMMETRY Symmetry
CHECK_DEADLOCK FALSE
