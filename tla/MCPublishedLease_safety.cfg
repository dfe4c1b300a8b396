SPECIFICATION Spec
CONSTANTS
  Claim = {c1, c2}
  Reconciler = {r1}
  MaxHead = 2
  MaxTip = 2
  MaxPR = 2
  MaxRenewal = 2
  None = None
SYMMETRY Symmetry
CONSTRAINT Focus
INVARIANT TypeOK
INVARIANT ReviewIsBacked
PROPERTY ReviewEndsOnRecord
PROPERTY RenewalProtects
CHECK_DEADLOCK FALSE
