SPECIFICATION FairSpec
CONSTANTS
  Callers = {c1, c2}
  N = 2
  Threshold = 2
  BreakerThreshold = 2
  Needed = 2
  MaxEntries = 1
INVARIANTS
  TypeOK
PROPERTY PrimaryReturns
