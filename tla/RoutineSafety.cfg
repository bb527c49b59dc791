SPECIFICATION Spec
CONSTANTS
  Routines = {r1}
  MaxRuns = 2
  MaxRoutines = 1
  MaxConcurrent = 1
  Tools = {t1}
  Handlers = {}
  MaxUpsets = 1
  StoreFails = TRUE
CHECK_DEADLOCK FALSE
INVARIANTS
  TypeOK
  GuardrailSeesRuns
  CountersEarned
