SPECIFICATION Spec
CONSTANTS
  Jobs = {j1, j2}
  Routines = {r1}
  Main = main
  Nobody = nobody
  NoJob = nojob
  MaxJobs = 1
  MaxParallel = 1
  MaxRepair = 1
  MaxIter = 1
  HasStore = TRUE
CHECK_DEADLOCK FALSE
SYMMETRY Symmetry
INVARIANTS
  ActiveBound
  WorkersTracked
  WorkedJobState
  DbOutcomeTrue
PROPERTIES
  PoolSpec
