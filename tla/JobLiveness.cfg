SPECIFICATION FairSpec
CONSTANTS
  Jobs = {j1, j2}
  Routines = {r1}
  Main = main
  Nobody = nobody
  NoJob = nojob
  MaxJobs = 2
  MaxParallel = 1
  MaxRepair = 0
  MaxIter = 1
  HasStore = FALSE
CHECK_DEADLOCK FALSE
PROPERTIES
  EntriesLeave
  ClientsReturn
  StuckIsHandled
  CancelBlocksTools
