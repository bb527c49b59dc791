SPECIFICATION FairSpec
CONSTANTS
  Jobs = {old, j1}
  OldJobs = {old}
  MaxCrashes = 1
CHECK_DEADLOCK FALSE
INVARIANTS
  TokenHasOwner
  CompletedIsOver
PROPERTIES
  WaitedIsRevoked
