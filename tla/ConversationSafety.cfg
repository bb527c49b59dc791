SPECIFICATION FairSpec
CONSTANTS
  Threads = {"a", "b"}
  Tools = {"shell"}
  MaxTurns = 3
  MaxRequests = 2
  MaxCalls = 2
  MaxCheckpoints = 2
  MaxIterations = 3
  Keeps = {1}
INVARIANTS ThreadsAnswerable ApprovalIsCurrent OneQuestion
PROPERTIES NoCrossAnswer UndoLine MessageEnds
