SPECIFICATION FairSpec
CONSTANTS
  MaxIterations = 2
  Ring = 2
  Room = 1
  MaxPrompts = 2
  MaxEvents = 1
INVARIANTS
  MonitorTells
PROPERTIES
  Delivered
  PromptArrives
  WorkerEnds
  MonitorEnds
CHECK_DEADLOCK FALSE
