SPECIFICATION FairSpec
CONSTANTS
  Requests = {q1, q2}
  Callbacks = {hook, poll}
  Poller = poll
  Tasks = {t1, t2}
  Capacity = 1
  MaxPending = 1
  MaxRounds = 2
CHECK_DEADLOCK FALSE
INVARIANTS
  TypingEnds
  WaiterReachable
PROPERTIES
  RequestsReturn
  ShutdownEnds
