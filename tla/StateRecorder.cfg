CONSTANTS
  Producers = {p1, p2}
  Capacity = 2
  States = {s1, s2}
  MaxAttempts = 3
  Query = Query
  Lifecycle = Lifecycle
SPECIFICATION FairSpec
INVARIANTS WrittenInOrder StopFlushesAccepted
PROPERTIES ImplementsLog StopReturns
CHECK_DEADLOCK FALSE
