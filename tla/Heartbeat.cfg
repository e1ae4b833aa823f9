CONSTANTS
  Codes = {c1, c2}
  W = 3
  MaxWork = 2
SPECIFICATION FairSpec
INVARIANTS FailureIsReported
PROPERTIES SequenceIsGapless NeverGoesBack CopiedIsComplete StopReturns
CHECK_DEADLOCK FALSE
