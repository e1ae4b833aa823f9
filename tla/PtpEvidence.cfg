CONSTANTS
  StateTimeout = 1
  MaxSyncOffset = 2
  BoundedTtl = 1
  BoundedOffset = 1
  Skews = {1, 3}
  Readings <- MCReadings
  MaxDelay = 1
  MaxTime = 5
  MaxSyncs = 3
SPECIFICATION Spec
INVARIANTS MaskNeedsLiveSync RepeatIsNoEvidence BoundedIsBacked
CHECK_DEADLOCK FALSE
