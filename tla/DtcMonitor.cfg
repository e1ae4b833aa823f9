CONSTANTS
  DataTimeout = 1
  StateTimeout = 1
  StartupGrace = 2
  Lidars <- MCLidars
  MaxDelay = 1
  MaxChanges = 1
  SetBack = 2
SPECIFICATION FairSpec
INVARIANTS VerdictWasTrue
PROPERTIES ClearedWasClear FaultsFollowAlarms InOrderIsUsable
CHECK_DEADLOCK FALSE
