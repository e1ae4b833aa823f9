CONSTANTS
  UserConfigs <- ShortFile
  Handles = {"front", "other"}
  Slots = 2
  MaxInfos = 2
  MaxFaults = 0
SPECIFICATION Spec
INVARIANT OnlyUserConfigIsSent
CHECK_DEADLOCK FALSE
