CONSTANTS
  UserConfigs <- ConfigFile
  Handles = {"front", "rear", "other"}
  Slots = 2
  MaxInfos = 3
  MaxFaults = 1
SPECIFICATION FairSpec
INVARIANTS DistinctSlots SamplingIsConfigured
PROPERTY LidarsStart
CHECK_DEADLOCK FALSE
