CONSTANTS
  Absent = Absent
  MaxEntries = 1
  PclDataTypes = {1, 2, 3}
  PatternModes = {0, 2}
  BlindSpots = {50, 127, 128, 200}
  DualEmits = {0, 1}
SPECIFICATION Spec
INVARIANT BlindSpotKept
CHECK_DEADLOCK FALSE
