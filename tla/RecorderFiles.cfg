CONSTANTS
  FileRows = 2
  MaxRows = 9
  MaxFaults = 4
  Absent = Absent
SPECIFICATION FilesSpec
INVARIANTS RowsInOrder PartialIsLast FilesBounded
PROPERTY OnlyOldestRemoved
CHECK_DEADLOCK FALSE
