CONSTANTS
  Lidars = {l1, l2}
  Interval = 2
  Stamps = {2, 4}
  StampValues = 16
  MaxPackets = 3
  Times = {0, 5}
SPECIFICATION FairSpec
INVARIANTS PointsConserved CatchUpBounded
PROPERTY QuitEndsThread
CHECK_DEADLOCK FALSE
