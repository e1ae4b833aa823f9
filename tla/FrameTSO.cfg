CONSTANTS
  NumLidars = 2
  Size = 2
  W = 4
  Formats = {"PointCloud2"}
  Memory = "TSO"
  Torn = Torn
SPECIFICATION Spec
INVARIANTS TypeOK RingIntact PublishedInOrder
PROPERTY ImplementsFifo
CHECK_DEADLOCK FALSE
