CONSTANTS
  NumLidars = 2
  Size = 1
  W = 2
  Formats = {"PointCloud2", "Pcl"}
  Memory = "ARM"
  Torn = Torn
INVARIANT StrandedBound
SPECIFICATION StreamSpec
PROPERTIES EveryFrameIsPublished ExitCompletes
CHECK_DEADLOCK FALSE
