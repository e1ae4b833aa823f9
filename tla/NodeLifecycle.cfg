CONSTANTS
  NumLidars = 1
  MaxQueue = 2
  W = 3
  Devices = {d1, d2}
  Configured = d1
  Serials = {s1}
  NoSerial = NoSerial
  Never = Never
  MaxNodes = 2
  Launches <- MCLaunches
SPECIFICATION FairSpec
INVARIANTS OnlyLiveObjectsUsed IdleIsServed IdentityIsLatest ImuNeverStranded
PROPERTIES ImuInOrder DestructorReturns
CHECK_DEADLOCK FALSE
