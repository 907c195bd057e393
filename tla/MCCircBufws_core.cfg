SPECIFICATION Spec
CONSTANTS
  Byte = {0, 1}
  MaxQueue = 3
  MaxShadow = 3
  MaxEles = 4
  Calls <- CoreCalls
INVARIANT TypeOK
INVARIANT CurElesExact
INVARIANT DeviceTargetStable
PROPERTY PeakFollowsGrowth
PROPERTY ImplementsByteQueue
VIEW BufferView
