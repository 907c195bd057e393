SPECIFICATION LogSpec
CONSTANTS
  Msg <- Messages
  Line <- Lines
  BufMax <- Sizes
  Disk <- Disks
  MaxFile = 6
INVARIANT LossBounded
PROPERTY ImplementsAppendLog
CHECK_DEADLOCK FALSE
