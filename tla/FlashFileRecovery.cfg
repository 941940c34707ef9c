SPECIFICATION Spec
CONSTANTS
  NumBlocks = 4
  BlockSize = 16
  HeadSize = 4
  TagSize = 3
  Files = {0}
  BlockLimit <- LimitTwo
  RecSize = 2
  Unit = 1
  Interval = 2
  Uses <- RegularUse
  Retain = 1
  Garbage <- AnyNext
PROPERTIES
  RecoversFiles
CHECK_DEADLOCK FALSE
