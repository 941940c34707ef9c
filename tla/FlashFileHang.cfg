SPECIFICATION FairSpec
CONSTANTS
  NumBlocks = 4
  BlockSize = 16
  HeadSize = 4
  TagSize = 3
  Files = {0}
  BlockLimit <- LimitTwo
  RecSize = 2
  Unit = 1
  Interval = 2
  Uses <- FewGapsUse
  Retain = 2
  Garbage = {3}
PROPERTIES
  AppendReturns
CHECK_DEADLOCK FALSE
