SPECIFICATION Spec
CONSTANTS
  NumBlocks = 4
  BlockSize = 16
  HeadSize = 4
  TagSize = 3
  Files = {0}
  BlockLimit <- LimitThree
  RecSize = 2
  Unit = 1
  Interval = 2
  Uses <- BothUses
  Retain = 6
  Garbage <- AnyNext
INVARIANTS
  TypeOK
  NoWild
  ChainInFile
  WithinLimit
  NoGarble
  HeadsTrue
  RetainsNewest
  LoopProgress
PROPERTIES
  RestartWithinLimit
  RestartKeepsRecords
CHECK_DEADLOCK FALSE
