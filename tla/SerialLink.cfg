SPECIFICATION FairSpec
CONSTANTS
  RingSize = 32
  ErrCmd = 4
  GetcmdMax = 8
  SetLen = 2
  Peers <- BothPeers
INVARIANTS
  TypeOK
  Aligned
  NeverOverDispatch
  NoFalseError
  StoresWhatWasSent
  QuietMeansServed
PROPERTIES
  InOrder
  Answered
  HandlerReturns
