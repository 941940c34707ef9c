SPECIFICATION Spec
CONSTANTS
  RingSize = 32
  ErrCmd = 7
  GetcmdMax = 16
  SetLen = 2
  Peers <- OnePeer
INVARIANTS
  SettingStored
