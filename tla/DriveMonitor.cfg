SPECIFICATION FairSpec
CONSTANTS
  Hold = 2
  SecTicks = 2
  MinTicks = 1
  FiveTicks = 1
  Voice = 2
  Debounce = 2
  Speeds <- Fast
INVARIANTS
  TypeOK
  HoldExclusive
  Sustained
  StatusConsistent
  WarnedOnlyInAlarm
PROPERTIES
  DriveNoticed
