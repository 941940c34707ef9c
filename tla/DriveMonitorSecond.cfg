SPECIFICATION Spec
CONSTANTS
  Hold = 2
  SecTicks = 2
  MinTicks = 1
  FiveTicks = 1
  Voice = 1
  Debounce = 1
  Speeds <- Slow
PROPERTIES
  JournalEverySecond
