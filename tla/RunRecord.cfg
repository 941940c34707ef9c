SPECIFICATION FairSpec
CONSTANTS
  Secs = 3
  Mins = 2
  Minutes = 2
  Slots = 1
  MaxUpset = 1
INVARIANTS
  TypeOK
  BlockSound
PROPERTIES
  DroppedOnlyOnTheHour
  BlockLeaves
