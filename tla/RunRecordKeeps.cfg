SPECIFICATION Spec
CONSTANTS
  Secs = 3
  Mins = 2
  Minutes = 2
  Slots = 2
  MaxUpset = 1
PROPERTIES
  KeepsBlocks
