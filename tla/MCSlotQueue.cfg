SPECIFICATION SlotFairSpec
CONSTANTS
  Callers = {c1, c2, c3, c4}
  Limits = {1, 2}
  MaxQueue = 2
  MaxDrains = 1
INVARIANTS
  PlacesKept
PROPERTIES
  FirstComeFirstServed
  ImplementsService
  WaitEnds
