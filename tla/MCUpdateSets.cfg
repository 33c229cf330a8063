SPECIFICATION FairSpec
CONSTANTS
  c1 = c1  c2 = c2  c3 = c3  s1 = s1  s2 = s2  own = own
  NoRow = NoRow  Nobody = Nobody
  Calls = {c1, c2, c3}
  SetOf <- BoundTo
  Scoped = {c1}
  OwnSets = {own}
  MaxChoices = 1
INVARIANTS LandsInItsSet LeavesAsFound
PROPERTY TurnsCome
CHECK_DEADLOCK FALSE
