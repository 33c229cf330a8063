SPECIFICATION Spec
CONSTANTS
  c1 = c1
  c2 = c2
  c3 = c3
  c4 = c4
  c5 = c5
  del = del
  bulk = bulk
  None = None
  Weight <- Weights
  Calls = {c1, c2, c3, c4, c5}
  Args = {del, bulk}
  Modes <- AllModes
  MaxPlans = 2
  MaxWrites = 3
  MaxInFlight = 2
SYMMETRY Symmetry
CHECK_DEADLOCK FALSE
INVARIANTS
  OneWritePerPlan
  OneWritePerYes
  JournalHonest
  OvershootBounded
PROPERTIES
  RefusalEndsPlan
