SPECIFICATION ReadsSpec
CONSTANTS
  MaxRow = 5
  Starts = {0, 1}
  PageSize = 2
  Cap = 3
  ScanFactor = 2
  MaxChanges = 2
  k1 = k1  k2 = k2  k3 = k3  k4 = k4  r1 = r1  r2 = r2
  Keys = {k1, k2, k3, k4}
  Readers = {r1, r2}
  MaxEntries = 2
  MaxUsers = 2
  NoKey = NoKey
SYMMETRY Symmetry
INVARIANTS
  EachRowOnce SaysWhatItLeft
  EvictsByUse ReadAsCurrent
CHECK_DEADLOCK FALSE
