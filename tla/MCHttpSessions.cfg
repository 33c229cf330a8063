SPECIFICATION FairSpec
CONSTANTS
  i1 = i1  i2 = i2  i3 = i3  p1 = p1  g1 = g1
  None = None
  Inits = {i1, i2, i3}
  Posts = {p1}
  Gets = {g1}
  MaxSessions = 2
  Sweeps = TRUE
CHECK_DEADLOCK FALSE
INVARIANTS SessionsCounted NoneLeftBehind
PROPERTIES AllClosed
