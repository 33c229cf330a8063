SPECIFICATION FairSpec
CONSTANTS
  t1 = t1  t2 = t2  r1 = r1  c1 = c1  c2 = c2
  Tasks = {t1, t2}
  Modern = {t2}
  Readers = {r1}
  Cancellers = {c1, c2}
  NoTask = NoTask
INVARIANT WorkSafe
PROPERTY ImplementsService ReadersEnd
CHECK_DEADLOCK FALSE
