SPECIFICATION Spec
CONSTANTS
  t1 = t1  t2 = t2  u1 = u1  u2 = u2
  f1 = f1  f2 = f2
  Fields = {f1, f2}
  Tools = {t1}
  Undos = {u1, u2}
  MaxVal = 2
  MaxLines = 4
  FileLines = 2
  MaxMishaps = 1
  OldBody <- OldWrite
SYMMETRY Symmetry
VIEW Lean
INVARIANTS VerdictTrue RevertedOnce
PROPERTY NoSilentLoss
CHECK_DEADLOCK FALSE
