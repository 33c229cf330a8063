SPECIFICATION Spec
CONSTANTS
  w = w
  r = r
  d = d
  gw = gw
  gr = gr
  gd = gd
  Reads = {r}
  Writes = {w}
  Diagnostics = {}
  Grants = {gw}
  GrantOf <- WriteGrant
  Bearers = {r}
  MaxRetries = 1
  Threshold = 2
  Callers = {w, r, gw}
  Limits = {1}
  MaxQueue = 1
  MaxDrains = 1
INVARIANTS
  WriteAppliedOnce
  OutcomeHonest
PROPERTIES
  BreakerEvidence
VIEW View
