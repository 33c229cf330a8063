SPECIFICATION FairSpec
CONSTANTS
  w = w
  r = r
  d = d
  gw = gw
  gr = gr
  gd = gd
  Reads = {}
  Writes = {w}
  Diagnostics = {d}
  Grants = {gw}
  GrantOf <- WriteGrant
  Bearers = {}
  MaxRetries = 0
  Threshold = 1
  Callers = {w, d, gw}
  Limits = {1}
  MaxQueue = 1
  MaxDrains = 0
PROPERTIES
  AllEnd
  DiagnosticsEnd
