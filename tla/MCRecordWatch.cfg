CONSTANTS
    Sessions = {s1, s2}
    Records = {r1, r2}
    Watches = {w1, w2}
    MaxPerSession = 1
    MaxWatches = 1
    MaxVersion = 2
    MaxFailures = 1
    None = None
SPECIFICATION FairSpec
INVARIANTS
    CapsKept
    NoneLeftBehind
PROPERTY ChangeTold
CHECK_DEADLOCK FALSE
