SPECIFICATION StoreSpec
CONSTANTS
  s1 = s1
  s2 = s2
  r1 = r1
  r2 = r2
  Streams = {s1, s2}
  Sizes = {1, 5}
  Replays = {r1, r2}
  MaxEvents = 3
  MaxBytes = 4
  MaxSeq = 5
SYMMETRY Symmetry
CHECK_DEADLOCK FALSE
INVARIANTS
  BytesAccounted
  QuietReplayComplete
  SentOnceInOrder
