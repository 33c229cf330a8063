SPECIFICATION TokensSpec
CONSTANTS
  p1 = p1  p2 = p2  c1 = c1  c2 = c2  c3 = c3  l1 = l1  l2 = l2
  o1 = o1  o2 = o2  a1 = a1  a2 = a2
  Nobody = Nobody
  Replicas = {p1, p2}
  Calls = {c1, c2, c3}
  Where <- CallAt
  Links = {l1, l2}
  MaxTokens = 3
  Profiles = {o1, o2}
  Askers = {a1, a2}
  None = None
  MaxMade = 2
  MaxSecrets = 2
SYMMETRY Symmetry
INVARIANTS
  LinkUsable UnlinkFinal
  SecretsCurrent LoginSafe
