CONSTANTS
  c1 = c1
  c2 = c2
  f1 = f1
  f2 = f2
  s1 = s1
  s2 = s2
  a1 = a1
  a2 = a2
  Calls = {c1, c2}
  Flows = {f1, f2}
  Scopes = {s1, s2}
  Addresses = {a1, a2}
  MaxMarkers = 1
SPECIFICATION Spec
SYMMETRY Symmetric
CHECK_DEADLOCK FALSE
INVARIANTS SpansAccounted ReturnedScreened SkipsTheInner
