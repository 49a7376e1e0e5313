SPECIFICATION Spec
CONSTANTS
  c1 = c1
  c2 = c2
  c3 = c3
  k1 = k1
  k2 = k2
  NoConn = NoConn
  Conns = {c1}
  Keys = {k1, k2}
  KeyOf <- OneKey
  CallbackPanics = FALSE
  Setters = {}
  MaxSets = 0
INVARIANTS
  OnCloseMeansTimeout
