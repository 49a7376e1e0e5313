SPECIFICATION FairSpec
CONSTANTS
  c1 = c1
  c2 = c2
  c3 = c3
  k1 = k1
  k2 = k2
  NoConn = NoConn
  Conns = {c1, c2}
  Keys = {k1, k2}
  KeyOf <- SameKey
  CallbackPanics = FALSE
  Setters = {c1}
  MaxSets = 1
INVARIANTS
  OneStalePacket
PROPERTIES
  ImplementsLifecycle
  ClosedLeavesTable
  TimeoutReported
  DropReturns
