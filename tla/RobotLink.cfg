\* Every interleaving of learner, timers, network and bridge.
SPECIFICATION Spec
CONSTANTS
  k1 = k1
  k2 = k2
  s1 = s1
  s2 = s2
  Conns = {k1, k2}
  NoConn = NoConn
  Saves = {s1, s2}
  MaxInbox = 1
  ServedHere = TRUE
SYMMETRY Symmetric
INVARIANT LinkSafety
PROPERTY KeepsPromise
