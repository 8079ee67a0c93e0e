\* Recovery and settlement under fair timers and a fair network.
SPECIFICATION FairSpec
CONSTANTS
  k1 = k1
  k2 = k2
  s1 = s1
  s2 = s2
  Conns = {k1, k2}
  NoConn = NoConn
  Saves = {s1}
  MaxInbox = 1
  ServedHere = TRUE
PROPERTY LinkSettles
