\* One page whose link fails, at either end, and comes back as a new session.
SPECIFICATION FairSpec
CONSTANTS
  p1 = p1
  p2 = p2
  c1 = c1
  c2 = c2
  Pages = {p1}
  Clients = {c1, c2}
  Nobody = Nobody
  MaxSent = 1
  MaxStates = 1
  LinksMayFail = TRUE
INVARIANTS
  DrivingSafety
PROPERTIES
  RunnersHear
  RunsStartFromRest
