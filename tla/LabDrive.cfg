\* Two pages and one robot, links that hold.
SPECIFICATION Spec
CONSTANTS
  p1 = p1
  p2 = p2
  c1 = c1
  c2 = c2
  Pages = {p1, p2}
  Clients = {c1, c2}
  Nobody = Nobody
  MaxSent = 1
  MaxStates = 1
  LinksMayFail = FALSE
SYMMETRY Symmetric
INVARIANTS
  DrivingSafety
PROPERTIES
  RunsStartFromRest
