\* Two pages whose runs the bridge ends shortly after each other.
SPECIFICATION GuardSpec
CONSTANTS
  p1 = p1
  p2 = p2
  c1 = c1
  c2 = c2
  Pages = {p1, p2}
  Clients = {c1, c2}
  Nobody = Nobody
  MaxSent = 1
  MaxStates = 1
  LinksMayFail = FALSE
SYMMETRY Symmetric
PROPERTIES
  EachRunIsGuarded
