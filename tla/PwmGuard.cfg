\* Failing and working I/O, one foreign write, crashes and recovery, a hanging client,
\* arbitrary requests.  Only one robot connection is let in, so one name for it will do.
SPECIFICATION FairSpec
CONSTANTS
  r1 = r1
  a1 = a1
  g1 = g1
  g2 = g2
  MinUs = 5
  Neutral = 10
  MaxUs = 20
  RobotFds = {r1}
  AdminFds = {a1}
  NoFd = NoFd
  MaxRobotPeers = 1
  Sessions = {g1, g2}
  NoSession = NoSession
  MaxSeq = 2
  Commands = {0, 10, 20, 21}
  Lease = 2
  ArmTime = 1
  DrainTime = 2
INVARIANTS
  GuardSafety
  RecoveredIsLow
PROPERTIES
  SessionsOnlyEnd
  HungOwnerLosesOutput
