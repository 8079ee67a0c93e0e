---------------------------- MODULE MCRobotLink ----------------------------
(* Model-checking instance of RobotLink: two sockets, two saves.             *)
EXTENDS RobotLink, TLC

CONSTANTS k1, k2, s1, s2

Symmetric == Permutations({k1, k2}) \cup Permutations({s1, s2})
=============================================================================
