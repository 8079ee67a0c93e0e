----------------------------- MODULE MCPwmGuard -----------------------------
(* Model-checking instance of PwmGuard: one robot connection at a time, one  *)
(* admin, two sessions.                                                      *)
EXTENDS PwmGuard

CONSTANTS r1, a1, g1, g2
=============================================================================
