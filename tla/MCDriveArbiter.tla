--------------------------- MODULE MCDriveArbiter ---------------------------
(* A small drive arbiter: a controller twist below the neutral threshold   *)
(* and one at it, a lab that stops and one that asks for more than its cap.*)
EXTENDS DriveArbiter

SmallAndActive == {-1, 2}
StopAndExcess == {-3, 0}
=============================================================================
