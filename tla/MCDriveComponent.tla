-------------------------- MODULE MCDriveComponent --------------------------
(* drive_component with two wheels and timeouts of one unit, so that every *)
(* order of the expiries is met.                                           *)
EXTENDS DriveComponent, TLC

CONSTANTS Left, Right

WheelSymmetry == Permutations({Left, Right})
=============================================================================
