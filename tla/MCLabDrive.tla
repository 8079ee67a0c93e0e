----------------------------- MODULE MCLabDrive -----------------------------
(* Model-checking instances of LabDrive.                                     *)
EXTENDS LabDrive, TLC

CONSTANTS p1, p2, c1, c2

Symmetric == Permutations({p1, p2}) \cup Permutations({c1, c2})
=============================================================================
