-------------------------- MODULE MCLauncherChain --------------------------
(* A small launcher arbiter and the shot_component behind it: the lab sends *)
(* more than its cap and a tilt beyond its range; the controller steps the *)
(* tilt and fires.                                                         *)
EXTENDS LauncherChain

Command(roller, tilt, steps, seq) ==
    [roller |-> roller, tilt |-> tilt, steps |-> steps, seq |-> seq]

MCJoyCommands == {Command(0, NoTilt, 0, 0), Command(0, NoTilt, 1, 1)}
MCLabCommands == {Command(0, NoTilt, 0, 0), Command(2, NoTilt, 0, 0), Command(2, 5, 0, 1)}
=============================================================================
