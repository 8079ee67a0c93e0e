---------------------------- MODULE DriveTenure ----------------------------
(***************************************************************************)
(* What the drive arbiter (command_arbiter/src/drive_arbiter_component.cpp *)
(* with source_selector.hpp) promises the wheels, with no selector, clock, *)
(* lock or status in it: one source holds the drive at a time, a lab run   *)
(* starts and goes on only with the lesson permission, it ends with a stop *)
(* or with the controller's own command, and a run that the controller     *)
(* interrupted is over for good: only a new one may start.                 *)
(***************************************************************************)
VARIABLES
    holder,   \* "joy" or "lab": who has the drive
    motion,   \* "still", or whose command moves the wheels
    run,      \* of the lab: "none", "asking", or "barred" by the controller
    busy,     \* an active command of the controller is in force
    allowed   \* the lesson permission

tenureVars == <<holder, motion, run, busy, allowed>>

TenureInit ==
    /\ holder = "joy" /\ motion = "still" /\ run = "none"
    /\ busy = FALSE /\ allowed = FALSE

\* The controller, below the threshold that would interrupt a run.
Steer ==
    /\ holder = "joy"
    /\ motion' \in {"joy", "still"}
    /\ busy' = FALSE
    /\ UNCHANGED <<holder, run, allowed>>

\* The controller in use always wins, and bars a run that asks or drives.
Override ==
    /\ holder' = "joy" /\ motion' = "joy" /\ busy' = TRUE
    /\ run' = IF run = "none" THEN "none" ELSE "barred"
    /\ UNCHANGED allowed

LabStarts ==
    /\ holder = "joy" /\ allowed /\ ~busy /\ run # "barred"
    /\ holder' = "lab" /\ motion' = "lab" /\ run' = "asking"
    /\ UNCHANGED <<busy, allowed>>

LabDrives ==
    /\ holder = "lab" /\ allowed
    /\ motion' = "lab" /\ run' = "asking"
    /\ UNCHANGED <<holder, busy, allowed>>

\* However a run ends, the wheels stop with it; only a lost permission leaves it asking.
LabEnds ==
    /\ holder = "lab"
    /\ holder' = "joy" /\ motion' = "still"
    /\ run' = "none" \/ (run' = "asking" /\ ~allowed)
    /\ UNCHANGED <<busy, allowed>>

\* A command of a lab that does not get the drive.
LabAsksInVain ==
    /\ holder = "joy"
    /\ run' = IF run = "barred" THEN "barred" ELSE "asking"
    /\ UNCHANGED <<holder, motion, busy, allowed>>

\* A neutral ends the run; it may also stop wheels nobody is in charge of.
LabRests ==
    /\ holder = "joy"
    /\ run' = "none"
    /\ motion' = motion \/ (motion' = "still" /\ allowed /\ ~busy)
    /\ UNCHANGED <<holder, busy, allowed>>

\* Time only takes away.
TimePasses ==
    /\ run' \in {run, "none"}
    /\ busy' => busy
    /\ allowed' => allowed
    /\ UNCHANGED <<holder, motion>>

TeacherDecides == allowed' \in BOOLEAN /\ UNCHANGED <<holder, motion, run, busy>>

TenureNext ==
    \/ Steer \/ Override \/ LabStarts \/ LabDrives \/ LabEnds \/ LabAsksInVain \/ LabRests
    \/ TimePasses \/ TeacherDecides

TenureSpec == TenureInit /\ [][TenureNext]_tenureVars
=============================================================================
