--------------------------- MODULE MCLabDriveGuard ---------------------------
(* LabDrive with the time since the bridge ended a run, for its restart guard. *)
EXTENDS MCLabDrive

VARIABLE recent   \* history: sessions whose run the bridge ended within RESTART_GUARD_SEC

GuardInit == Init /\ recent = {}

\* A guard that appears starts a session's time, one that goes has run its time.
Watch ==
    recent' = IF bridge'.guard = Nobody THEN recent \ {bridge.guard}
              ELSE recent \cup {bridge'.guard}

\* The time of a session whose guard was replaced.
TimeOver(c) ==
    /\ c \in recent /\ bridge.guard # c
    /\ recent' = recent \ {c}
    /\ UNCHANGED vars

GuardSpec ==
    GuardInit /\ [][(Next /\ Watch) \/ \E c \in Clients : TimeOver(c)]_<<vars, recent>>

(* drive.py:30 promises that a run the bridge ended "is not restarted by its *)
(* owner's commands for RESTART_GUARD_SEC", with any number of sessions.     *)
EachRunIsGuarded ==
    [][\A c \in recent : bridge'.owner = c => bridge.owner = c]_<<vars, recent>>
=============================================================================
