---------------------------- MODULE DriveArbiter ----------------------------
(***************************************************************************)
(* The node between the two sources of wheel commands and drive_component: *)
(* command_arbiter/src/drive_arbiter_component.cpp, with the lesson         *)
(* permission of lab_permission.hpp and the selector of SourceSelector.     *)
(*                                                                         *)
(* The node runs its callbacks one at a time; a step is one callback, or    *)
(* the clock.  A twist is one integer: its two components are tested and   *)
(* clamped alike.  Invalid stands for a twist that is not finite; from the  *)
(* controller it changes nothing, so it is no step here.                   *)
(***************************************************************************)
EXTENDS SourceSelector

CONSTANTS
    JoyTwists, LabTwists, \* finite twists the controller and the lab send
    Invalid,              \* a twist with a NaN or an infinity
    Neutral,              \* neutral_linear: a controller twist at or above is "active"
    LabMax,               \* lab_max_linear
    Lease                 \* lab_permission_lease_sec

ASSUME ArbiterAssumption ==
    /\ JoyTwists \subseteq Int /\ LabTwists \subseteq Int /\ Invalid \notin Int
    /\ Neutral \in Nat \ {0} /\ LabMax \in Nat /\ Lease \in Nat

VARIABLES
    sel,         \* selector_
    perm,        \* permission_: what was heard last, and its age
    out,         \* the twist published last on /target_twist, and why
    status,      \* the status published last
    sentVersion, \* sent_version_
    joyTwist,    \* history: the last twist the controller sent
    overridden,  \* history: the controller interrupted a lab run that still goes on
    labAlive,    \* the lab bridge is running
    teacher      \* Robot Manager's heartbeat is running

vars == <<sel, perm, out, status, sentVersion, joyTwist, overridden, labAlive, teacher>>

Magnitude(v) == IF v < 0 THEN -v ELSE v
Clamp(v) == IF v > LabMax THEN LabMax ELSE IF v < -LabMax THEN -LabMax ELSE v
Active(v) == Magnitude(v) >= Neutral

Told(heard) == [heard |-> heard, age |-> 0]

Permitted == perm.heard = "allowed" /\ perm.age <= Lease

Publication(by, v) == [by |-> by, twist |-> v]

\* The fields of ArbiterStatus that can change while the node runs (lab_count,
\* which only counts the lab's messages, is left out).
StatusOf(s, permitted) ==
    [ active_source |-> s.source, switch_reason |-> s.reason, lab_permitted |-> permitted,
      lab_locked |-> s.locked, lab_refusal |-> s.refusal ]

-----------------------------------------------------------------------------
Init ==
    /\ sel = NewSelector
    /\ perm = [heard |-> "nothing", age |-> 0]
    /\ out = Publication("nobody", 0)
    /\ status = StatusOf(NewSelector, FALSE)
    /\ sentVersion = 0
    /\ joyTwist = 0
    /\ overridden = FALSE
    /\ labAlive = TRUE
    /\ teacher = TRUE

\* publishStatus at the end of a callback that left the selector as s.
PublishStatus(s, force) ==
    /\ sel' = s
    /\ IF force \/ sentVersion # s.version \/ status.lab_permitted # Permitted
       THEN /\ status' = StatusOf(s, Permitted)
            /\ sentVersion' = s.version
       ELSE UNCHANGED <<status, sentVersion>>

JoyCallback(v) ==
    /\ out' = IF JoyForwarded(sel, Active(v)) THEN Publication("joy", v) ELSE out
    /\ PublishStatus(OnJoy(sel, Active(v)), FALSE)
    /\ joyTwist' = v
    /\ overridden' = (overridden \/ (Active(v) /\ LabAsking(sel)))
    /\ UNCHANGED <<perm, labAlive, teacher>>

\* A neutral of a lab that does not have the drive still reaches a drive that
\* waits for one, unless the controller is in use.
StartupNeutral(v) ==
    sel.source = "joy" /\ Clamp(v) = 0 /\ Permitted /\ ~JoyBusy(sel)

LabCallback(v) ==
    LET neutral == Clamp(v) = 0
        verdict == Verdict(sel, neutral, Permitted)
    IN  /\ labAlive
        /\ out' = IF verdict \in {"forward", "start"} THEN Publication("lab", Clamp(v))
                  ELSE IF verdict = "stop" \/ StartupNeutral(v) THEN Publication("lab", 0)
                  ELSE out
        /\ PublishStatus(OnLab(sel, neutral, Permitted), FALSE)
        /\ overridden' = (overridden /\ ~neutral)
        /\ UNCHANGED <<perm, joyTwist, labAlive, teacher>>

\* Mutant: an invalid command ends the run without stopping the wheels.
LabInvalidNoStop ==
    /\ labAlive
    /\ PublishStatus(SetRefusal(IF sel.source = "lab" THEN OnLab(sel, TRUE, Permitted) ELSE sel,
                                "invalid"), FALSE)
    /\ UNCHANGED <<out, perm, joyTwist, overridden, labAlive, teacher>>

LabInvalid ==
    /\ labAlive
    /\ out' = IF sel.source = "lab" THEN Publication("lab", 0) ELSE out
    /\ PublishStatus(SetRefusal(IF sel.source = "lab" THEN OnLab(sel, TRUE, Permitted) ELSE sel,
                                "invalid"), FALSE)
    /\ UNCHANGED <<perm, joyTwist, overridden, labAlive, teacher>>

TickCallback ==
    /\ out' = IF TickStops(sel, Permitted) THEN Publication("lab", 0) ELSE out
    /\ PublishStatus(OnTick(sel, Permitted), FALSE)
    /\ UNCHANGED <<perm, joyTwist, overridden, labAlive, teacher>>

StatusTimer ==
    /\ PublishStatus(sel, TRUE)
    /\ UNCHANGED <<out, perm, joyTwist, overridden, labAlive, teacher>>

PermissionReceived(heard) ==
    /\ teacher
    /\ perm' = Told(heard)
    /\ UNCHANGED <<sel, out, status, sentVersion, joyTwist, overridden, labAlive, teacher>>

-----------------------------------------------------------------------------
(* The environment: the clock, and the two peers that may die.             *)

Elapse ==
    /\ sel' = Aged(sel)
    /\ perm' = [perm EXCEPT !.age = IF @ > Lease THEN @ ELSE @ + 1]
    /\ overridden' = (overridden /\ ~LabQuiet(sel'))
    /\ UNCHANGED <<out, status, sentVersion, joyTwist, labAlive, teacher>>

LabDies ==
    /\ labAlive /\ labAlive' = FALSE
    /\ UNCHANGED <<sel, perm, out, status, sentVersion, joyTwist, overridden, teacher>>

TeacherDies ==
    /\ teacher /\ teacher' = FALSE
    /\ UNCHANGED <<sel, perm, out, status, sentVersion, joyTwist, overridden, labAlive>>

Next ==
    \/ \E v \in JoyTwists : JoyCallback(v)
    \/ \E v \in LabTwists : LabCallback(v)
    \/ LabInvalid
    \/ TickCallback
    \/ StatusTimer
    \/ \E heard \in {"allowed", "denied"} : PermissionReceived(heard)
    \/ Elapse
    \/ LabDies
    \/ TeacherDies

Spec == Init /\ [][Next]_vars

\* The wall timers keep firing and time passes; no message is promised.
FairSpec == Spec /\ WF_vars(TickCallback) /\ WF_vars(Elapse)

-----------------------------------------------------------------------------
(* Properties.                                                             *)

TypeOK ==
    /\ sel \in Selector
    /\ perm \in [heard : {"nothing", "allowed", "denied"}, age : 0..(Lease + 1)]
    /\ out \in [by : {"nobody", "joy", "lab"}, twist : Int]
    /\ status \in [ active_source : Sources, switch_reason : Reasons, lab_permitted : BOOLEAN,
                    lab_locked : BOOLEAN, lab_refusal : Refusals ]
    /\ sentVersion \in 0..(Wrap - 1)
    /\ joyTwist \in Int
    /\ overridden \in BOOLEAN /\ labAlive \in BOOLEAN /\ teacher \in BOOLEAN

LabMoves == out.by = "lab" /\ out.twist # 0

(* A lab twist that moves the wheels is the last one published only while  *)
(* the lab has the drive: however its run ends (a neutral, silence, the    *)
(* permission, an invalid command, the controller), a stop or a controller *)
(* command follows in the same callback of drive_arbiter_component.cpp.    *)
LabMotionIsSelected == LabMoves => sel.source = "lab"

(* The lab never has the drive while the controller is in use or was       *)
(* within the quiet time ("The controller always wins").                   *)
ControllerExcludesLab == sel.source = "lab" => ~JoyBusy(sel)

(* A controller command that is active and fresh is what the drive heard   *)
(* last: no stop of a lab run that ended, no startup neutral and no lab    *)
(* command was published over it.                                          *)
ControllerCommandStands == JoyActiveFresh(sel) => out = Publication("joy", joyTwist)

(* Once the controller was used against a lab run that was asking or       *)
(* driving, that run stays locked out until it ends with a neutral or with  *)
(* lab_timeout_sec of silence, whatever the permission does meanwhile.     *)
OverrideHolds == overridden => sel.source = "joy" /\ sel.locked

(* After every callback the last status published shows the selector as it *)
(* is: the version counter, bumped up to three times by one callback,      *)
(* never hides a change (publishStatus returns early when it is the same). *)
StatusIsCurrent == status = StatusOf(sel, status.lab_permitted)

(* What drive_arbiter_component.cpp promises of every state, together:     *)
(* whoever the selector names is who the drive and the status say.         *)
ArbiterSafety ==
    /\ TypeOK
    /\ LabMotionIsSelected
    /\ ControllerExcludesLab
    /\ ControllerCommandStands
    /\ OverrideHolds
    /\ StatusIsCurrent

(* The arbiter as the wheels see it: whose command moves them, and how the *)
(* lab's run stands, barred from the controller's interruption until it     *)
(* ends by itself.                                                         *)
Mover == IF out.twist = 0 THEN "still" ELSE out.by
LabRun == IF overridden THEN "barred" ELSE IF LabAsking(sel) THEN "asking" ELSE "none"

Tenure == INSTANCE DriveTenure WITH
    holder <- sel.source, motion <- Mover, run <- LabRun,
    busy <- JoyActiveFresh(sel), allowed <- Permitted

(* drive_arbiter_component.cpp implements DriveTenure: with its timeouts,   *)
(* its lock, its lease and its status, every callback is one step of the   *)
(* promise or none, so the drive changes hands only as the promise says.    *)
HandsOver == Tenure!TenureSpec

(* A lab bridge that died, or a heartbeat of the lesson permission that    *)
(* stopped, takes the drive from the lab for good: the tick timer alone     *)
(* stops the wheels, however eager a living lab is, and a dead lab's lock   *)
(* goes too.                                                               *)
SilenceReleasesDrive ==
    /\ ~teacher ~> [](sel.source = "joy" /\ ~LabMoves)
    /\ ~labAlive ~> [](sel.source = "joy" /\ ~sel.locked /\ ~LabMoves)
=============================================================================
