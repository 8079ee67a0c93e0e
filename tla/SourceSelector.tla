--------------------------- MODULE SourceSelector ---------------------------
(***************************************************************************)
(* Which input reaches an actuator, the controller's or a QUESTiX LAB      *)
(* run's: the SourceSelector class of command_arbiter/source_selector.hpp, *)
(* shared by the drive and the launcher arbiter.                           *)
(*                                                                         *)
(* A selector is a record.  A time stamp is kept as its age, capped at      *)
(* Never, which is beyond every timeout and is also the age of a stamp     *)
(* that was never taken.                                                   *)
(***************************************************************************)
EXTENDS Integers

CONSTANTS
    Quiet,       \* controller_quiet_sec in time units
    JoyTimeout,  \* joy_timeout_sec
    LabTimeout,  \* lab_timeout_sec
    Wrap         \* version_ counts modulo this (2^32 in the code)

ASSUME SelectorAssumption ==
    /\ Quiet \in Nat /\ JoyTimeout \in Nat /\ LabTimeout \in Nat
    /\ Wrap \in Nat /\ Wrap > 3

Larger(a, b) == IF a >= b THEN a ELSE b
Never == Larger(Quiet, Larger(JoyTimeout, LabTimeout)) + 1

Sources == {"joy", "lab"}
Reasons == {"start", "lab", "controller", "lab_ended", "lab_idle", "not_permitted"}
Refusals == {"none", "not_permitted", "controller", "locked", "invalid"}

Selector ==
    [ source : Sources, reason : Reasons, refusal : Refusals, locked : BOOLEAN,
      version : 0..(Wrap - 1), joyActive : BOOLEAN, labNeutral : BOOLEAN,
      joyAge : 0..Never, joyActiveAge : 0..Never, labAge : 0..Never ]

NewSelector ==
    [ source |-> "joy", reason |-> "start", refusal |-> "none", locked |-> FALSE,
      version |-> 0, joyActive |-> FALSE, labNeutral |-> TRUE,
      joyAge |-> Never, joyActiveAge |-> Never, labAge |-> Never ]

-----------------------------------------------------------------------------
Bump(n) == IF n = Wrap - 1 THEN 0 ELSE n + 1

SwitchTo(s, source, reason) ==
    [s EXCEPT !.source = source, !.reason = reason, !.version = Bump(@)]

SetLocked(s, locked) ==
    IF s.locked = locked THEN s ELSE [s EXCEPT !.locked = locked, !.version = Bump(@)]

SetRefusal(s, refusal) ==
    IF s.refusal = refusal THEN s ELSE [s EXCEPT !.refusal = refusal, !.version = Bump(@)]

JoyActiveFresh(s) == s.joyActive /\ s.joyAge <= JoyTimeout

\* The controller is in use, or was a moment ago.
JoyBusy(s) == JoyActiveFresh(s) \/ s.joyActiveAge <= Quiet

\* The lab's last command was not neutral and is fresh.
LabAsking(s) == ~s.labNeutral /\ s.labAge <= LabTimeout

LabQuiet(s) == s.labAge > LabTimeout

-----------------------------------------------------------------------------
(* A controller command.  It is published unless the lab has the actuator  *)
(* and the command is neutral.                                             *)

JoyForwarded(s, active) == s.source = "joy" \/ active

Heard(s, active) ==
    [s EXCEPT !.joyAge = 0, !.joyActive = active,
              !.joyActiveAge = IF active THEN 0 ELSE @]

OnJoy(s, active) ==
    LET t == Heard(IF active /\ (s.source = "lab" \/ LabAsking(s))
                   THEN SetLocked(s, TRUE) ELSE s, active)
    IN  IF s.source = "lab" /\ active THEN SwitchTo(t, "joy", "controller") ELSE t

-----------------------------------------------------------------------------
(* A lab command: what becomes of it, and the selector afterwards.         *)

Verdicts == {"stop", "forward", "idle", "not_permitted", "locked", "controller", "start"}

\* Mutant: the permission is asked for when a run starts, and left to the tick afterwards.
VerdictAtStartOnly(s, neutral, permitted) ==
    IF s.source = "lab" THEN "forward"
    ELSE IF neutral THEN "idle"
    ELSE IF ~permitted THEN "not_permitted"
    ELSE IF s.locked THEN "locked"
    ELSE IF JoyBusy(s) THEN "controller"
    ELSE "start"

Verdict(s, neutral, permitted) ==
    IF s.source = "lab" THEN IF permitted THEN "forward" ELSE "stop"
    ELSE IF neutral THEN "idle"
    ELSE IF ~permitted THEN "not_permitted"
    ELSE IF s.locked THEN "locked"
    ELSE IF JoyBusy(s) THEN "controller"
    ELSE "start"

RefusalOf(verdict) ==
    CASE verdict \in {"stop", "not_permitted"} -> "not_permitted"
      [] verdict \in {"locked", "controller"} -> verdict
      [] OTHER -> "none"

\* The source switch or the unlocking a verdict brings.
Applied(s, verdict, neutral) ==
    CASE verdict = "stop" -> SwitchTo(s, "joy", "not_permitted")
      [] verdict = "forward" /\ neutral -> SwitchTo(s, "joy", "lab_ended")
      [] verdict = "start" -> SwitchTo(s, "lab", "lab")
      [] verdict = "idle" -> SetLocked(s, FALSE)
      [] OTHER -> s

OnLab(s, neutral, permitted) ==
    LET verdict == Verdict(s, neutral, permitted)
        asked == [s EXCEPT !.labAge = 0, !.labNeutral = neutral]
    IN  SetRefusal(Applied(asked, verdict, neutral), RefusalOf(verdict))

-----------------------------------------------------------------------------
(* The periodic check: TickStops says that a stop must be published.       *)

TickStops(s, permitted) == s.source = "lab" /\ (LabQuiet(s) \/ ~permitted)

\* Mutant: the silence of the lab is not noticed.
OnTickWithoutQuiet(s, permitted) ==
    IF s.source = "lab" /\ ~permitted THEN SwitchTo(s, "joy", "not_permitted") ELSE s

OnTick(s, permitted) ==
    LET t == IF TickStops(s, permitted)
             THEN SwitchTo(s, "joy", IF LabQuiet(s) THEN "lab_idle" ELSE "not_permitted")
             ELSE s
    IN  IF LabQuiet(s) THEN SetLocked(t, FALSE) ELSE t

Older(age) == IF age = Never THEN Never ELSE age + 1

Aged(s) ==
    [s EXCEPT !.joyAge = Older(@), !.joyActiveAge = Older(@), !.labAge = Older(@)]
=============================================================================
