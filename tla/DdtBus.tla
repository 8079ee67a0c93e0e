------------------------------- MODULE DdtBus -------------------------------
(***************************************************************************)
(* What drive_component asks of the serial motor library: the stop and the *)
(* velocity commands of motor_control_lib's DifferentialDrive and           *)
(* DdtMotorLib, on a bus where each wheel's frame can fail on its own.     *)
(*                                                                         *)
(* The operators work on a record d with the fields                        *)
(*   wheel[w]  the wheel obeys a frame other than zero (the motor's side)   *)
(*   frame[w]  last_sent_frames_: the last frame sent with success          *)
(*   recent[w] a stop frame went out less than stop_resend_interval_ms ago  *)
(*   healthy   no fault code in the cached feedback and no guard trip       *)
(* and take the outcome of one round of frames.  A frame whose write or     *)
(* drain reports an error may have reached the motor all the same.         *)
(***************************************************************************)
EXTENDS Integers

CONSTANTS
    Wheels,   \* the motor ids
    Throttled \* stop frames are spaced: velocity mode and stop_resend_interval_ms > 0

ASSUME BusAssumption == Throttled \in BOOLEAN

Frames == {"none", "zero", "drive"}

\* ok: the frames that were sent.  late: the ones that arrived although the
\* send failed.  healthy: what the replies say of the motors; without a reply it is
\* not looked at.
Replies ==
    { o \in [ok : SUBSET Wheels, late : SUBSET Wheels, healthy : BOOLEAN] :
        o.ok \cap o.late = {} /\ (o.ok = {} => o.healthy) }
Outcomes(flaky) == {o \in Replies : flaky \/ o.ok = Wheels}

\* sendFrameWithFeedback to the wheels in `to`; the ones in spin get a speed.
SendFrames(d, to, spin, o) ==
    [d EXCEPT
        !.wheel = [w \in Wheels |-> IF w \in to \cap (o.ok \cup o.late)
                                    THEN w \in spin ELSE d.wheel[w]],
        !.frame = [w \in Wheels |-> IF w \in to \cap o.ok
                                    THEN IF w \in spin THEN "drive" ELSE "zero"
                                    ELSE d.frame[w]],
        !.healthy = IF to \cap o.ok = {} THEN @ ELSE o.healthy]

Sent(d, ws) == [d EXCEPT !.recent = [w \in Wheels |-> w \in ws \/ d.recent[w]]]

\* DifferentialDrive::stopNow: a zero to each wheel, the right one also when the
\* left one failed.  It is confirmed when both were sent.
StopNow(d, o) == Sent(SendFrames(d, Wheels, {}, o), o.ok)
Confirmed(o) == o.ok = Wheels

\* The wheels whose last frame is a stop that was sent a moment ago.
Held(d) == {w \in Wheels : Throttled /\ d.frame[w] = "zero" /\ d.recent[w]}

\* DifferentialDrive::commandStop, with the throttle of DdtMotorLib::stopMotor.
CommandStop(d, o) == Sent(SendFrames(d, Wheels \ Held(d), {}, o), o.ok \ Held(d))

\* Mutant: the refresh resends whatever was sent last.
RefreshWhatWasSent(d, to, o) ==
    LET resent == {w \in to : d.frame[w] # "none"} \ Held(d)
    IN  Sent(SendFrames(d, resent, {w \in resent : d.frame[w] = "drive"}, o), resent)

\* refreshMotorFeedback for the wheels with old feedback: only a zero that was
\* sent before is ever sent again.
Refresh(d, to, o) ==
    LET resent == {w \in to : d.frame[w] = "zero"} \ Held(d)
    IN  Sent([SendFrames(d, resent, {}, o) EXCEPT !.frame = d.frame], resent)

\* initializeMotor for both wheels: a zero frame each; a priming that fails is
\* tolerated and leaves no frame to resend.
Prime(d, o) ==
    SendFrames([d EXCEPT !.frame = [w \in Wheels |-> "none"], !.healthy = TRUE,
                         !.recent = [w \in Wheels |-> FALSE]],
               Wheels, {}, o)

\* The library is closed: the last zeros may not arrive, and nothing of what was
\* sent is remembered.
Closed(d, o) ==
    [SendFrames(d, Wheels, {}, o) EXCEPT
        !.frame = [w \in Wheels |-> "none"], !.recent = [w \in Wheels |-> FALSE],
        !.healthy = TRUE]
=============================================================================
