--------------------------- MODULE DriveComponent ---------------------------
(***************************************************************************)
(* The node that turns the wheels: motor_control_app's DriveComponent, its *)
(* lifecycle, the gate, the neutral it asks for after a stop               *)
(* (drive_rearm.hpp) and the fixed-rate control tick.                      *)
(*                                                                         *)
(* One step is one callback of the node's single-threaded executor, the     *)
(* passing of time, or what happens outside.  d is the node with its motor  *)
(* library; an operator that sends frames yields the set of the node's      *)
(* possible next states.  A unit of time is the shortest timeout, many     *)
(* control ticks long.                                                     *)
(*                                                                         *)
(* The monitors and the retry of a stop are timed by the steady clock, a    *)
(* command by now(), the system's clock, which somebody may set.           *)
(***************************************************************************)
EXTENDS SafetyGate, DdtBus

CONSTANTS
    CmdTimeout, \* cmd_timeout_sec; 0 disables the watchdog
    StopRetry,  \* kStopRetryPeriodSec
    AutoStart,  \* auto_start
    ClockBack   \* bound: by how much the clock is set back during one command

ASSUME DriveAssumption ==
    /\ CmdTimeout \in Nat /\ StopRetry \in Nat \ {0} /\ AutoStart \in BOOLEAN
    /\ ClockBack \in Nat

VARIABLES
    lc,        \* the lifecycle state
    autoTimer, \* auto_start_timer_ is running
    estop,     \* estop_monitor_
    perm,      \* permission_monitor_
    d,         \* the node's own state and its motors
    flaky,     \* frames may still fail
    operator   \* somebody still publishes /target_twist

vars == <<lc, autoTimer, estop, perm, d, flaky, operator>>

Lifecycle == {"unconfigured", "inactive", "active", "finalized"}

\* A twist: exactly zero, within the neutral band, beyond it, or not finite.
Twists == {"zero", "drift", "move", "invalid"}

Debts == {"stop", "overdue", "closed"}

\* Bound: an age beyond it is over every limit, whatever the clock is still set back.
MaxAge == CmdTimeout + 1 + ClockBack

Drive ==
    [ ready : BOOLEAN,       \* motor_initialized_, diff_drive_, control_core_
      stopFault : BOOLEAN, stopAge : 0..StopRetry,   \* since last_stop_attempt_
      lastBlock : Blocks,
      hasTarget : BOOLEAN, target : BOOLEAN,         \* the target asks for motion
      cmdAge : (-ClockBack)..MaxAge,   \* now() - last_cmd_time_, and - accepted_at_
      held : 0..MaxAge,      \* history: how long the command has really been in force
      setBack : 0..ClockBack,  \* history: how far the clock was set back meanwhile
      needsNeutral : BOOLEAN, heard : BOOLEAN,       \* rearm_
      pending : BOOLEAN,                             \* pending_cmd_timeout_stop_
      rolling : BOOLEAN,     \* the shaped command of control_core_ is not a stop
      owed : SUBSET Debts,   \* history: why a neutral is due before motion
      broke : SUBSET Debts,  \* history: what was due when the last tick sent a speed
      wheel : [Wheels -> BOOLEAN], frame : [Wheels -> Frames],
      recent : [Wheels -> BOOLEAN], healthy : BOOLEAN ]

NewDrive(wheel) ==
    [ ready |-> FALSE, stopFault |-> FALSE, stopAge |-> 0,
      lastBlock |-> Evaluate(FALSE, NewEstopMonitor, NewPermissionMonitor),
      hasTarget |-> FALSE, target |-> FALSE, cmdAge |-> 0, held |-> 0, setBack |-> 0,
      needsNeutral |-> TRUE, heard |-> FALSE, pending |-> FALSE, rolling |-> FALSE,
      owed |-> {"stop"}, broke |-> {},
      wheel |-> wheel, frame |-> [w \in Wheels |-> "none"],
      recent |-> [w \in Wheels |-> FALSE], healthy |-> TRUE ]

Init ==
    /\ lc = "unconfigured" /\ autoTimer = AutoStart
    /\ estop = NewEstopMonitor /\ perm = NewPermissionMonitor
    /\ d = NewDrive([w \in Wheels |-> FALSE])
    /\ flaky = TRUE /\ operator = TRUE

-----------------------------------------------------------------------------
\* Rearm::reset.
Disarm(n) == [n EXCEPT !.needsNeutral = TRUE, !.heard = FALSE]

\* resetCommandState.  The ages are read only while there is a target.
ResetCommandState(n) ==
    [Disarm(n) EXCEPT !.pending = FALSE, !.hasTarget = FALSE, !.target = FALSE,
                      !.rolling = FALSE, !.cmdAge = 0, !.held = 0, !.setBack = 0,
                      !.owed = @ \cup {"stop"}]

\* safetyStop: forget the target, then send the zeros; a stop fault is raised
\* here and cleared only by the retry.
SafetyStop(n) ==
    LET r == ResetCommandState(n)
    IN  IF ~r.ready THEN {r}
        ELSE { [StopNow(r, o) EXCEPT !.stopFault = @ \/ ~Confirmed(o), !.stopAge = 0] :
               o \in Outcomes(flaky) }

\* applyGate: stop on the edge into "closed", or when something is still armed.
ApplyGate(n, e, p, stoppedNow) ==
    LET block == Evaluate(n.stopFault, e, p)
        seen  == [n EXCEPT !.lastBlock = block,
                           !.owed = IF block = "none" THEN @ ELSE @ \cup {"closed"}]
    IN  IF /\ block # "none" /\ ~stoppedNow
           /\ n.lastBlock = "none" \/ n.hasTarget
        THEN SafetyStop(seen) ELSE {seen}

-----------------------------------------------------------------------------
\* The command in force is older than the watchdog allows, by more than the clock was
\* set back; a neutral is due before any motion.
Overdue(n) == CmdTimeout > 0 /\ n.held > CmdTimeout + n.setBack
Due(n) == IF Overdue(n) THEN n.owed \cup {"overdue"} ELSE n.owed

\* The target of a command that Rearm let through.
Accept(n, moves, owed) ==
    [n EXCEPT !.needsNeutral = FALSE, !.heard = TRUE, !.hasTarget = TRUE,
              !.target = moves, !.cmdAge = 0, !.held = 0, !.setBack = 0, !.owed = owed]

Expired(n) == n.heard /\ CmdTimeout > 0 /\ n.cmdAge > CmdTimeout

\* Rearm::command and what twistCallback does with its decision.
Command(n, twist) ==
    CASE ~(n.ready /\ n.healthy) -> Disarm(n)
      [] n.ready /\ n.healthy /\ Expired(n) ->
            [n EXCEPT !.needsNeutral = TRUE, !.pending = TRUE]
      [] n.ready /\ n.healthy /\ ~Expired(n) /\ twist = "invalid" -> n
      [] OTHER -> IF ~n.needsNeutral THEN Accept(n, twist # "zero", Due(n))
                  ELSE IF twist = "move" THEN n ELSE Accept(n, FALSE, {})

\* Mutant: the gate is not asked when a twist arrives.
TwistIgnoresGate ==
    /\ operator /\ lc = "active"
    /\ \E twist \in Twists : d' = IF d.pending THEN d ELSE Command(d, twist)
    /\ UNCHANGED <<lc, autoTimer, estop, perm, flaky, operator>>

\* twistCallback: the target is stored, nothing is sent.
TwistCallback ==
    /\ operator /\ lc = "active"
    /\ \E twist \in Twists :
          d' = IF Evaluate(d.stopFault, estop, perm) # "none"
               THEN [Disarm(d) EXCEPT !.owed = @ \cup {"closed"}]
               ELSE IF d.pending THEN d ELSE Command(d, twist)
    /\ UNCHANGED <<lc, autoTimer, estop, perm, flaky, operator>>

-----------------------------------------------------------------------------
\* The zero that could not be sent, again.
RetryStop(n) ==
    IF n.stopFault /\ n.ready /\ n.stopAge >= StopRetry
    THEN { [StopNow(n, o) EXCEPT !.stopAge = 0, !.stopFault = ~Confirmed(o)] :
           o \in Outcomes(flaky) }
    ELSE {n}

\* kIdle: only feedback is polled, and not while the E-stop is pressed.
Idle(n) ==
    IF n.ready /\ n.lastBlock \notin {"estop_active", "stop_fault"}
    THEN {Refresh(n, to, o) : to \in SUBSET Wheels, o \in Outcomes(flaky)}
    ELSE {n}

\* kDrive: one step of the control core, then its command.  The ramp starts
\* from rest, may stay in the deadband, and decays to a stop when the target
\* is zero; with the outer loop on, a wheel's share of a command may be zero.
CommandZero(n, o) == CommandStop([n EXCEPT !.rolling = FALSE], o)
CommandSpeeds(n, spin, o) ==
    [SendFrames(n, Wheels, spin, o) EXCEPT
        !.rolling = TRUE, !.broke = IF spin = {} THEN {} ELSE Due(n)]

DriveStep(n) ==
    LET stops == {CommandZero(n, o) : o \in Outcomes(flaky)}
        goes  == {CommandSpeeds(n, spin, o) : spin \in SUBSET Wheels, o \in Outcomes(flaky)}
    IN  IF n.target \/ n.rolling THEN stops \cup goes ELSE stops

TimedOut(n) == n.hasTarget /\ CmdTimeout > 0 /\ n.cmdAge > CmdTimeout

\* Mutant: the tick has no watchdog.
AfterGateWithoutWatchdog(n) ==
    LET sound == n.ready /\ n.healthy
        r == IF sound THEN n ELSE Disarm(n)
    IN  CASE n.pending -> SafetyStop(n)
          [] ~n.pending /\ (~n.hasTarget \/ ~n.ready \/ n.lastBlock # "none") -> Idle(r)
          [] OTHER -> IF ~sound THEN SafetyStop(r) ELSE DriveStep(r)

\* The tick from the point where the gate has been applied.
AfterGate(n) ==
    LET sound == n.ready /\ n.healthy
        r == IF sound THEN n ELSE Disarm(n)
    IN  CASE n.pending -> SafetyStop(n)
          [] ~n.pending /\ (~n.hasTarget \/ ~n.ready \/ n.lastBlock # "none") -> Idle(r)
          [] OTHER -> IF TimedOut(r) \/ ~sound THEN SafetyStop(r) ELSE DriveStep(r)

\* runControlTick.
RunControlTick(n, m) ==
    \E r \in RetryStop([n EXCEPT !.broke = {}]) :
       \E g \in ApplyGate(r, estop, perm, FALSE) : m \in AfterGate(g)

ControlTick ==
    /\ lc = "active"
    /\ UNCHANGED <<lc, autoTimer, estop, perm, flaky, operator>>
    /\ RunControlTick(d, d')

-----------------------------------------------------------------------------
\* onEmergencyStop: the edge into "pressed" stops at once; the gate follows.
EstopReceived ==
    \E active \in BOOLEAN :
        LET e == HeardEstop(active)
            stopNow == active /\ ~estop.active /\ d.ready
        IN  /\ estop' = e
            /\ \E n \in IF stopNow THEN SafetyStop(d) ELSE {d} :
                  d' \in ApplyGate(n, e, perm, stopNow)
            /\ UNCHANGED <<lc, autoTimer, perm, flaky, operator>>

\* onMotionPermission: OFF does not wait for the control tick.
PermissionReceived ==
    \E allowed \in BOOLEAN :
        /\ perm' = HeardPermission(allowed)
        /\ d' \in ApplyGate(d, estop, HeardPermission(allowed), FALSE)
        /\ UNCHANGED <<lc, autoTimer, estop, flaky, operator>>

-----------------------------------------------------------------------------
\* shutdownMotorLib: three rounds of zeros, the results of none is looked at.
ShutdownMotorLib(n) ==
    IF ~n.ready THEN {n}
    ELSE {[Closed(n, o) EXCEPT !.ready = FALSE, !.rolling = FALSE] : o \in Outcomes(flaky)}

\* on_configure: no device, a motor that cannot be set up, or both wheels primed.
Unconfigured(n) == {Closed(n, o) : o \in Outcomes(TRUE)}
Configured(n) ==
    {[Prime(n, o) EXCEPT !.ready = TRUE, !.rolling = FALSE] : o \in Outcomes(flaky)}

Configure ==
    /\ lc = "unconfigured"
    /\ \/ lc' = "inactive" /\ d' \in Configured(d)
       \/ lc' = "unconfigured" /\ d' \in Unconfigured(d)
    /\ UNCHANGED <<autoTimer, estop, perm, flaky, operator>>

\* on_activate.
Activate ==
    /\ lc = "inactive" /\ d.ready
    /\ lc' = "active" /\ d' = ResetCommandState(d)
    /\ autoTimer' = FALSE
    /\ UNCHANGED <<estop, perm, flaky, operator>>

\* autoStartTimerCallback: configure and, when that worked, activate.
AutoStartTimer ==
    /\ autoTimer
    /\ \/ /\ lc = "unconfigured"
          /\ \/ /\ \E n \in Configured(d) : d' = ResetCommandState(n)
                /\ lc' = "active" /\ autoTimer' = FALSE
             \/ d' \in Unconfigured(d) /\ UNCHANGED <<lc, autoTimer>>
       \/ /\ lc = "inactive" /\ d.ready
          /\ lc' = "active" /\ d' = ResetCommandState(d) /\ autoTimer' = FALSE
    /\ UNCHANGED <<estop, perm, flaky, operator>>

\* on_deactivate: the timers go first, then the stop.
Deactivate ==
    /\ lc = "active"
    /\ lc' = "inactive" /\ d' \in SafetyStop(d)
    /\ autoTimer' = FALSE
    /\ UNCHANGED <<estop, perm, flaky, operator>>

\* on_cleanup.
Cleanup ==
    /\ lc = "inactive"
    /\ lc' = "unconfigured" /\ d' \in ShutdownMotorLib(d)
    /\ UNCHANGED <<autoTimer, estop, perm, flaky, operator>>

\* on_shutdown, from any state.
Shutdown ==
    /\ lc # "finalized"
    /\ lc' = "finalized" /\ d' \in ShutdownMotorLib(d)
    /\ autoTimer' = FALSE
    /\ UNCHANGED <<estop, perm, flaky, operator>>

\* on_error, after a transition callback that threw: whatever the transition
\* had done, everything is released and the automatic start resumes.
TransitionError ==
    /\ \/ lc = "unconfigured" /\ d' \in UNION {ShutdownMotorLib(n) : n \in Configured(d)}
       \/ lc = "inactive" /\ d' \in ShutdownMotorLib(ResetCommandState(d))
       \/ lc = "active" /\ d' \in UNION {ShutdownMotorLib(n) : n \in SafetyStop(d)}
    /\ lc' = "unconfigured" /\ autoTimer' = AutoStart
    /\ UNCHANGED <<estop, perm, flaky, operator>>

-----------------------------------------------------------------------------
\* onParameterChange of a current-mode parameter: latched guard trips are cleared.
ParameterChange ==
    /\ d.ready /\ ~d.healthy
    /\ d' = [d EXCEPT !.healthy = TRUE]
    /\ UNCHANGED <<lc, autoTimer, estop, perm, flaky, operator>>

\* A unit of time, on every clock.
Elapse ==
    LET older(age) == IF d.hasTarget /\ age < MaxAge THEN age + 1 ELSE age
    IN  /\ UNCHANGED <<lc, autoTimer, flaky, operator>>
        /\ estop' = Older(estop, EstopTimeout)
        /\ perm' = Older(perm, PermissionLease)
        /\ d' = [d EXCEPT !.cmdAge = older(@), !.held = older(@),
                          !.stopAge = IF d.stopFault /\ @ < StopRetry THEN @ + 1 ELSE @,
                          !.recent = [w \in Wheels |-> FALSE]]

\* The system's clock is set, ahead or back, by a unit; a larger jump is several of them
\* in a row.
ClockSet ==
    /\ d.hasTarget
    /\ UNCHANGED <<lc, autoTimer, estop, perm, flaky, operator>>
    /\ \/ d.cmdAge < MaxAge /\ d' = [d EXCEPT !.cmdAge = @ + 1]
       \/ d.setBack < ClockBack /\ d' = [d EXCEPT !.cmdAge = @ - 1, !.setBack = @ + 1]

\* The process dies and is started again; the motors keep their last frame.
Crash ==
    /\ lc' = "unconfigured" /\ autoTimer' = AutoStart
    /\ estop' = NewEstopMonitor /\ perm' = NewPermissionMonitor
    /\ d' = NewDrive(d.wheel)
    /\ UNCHANGED <<flaky, operator>>

\* From here on every frame is sent; from here on no twist is published.
LinkSettles == flaky /\ flaky' = FALSE /\ UNCHANGED <<lc, autoTimer, estop, perm, d, operator>>
OperatorDies == operator /\ operator' = FALSE /\ UNCHANGED <<lc, autoTimer, estop, perm, d, flaky>>

Next ==
    \/ TwistCallback \/ ControlTick \/ EstopReceived \/ PermissionReceived
    \/ Configure \/ Activate \/ AutoStartTimer \/ Deactivate \/ Cleanup \/ Shutdown
    \/ TransitionError \/ ParameterChange \/ Elapse \/ ClockSet \/ Crash \/ LinkSettles \/ OperatorDies

Spec == Init /\ [][Next]_vars

\* The executor serves its timers and time passes.
FairSpec == Spec /\ WF_vars(ControlTick) /\ WF_vars(Elapse)

-----------------------------------------------------------------------------
TypeOK ==
    /\ lc \in Lifecycle /\ autoTimer \in BOOLEAN /\ flaky \in BOOLEAN /\ operator \in BOOLEAN
    /\ estop \in EstopMonitor /\ perm \in PermissionMonitor
    /\ d \in Drive

\* A wheel no frame has reached since the motors were set up; it may still obey
\* the last speed of a process that died.
Unreached == \E w \in Wheels : d.frame[w] = "none"
Still == \A w \in Wheels : ~d.wheel[w]

\* Once the gate has been applied closed, a wheel that still obeys a speed is either
\* known as a stop fault, which is retried, or was never reached since the
\* motors were set up (a speed left by a dead process whose priming failed).
ClosedGateStops ==
    d.ready /\ d.lastBlock # "none" /\ ~d.stopFault
        => Still \/ Unreached

\* While the gate was closed when it was last applied (by a tick or by a message of
\* the button or the permission), no command is armed.
ClosedGateDisarms == d.lastBlock # "none" => ~d.hasTarget /\ ~d.pending

\* Whoever saw the gate closed, a twist that was turned away included, no later twist
\* is taken until a neutral is.  A command that was already in force is not ended by
\* such a twist (ReopenedNeedsNeutral).
ClosedGateOwesNeutral == "closed" \in d.owed => d.needsNeutral

\* No tick sends a speed that was given before the last stop, or that is older than
\* the watchdog allows by more than the clock was set back since, until a neutral was
\* accepted in between.
MotionNeedsNeutral == d.broke \cap {"stop", "overdue"} = {}

\* What drive_component keeps in every state, whatever frames fail, whatever messages
\* race and however the clock is set: a gate it applied closed has stopped and disarmed
\* the wheels, a gate it saw closed asks for a neutral, and no speed is sent that a stop
\* or the watchdog has ended.
GateSafety ==
    /\ TypeOK
    /\ ClosedGateStops
    /\ ClosedGateDisarms
    /\ ClosedGateOwesNeutral
    /\ MotionNeedsNeutral

\* actuation_gate.hpp promises that a closed gate always disarms and that after it
\* reopens the drive stays stopped until a new twist: no tick sends a speed given before
\* a closure that some callback saw, unless a neutral was accepted since.
ReopenedNeedsNeutral == "closed" \notin d.broke

\* A stop fault ends only when both wheels got their zero in the same step, or
\* with the process.
StopFaultEndsStopped ==
    d.stopFault /\ ~d'.stopFault /\ d'.ready
        => \A w \in Wheels : ~d'.wheel[w] /\ d'.frame[w] = "zero"

\* A wheel that stands still starts only in a tick of an active node whose gate
\* is open and that owes no stop.
WheelStartsInOpenTick ==
    \A w \in Wheels : ~d.wheel[w] /\ d'.wheel[w] =>
        /\ lc = "active" /\ ~d'.stopFault
        /\ Evaluate(FALSE, estop, perm) = "none"

\* A step of drive_component never starts a wheel behind a closed gate, and never
\* forgets a stop that did not reach both wheels.
WheelsObeyTheGate == [][StopFaultEndsStopped /\ WheelStartsInOpenTick]_vars

\* The link works from some point on, and the button is pressed or released for
\* good (every press of it restarts the wait for the next retry).
Settled == <>[](~flaky) /\ (<>[]estop.active \/ <>[](~estop.active))

\* A stop fault is retried until it is gone (drive_component.hpp's class comment
\* says so of every stop that could not be sent).
StopFaultAlwaysRetried == Settled => ((d.stopFault /\ d.ready) ~> (~d.stopFault \/ ~d.ready))

\* If the link ever works again, an active node does not keep a stop fault for ever;
\* and when nobody sends twists any more its wheels do not turn for ever, although the
\* clock of the watchdog may be set back.
ActiveNodeStops ==
    Settled =>
        /\ []<>~(d.stopFault /\ lc = "active")
        /\ <>[]~operator => []<>(Still \/ Unreached \/ lc # "active")
=============================================================================
