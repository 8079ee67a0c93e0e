---------------------------- MODULE LauncherFlow ----------------------------
(***************************************************************************)
(* The node between the two sources of launcher commands and the launcher: *)
(* command_arbiter/launcher_flow.hpp and launcher_arbiter_component.cpp, on *)
(* the selector of SourceSelector.                                          *)
(*                                                                         *)
(* A step is one callback or the clock.  A source is any stream: a message  *)
(* carries any counters, so restarts and overwritten messages of the       *)
(* publishers are covered.  The lesson permission is an input of each      *)
(* callback.  What is only shown on the status topic (the selector's        *)
(* reason, refusal and version, and the refused shot's reason) is left out. *)
(***************************************************************************)
EXTENDS SourceSelector

CONSTANTS
    InputTimeout,             \* input_timeout_sec in time units
    MaxSteps,                 \* kMaxStepsPerMessage
    NoTilt,                   \* tilt_deg = NaN
    JoyCommands, LabCommands, \* the commands a source can send, see Commands
    LabMaxPower,              \* lab_max_power
    MinFirePower,             \* min_fire_power
    TiltMin, TiltMax,         \* lab_tilt_min_deg, lab_tilt_max_deg
    SpinUp, FireInterval,     \* spin_up_sec, fire_interval_sec
    MaxShots, MaxShift        \* bounds of the output's counters

Powers == 0..10
Commands == [roller : Powers, tilt : Int \cup {NoTilt}, steps : Int, seq : Nat]

ASSUME FlowAssumption ==
    /\ InputTimeout \in Nat /\ MaxSteps \in Nat \ {0} /\ NoTilt \notin Int
    /\ JoyCommands \subseteq Commands /\ LabCommands \subseteq Commands
    /\ LabMaxPower \in Powers /\ MinFirePower \in Powers \ {0}
    /\ TiltMin \in Int /\ TiltMax \in Int /\ TiltMin <= TiltMax
    /\ SpinUp \in Nat /\ FireInterval \in Nat /\ MaxShots \in Nat /\ MaxShift \in Nat

-----------------------------------------------------------------------------
(* How a stream of commands is read: shots and tilt steps are counters, a   *)
(* tilt target is a value.  The same rule is written twice in the code, as  *)
(* InputEvents of command_arbiter/launcher_flow.hpp and as LauncherEvents   *)
(* of motor_control_app/launcher_events.hpp.                               *)

\* What is kept of the previous message; one never heard is as old as a silent one.
NewStream == [age |-> InputTimeout + 1, seq |-> 0, steps |-> 0, tilt |-> NoTilt]

Silent(s) == s.age > InputTimeout

\* Mutant: a message after silence is read like any other.
BaselineIgnoresSilence(s, m) == m.seq < s.seq \/ m.steps - s.steps \notin -MaxSteps..MaxSteps

\* The message only says where the counters stand.
Baseline(s, m) ==
    Silent(s) \/ m.seq < s.seq \/ m.steps - s.steps \notin -MaxSteps..MaxSteps

Fires(s, m) == ~Baseline(s, m) /\ m.seq > s.seq
StepsOf(s, m) == IF Baseline(s, m) THEN 0 ELSE m.steps - s.steps
Targets(s, m) == m.tilt # NoTilt /\ (Silent(s) \/ m.tilt # s.tilt)

\* onCommand: the counters advance whatever becomes of the events.
Read(m) == [age |-> 0, seq |-> m.seq, steps |-> m.steps, tilt |-> m.tilt]

OlderStream(s) == [s EXCEPT !.age = IF @ > InputTimeout THEN @ ELSE @ + 1]

-----------------------------------------------------------------------------
VARIABLES
    sel,     \* selector_
    joyIn,   \* joy_, what the controller sent last
    labIn,   \* lab_
    out,     \* out_
    fireAge, \* since last_fire_sec_
    spin,    \* since spin_since_sec_, or NotSpinning
    topic,   \* /launcher_command, keep-last(1): the last message, fresh until it is taken
    spun,    \* history: how long the topic has carried a lab power that can fire
    rest,    \* history: since this arbiter last counted a shot
    asked    \* history: the tilt targets the lab named since its run began

NotSpinning == -1
AtLeast(a, b) == IF a <= b THEN b ELSE a
AtMost(a, b) == IF a >= b THEN b ELSE a
Age(a, limit) == AtMost(a + 1, limit)

ClampTilt(v) == IF v = NoTilt THEN v ELSE AtMost(AtLeast(v, TiltMin), TiltMax)

\* The selector without what is only shown.
Bare(s) == [s EXCEPT !.reason = "start", !.refusal = "none", !.version = 0]

Init ==
    /\ sel = NewSelector
    /\ joyIn = NewStream /\ labIn = NewStream
    /\ out = [roller |-> 0, tilt |-> NoTilt, steps |-> 0, seq |-> 0]
    /\ fireAge = FireInterval /\ spin = NotSpinning
    /\ topic = [fresh |-> FALSE, source |-> "nobody", cmd |-> out]
    /\ spun = NotSpinning /\ rest = FireInterval
    /\ asked = {}

-----------------------------------------------------------------------------
\* emit and publish.
Publish(source, c) ==
    /\ topic' = [fresh |-> TRUE, source |-> source, cmd |-> c]
    /\ spun' = IF source = "lab" /\ c.roller >= MinFirePower THEN AtLeast(spun, 0)
               ELSE NotSpinning
    /\ rest' = IF c.seq # out.seq THEN 0 ELSE rest

Silence == UNCHANGED <<out, fireAge, spin, topic, spun, rest>>

\* Mutant: the run that is stopped leaves its power behind.
StopKeepsPower ==
    /\ out' = [out EXCEPT !.tilt = NoTilt]
    /\ spin' = NotSpinning
    /\ Publish("lab", out')
    /\ UNCHANGED fireAge

\* The lab's run ended without its own stop.
Stop ==
    /\ out' = [out EXCEPT !.roller = 0, !.tilt = NoTilt]
    /\ spin' = NotSpinning
    /\ Publish("lab", out')
    /\ UNCHANGED fireAge

WithinBounds == out'.seq <= MaxShots /\ out'.steps \in -MaxShift..MaxShift

\* onJoy.
JoyCallback(m) ==
    LET fired  == Fires(joyIn, m)
        moved  == StepsOf(joyIn, m)
        active == m.roller > 0 \/ fired \/ moved # 0 \/ Targets(joyIn, m)
    IN  /\ joyIn' = Read(m)
        /\ sel' = Bare(OnJoy(sel, active))
        /\ IF JoyForwarded(sel, active)
           THEN /\ out' = [ roller |-> m.roller, tilt |-> m.tilt, steps |-> out.steps + moved,
                            seq |-> IF fired THEN out.seq + 1 ELSE out.seq ]
                /\ WithinBounds
                /\ fireAge' = IF fired THEN 0 ELSE fireAge
                /\ spin' = NotSpinning
                /\ Publish("joy", out')
           ELSE Silence
        /\ UNCHANGED <<labIn, asked>>

-----------------------------------------------------------------------------
\* spin_since_sec_ after a forwarded lab power.
SpinAfter(power) == IF power >= MinFirePower THEN AtLeast(spin, 0) ELSE NotSpinning

\* The power the lab gets: capped, and 0 in the command that starts a run.
LabPower(m, starting) == IF starting THEN 0 ELSE AtMost(m.roller, LabMaxPower)

\* The lab's own tilt target, within its range.
LabTilt(m, starting) ==
    IF Targets(labIn, m) THEN ClampTilt(m.tilt) ELSE IF starting THEN NoTilt ELSE out.tilt

\* A lab shot is forwarded or refused, never queued.
ShotAllowed(power) ==
    SpinAfter(power) # NotSpinning /\ SpinAfter(power) >= SpinUp /\ fireAge >= FireInterval

\* A forwarded lab command; ended: it is the run's own stop.
Forward(m, starting, ended) ==
    LET power == LabPower(m, starting)
        shot  == Fires(labIn, m) /\ ShotAllowed(power)
        sent  == [ roller |-> power, tilt |-> LabTilt(m, starting), steps |-> out.steps,
                   seq |-> IF shot THEN out.seq + 1 ELSE out.seq ]
    IN  /\ out' = IF ended THEN [sent EXCEPT !.tilt = NoTilt] ELSE sent
        /\ WithinBounds
        /\ fireAge' = IF shot THEN 0 ELSE fireAge
        /\ spin' = IF ended THEN NotSpinning ELSE SpinAfter(power)
        /\ Publish("lab", sent)

Neutral(m) ==
    AtMost(m.roller, LabMaxPower) = 0 /\ ~Fires(labIn, m) /\ ~Targets(labIn, m)

\* onLab.
LabCallback(m, permitted) ==
    LET verdict == Verdict(sel, Neutral(m), permitted)
    IN  /\ labIn' = Read(m)
        /\ sel' = Bare(OnLab(sel, Neutral(m), permitted))
        /\ asked' = CASE verdict = "start" -> {m.tilt}
                      [] sel.source = "lab" -> asked \cup {m.tilt}
                      [] OTHER -> asked
        /\ CASE verdict = "stop" -> Stop
             [] verdict \in {"forward", "start"} ->
                    Forward(m, verdict = "start", verdict = "forward" /\ Neutral(m))
             [] OTHER -> Silence
        /\ UNCHANGED joyIn

\* onLab for a command that is not finite: it ends a run the lab has.
LabBroken(permitted) ==
    /\ IF sel.source = "lab"
       THEN sel' = Bare(OnLab(sel, TRUE, permitted)) /\ Stop
       ELSE UNCHANGED sel /\ Silence
    /\ UNCHANGED <<joyIn, labIn, asked>>

\* onTick.
TickCallback(permitted) ==
    /\ sel' = Bare(OnTick(sel, permitted))
    /\ IF TickStops(sel, permitted) THEN Stop ELSE Silence
    /\ UNCHANGED <<joyIn, labIn, asked>>

Elapse ==
    /\ sel' = Aged(sel)
    /\ joyIn' = OlderStream(joyIn) /\ labIn' = OlderStream(labIn)
    /\ fireAge' = Age(fireAge, FireInterval) /\ rest' = Age(rest, FireInterval)
    /\ spin' = IF spin = NotSpinning THEN spin ELSE Age(spin, SpinUp)
    /\ spun' = IF spun = NotSpinning THEN spun ELSE Age(spun, SpinUp)
    /\ UNCHANGED <<out, topic, asked>>

-----------------------------------------------------------------------------
(* Properties.                                                             *)

Stream(commands) ==
    [ age : 0..(InputTimeout + 1), seq : {0} \cup {m.seq : m \in commands},
      steps : {0} \cup {m.steps : m \in commands}, tilt : {NoTilt} \cup {m.tilt : m \in commands} ]
Output ==
    [ roller : (0..LabMaxPower) \cup {m.roller : m \in JoyCommands},
      tilt : Int \cup {NoTilt}, steps : -MaxShift..MaxShift,
      seq : 0..MaxShots ]

TypeOK ==
    /\ sel \in Selector
    /\ joyIn \in Stream(JoyCommands) /\ labIn \in Stream(LabCommands)
    /\ out \in Output
    /\ topic \in [fresh : BOOLEAN, source : {"nobody", "joy", "lab"}, cmd : Output]
    /\ fireAge \in 0..FireInterval /\ rest \in 0..FireInterval
    /\ spin \in -1..SpinUp /\ spun \in -1..SpinUp
    /\ asked \subseteq {m.tilt : m \in LabCommands}

(* The roller is told a power by the lab only while the lab has the         *)
(* launcher: however its run ends, launcher_flow.hpp publishes roller 0 or  *)
(* the controller's own command in the same callback.                      *)
LabRollsOnlySelected ==
    topic.source = "lab" /\ topic.cmd.roller > 0 => sel.source = "lab"

(* A lab shot reaches the topic only when the topic has carried, without a *)
(* break for spin_up_sec, a lab power of at least min_fire_power, and       *)
(* fire_interval_sec after the last shot of any source ("otherwise it is   *)
(* refused (never queued)").                                               *)
LabShotIsReady ==
    topic' # topic /\ topic'.source = "lab" /\ out'.seq > out.seq
        => spun' >= SpinUp /\ rest >= FireInterval

(* A lab power never follows a command of the controller directly: the     *)
(* roller is told 0 in between, or the ESC would not spin.                 *)
RunStartsAtRest ==
    topic'.source = "lab" /\ topic'.cmd.roller > 0 => topic.source = "lab"

(* A tilt target that is published for the lab was named by the run that    *)
(* has the launcher, or had it until this callback, and is within the lab's *)
(* range: no earlier run's target and no target of the controller is        *)
(* carried into it.                                                        *)
RunTiltIsOwn ==
    topic.source = "lab" /\ topic.cmd.tilt # NoTilt
        => topic.cmd.tilt \in {ClampTilt(t) : t \in asked}

(* While the controller's last command was active (a power, a shot, a tilt  *)
(* step) and is fresh, it is what the launcher heard last: no stop of a run *)
(* that ended and no lab command was published over it.                    *)
ControllerStands ==
    JoyActiveFresh(sel) => topic.source = "joy" /\ sel.source = "joy"
=============================================================================
