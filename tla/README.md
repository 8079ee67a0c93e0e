# QUESTiX, modelled in TLA+

QUESTiX is a ROS 2 teaching robot on a Raspberry Pi 5: two DDT hub motors, a
ball launcher (tilt and trigger servos, a brushless roller), a gamepad, a
physical emergency stop, and web pages from which pupils drive it.  The
interesting code is the chain that decides whether an actuator may move.  This
directory models that chain, the pages' link to it and their driving through it,
checks the models with TLC, and proves their safety properties with TLAPS.  The
models are translated from the C++, Python and JavaScript sources; `PROJECT.json`
maps every definition to the lines it stands for.

## 1. Inventory

The software is layered.  L1 is the emergency stop, L2 the motion permission,
L3 the choice between the gamepad and a lesson ("QUESTiX LAB") run; then come
the nodes that own the actuators.  Nodes talk over topics; every reader keeps
the age of what it heard and treats silence as "stop".

| Component | State | Operations | Interacts with |
|---|---|---|---|
| `questix_pwm_guard` (root daemon) | core state, applied pulse, first fault, session and sequence number, one deadline; the sysfs channel and its markers; connections and owner | ARM, COMPLETE, COMMAND, SHUTDOWN, STOP, LOW, REPORT, STATUS; 20 ms tick; start, SIGTERM, crash, `--recover-low` | the roller node over a Unix socket; the kernel's PWM sysfs; systemd |
| `command_arbiter` drive arbiter | selector (source, lock, refusal, version, three time stamps), permission and its lease, last status | gamepad twist, lab twist, tick, status timer, permission message | reads `joy_controller`, the lab bridge, Robot Manager; feeds `drive_component` |
| `command_arbiter` launcher arbiter | the same selector, event counters, tilt and roller targets, spin-up time | launcher commands of both sources, joy, tick | feeds `shot_component` and the ESC node |
| `drive_component` | lifecycle, both monitors, last gate verdict, target, re-arm state, watchdog, stop fault, control core, motor library | twist, E-stop, permission, control tick, parameter change, the lifecycle transitions, automatic start | L1 and L2 topics, the arbiter, two motors on one serial bus |
| `shot_component` | lifecycle, start-up episode, teardown retry, event baselines, shot in progress | launcher command, fire timer, E-stop, permission, auto start | as above, and the servos |
| `esc_motor_control` | roller target, gate, lease client | roller command, lease renewal every 100 ms, stop, shutdown | `questix_pwm_guard` |
| `questix_safety` | the E-stop and permission monitors; the vote rule | receive, evaluate | linked into every actuator node |
| `operation_manager` | debounced GPIO inputs, referee votes with leases | 100 ms E-stop publication, 20 Hz permission publication | publishes L1 and L2 |
| `questix_lab_bridge` | driving and shooting sessions: owner, deadman, run limit, hold-off after a stop, blockers | page messages, ticks, arbiter status | WebSocket pages; feeds both arbiters |
| `robot_manager` | teacher's switches, heartbeat child, recorder, network settings | HTTP handlers, heartbeat at 5 Hz | publishes the lesson permission; systemd |
| `joy_controller`, `uart_joy_driver`, `web_joy_driver` | press counters, a release debouncer | scale and forward | feed L3 |
| `motor_control_lib` | last frames, feedback cache, stop throttle; current loop; servo protocol | set up, drive, stop, refresh, close | serial buses |
| the pages' link to the robot (`robot-link.js`) | phase, problem, one WebSocket, its timers, the queue of record saves | connect, disconnect, save a record; retry, time-out and silence timers; socket events | the lab bridge's WebSocket server; every lesson page |
| driving from a page (`drive-link.js`, `drive-core.js`) | the run in progress, whether the bridge has accepted it, the learner's tick | start a run, heartbeat tick, stop bar, Esc, page hidden; `drive_state`, link lost | the lab bridge, over the link |
| the rest (`gpio_reader`, `serial_utils`, bench nodes, `questix_blockly`, launch files, provisioning, pages) | little or none | I/O, configuration | |

Behaviour that is hard to test, and what makes each component correct:

* **Guard daemon.**  Every sysfs access can fail half-way; requests queue behind
  an expired deadline; the client can hang or vanish at any moment; the daemon
  itself can be killed while the roller turns.  Correct means: the roller turns
  only for a live, active, owned session; a deadline that has passed cannot be
  renewed; a fault keeps its first cause; a restart begins with Low.
* **Arbiters.**  Two sources, a permission with a lease and timers interleave.
  Correct means: the gamepad always wins and a run that it interrupted does not
  resume; however a run ends, the wheels are told to stop in the same callback;
  the status shown to the pages is the selector's.
* **drive_component.**  Gates close by message or by silence between any two
  callbacks; a stop frame may reach one wheel only; the process may die with
  the wheels turning; a command's age is taken from the system's clock, which may
  be set.  Correct means: after a closed gate no command is armed, a stop that
  failed is known and retried, motion after a stop needs a neutral first, and a
  command that nobody repeats ends.
* **shot_component, ESC node, launcher arbiter.**  Events that must be neither
  lost nor replayed across a switch of sources; teardown that stops half-way;
  a lock released between a decision and its execution.
* **The pages' link.**  Events of a socket that was replaced still arrive; an
  answer carries no request number, and a request may time out before its answer
  comes.  Correct means: an answer settles its own request, and no other; a link
  the learner wants is tried again, and one not wanted never opens by itself.
* **Driving from the pages.**  Commands, stops and states cross each other between
  several pages and one robot; a connection keeps only the newest state not sent
  yet; the emergency stop ends a run without telling anyone.  Correct means: a
  page never goes on believing that it drives, and no command of an ended run
  starts the wheels.
* **Managers, bridge, Robot Manager.**  Leases in series; messages of an ended
  run still in flight; a heartbeat child that dies between two switch changes.

The full list, each at its line, is `hazards` in `PROJECT.json`.

## 2. Modules

| Module | Models |
|---|---|
| `SysfsOutput` | `sysfs.cpp`: the PWM channel's attributes, the writer with failing I/O, the staged initialization and its marker files |
| `PwmGuard` | `core.hpp`, `daemon.cpp`, the systemd unit: the daemon around the writer; EXTENDS `SysfsOutput` |
| `SourceSelector` | `source_selector.hpp`: the L3 rule shared by both arbiters |
| `DriveArbiter` | `drive_arbiter_component.cpp`, `lab_permission.hpp`; EXTENDS `SourceSelector` |
| `DriveTenure` | what the arbiter promises the wheels, "one source has the drive at a time": the abstract specification `DriveArbiter` implements |
| `LauncherFlow` | `launcher_flow.hpp`, `launcher_arbiter_component.cpp`, and how a stream of launcher commands is read (`InputEvents`, the same rule as `launcher_events.hpp`); EXTENDS `SourceSelector` |
| `LauncherChain` | `LauncherFlow` in series with `commandCallback` of `shot_component`, and restarts of either node |
| `SafetyGate` | the two monitors of `questix_safety`, and `actuation_gate.hpp` |
| `DdtBus` | `differential_drive.cpp` and the command side of `ddt_motor_lib.cpp`, on a bus where frames fail one by one |
| `DriveComponent` | the node: `drive_component.cpp`, `drive_component_control.cpp`, `drive_rearm.hpp`, the watchdog and the automatic start; EXTENDS `SafetyGate` and `DdtBus` |
| `RobotLink` | `robot-link.js` with the browser's sockets, the network and the bridge's end (`ws_server.py`) |
| `SavePromise` | what `saveRecordOnRobot` promises its callers: the abstract specification `RobotLink` implements |
| `LabDrive` | `drive-link.js` and `drive-core.js` on several pages, the bridge's `drive.py` with its callbacks in `bridge_node.py`, and how `ws_server.py` delivers `drive_state` |
| `MC*` | the instances TLC checks; `MCLabDriveGuard` adds the history its property needs |
| `SelectorProofs` | what each operation of the selector does; used by both arbiters' proofs |
| `PwmGuardProofs`, `DriveArbiterProofs`, `DriveComponentProofs`, `LauncherProofs`, `RobotLinkProofs`, `LabDriveProofs` | the theorems (section 4) |

Operators named after a "Mutant" comment are deliberately wrong variants of the
definition that follows them; no specification uses them.  They document which
bug each property would catch.

### Correspondence

**Time.**  No clock value is kept.  A time stamp of the code is its age, capped
one unit beyond the longest limit it is compared with (every older age gives
the same answers); a deadline is the time left, down to 0.  `Elapse` is one
unit.  A unit is long compared with a callback, and callbacks may run any number
of times between two units, so the order of callbacks and expiries is free.  Most limits of
the modelled code are timed by the steady clock; `drive_component` times the
command in force by `now()`, the system's clock, and `ClockSet` sets that one.

**PwmGuard.**  The daemon is one thread around `poll`, so a step is one pass of
the loop: the tick, one accepted connection, one request with its reply, or one
dropped connection.  The request handlers call `tick()` and the core operation
calls it again; the model does both.  `core` is the `Core` object, `hw` the
channel; an operation yields the set of its outcomes (return value, core,
channel), because each sysfs access in it may fail and a failed write may still
have taken effect.  `phase` is the unit: "up", "stopped" (ExecStopPost is due),
"down".  Requests carry any session and any sequence number up to `MaxSeq`.
`tampered` marks that another root process wrote the channel once.  A reply that
cannot be sent drops the connection in the same pass.

**DriveArbiter.**  The executor runs one callback at a time; a step is one
callback.  `sel` is the selector, `perm` the permission with the age of its last
message, `out` the last twist on `/target_twist` and who caused it.  A twist is
one integer because both of its components are tested and clamped in the same
way; a twist that is not finite is `Invalid`.  The version counter wraps modulo
`Wrap` (2^32 in the code).  `lab_count`, a counter of received messages that no
decision of this node reads, is left out; it comes back with the bridge that
reads it.  `joyTwist` and `overridden` are history variables.

**DriveTenure.**  No selector, clock, lock, version or status: who holds the drive
(`holder`), whose command moves the wheels (`motion`), whether the lab asks for a
run or is barred from it by the controller (`run`), whether the controller is in
use (`busy`) and the lesson permission (`allowed`).  `DriveArbiter` maps to it with
`sel.source`, the mover of the last published twist (`Mover`), the state of the
lab's stream and the history of interruptions (`LabRun`), `JoyActiveFresh(sel)` and
`Permitted`.  The release lock is hidden: that a barred run ends only by a neutral
or by silence, and never continues with the lab's next command, is what the lock
has to achieve.

**LauncherFlow.**  Again a step is one callback.  A command carries a roller
power, a tilt target, and the two counters; each source is any stream of a small
set of them, so publishers that restart or whose messages were overwritten are
included.  `joyIn` and `labIn` are what `InputEvents` keeps of a stream, `out`
the output with its own counters, `spin` and `fireAge` the two clocks of a lab
shot.  The lesson permission is an input of each callback (its lease is modelled
in `DriveArbiter`).  Powers are tenths, and `min_fire_power` is taken to be
above 0.  `topic` is `/launcher_command`; `spun`, `rest` and `asked` are history:
how long the topic has carried a power that can fire, how long ago this arbiter
last counted a shot, which tilts the run named.  What only the status topic
shows (reasons, refusals, the version) is left out.

**LauncherChain.**  `topic` keeps the last message until `Take`, the callback of
`shot_component`; a later publication overwrites it.  `reader` is
`launcher_events_`.  Whether a shot or a tilt is let through (lifecycle, gates,
a shot still moving, rate limit) is a free choice at each message.
`ArbiterRestarts` starts the arbiter's counters from 0 with the old message still
in the queue; `ReaderRestarts` is a new `shot_component`, or the reset when a
second publisher is gone.  `counted`, `turned` and `reborn` are history: the age
of the oldest counted shot not yet taken, the steps not yet taken, and whether
the arbiter is a new one.

**DriveComponent.**  `lc` is the lifecycle state, `d` the node's fields together
with what the motor library remembers and what the motors do (`wheel[w]`: the
wheel obeys a speed).  A round of frames has an outcome: the frames that were
sent, those that arrived although the send reported an error, and whether the
replies show healthy motors.  A speed is abstracted to "moves" or not: the ramp
and the loops (`control_core.hpp`) may turn a non-zero target into zero wheel
speeds (deadband, start from rest) and may keep sending speeds for a while
after the target is zero.  `cmdAge` is `now() - last_cmd_time_`, which a clock
set back makes smaller, below 0 too; `accepted_at_` of the re-arm logic is the same
stamp, taken in the same callback (lines 220 and 250, here one instant).  `held`
and `setBack` are history: how long the command has really been in force, and how
far the clock was set back meanwhile; `Overdue` compares the two with
`cmd_timeout_sec`.  `owed` and `broke` are history, too: why a neutral is due before
motion ("stop" after any stop, "closed" after a gate verdict that some callback
saw, a twist included, "overdue" once `Overdue`), and what was due when the last
tick sent a speed.  `TransitionError` is the lifecycle's error
path, after a transition callback that threw; `Crash` is the death of the
process, which leaves the motors with their last frame.

**RobotLink.**  One `WebSocket` at a time is the page's (`socket`); the others are
being closed and still have frames on their way.  A timer is armed or not, and an
armed one may fire at any moment: this covers every length the code gives it.
`net[c]` is a connection: how far it is, the frames on their way to the page
(`inbox`) and the record saves on their way to the bridge (`outbox`).  A frame is
its kind and what the page decides by; `saves` is the queue `pendingSaves`, whose
first entry takes the next answer.  `bridge` is how the other end treats a
connection: it may be up, full, down, unreachable, or of an older protocol
version, and change at any time.  `outcome` stands for the promises the callers
hold, `kept` for the files on the robot.  A connection record is used again when
nothing of it is left.  What the page shows of the status stream, and the drive
and shoot messages, are left out.

**SavePromise.**  A request is asked, kept by the robot, and settled, in three
separate steps; several requests can fail in one.  The mapping is the identity on
`outcome` and `kept`: everything else of `RobotLink` (the queue, the sockets, the
timers) is hidden.

**LabDrive.**  `client[p]` is the session of a page, `run[p]` its run: "asking" sends
zeros until a `drive_state` names the page, "settling" is the neutral phase after
that, "driving" is the controller.  `bridge` is the `DriveSession`: its owner,
whether any blocker stands (which one, only the shown text tells), the restart
guard and the sessions that owe a neutral.  A command is a zero, a speed, or a
value that is not finite.  `toBridge` and `toPage` are the frames of a connection
in each direction, `slot` the newest `drive_state` not sent yet; a state handed to
the server's loop and not yet stored there counts as in the slot, since both keep
the order in which the lock was held.  A step is one callback under `_drive_lock`,
one page event, or one turn of a server task.  `unsent` is the version the pages
have not been told: the emergency stop and the ROS graph leave it to the tick.
Every limit (dead-man, run time, restart guard, start timeout, neutral phase) may
end at any moment, so all their lengths are covered.  A change of the speeds or
limits alone tells the pages nothing the model keeps; the tick's `Repeat` covers it.
Either end of a connection may be the first to know that it is over: `LoseLink` is
the page's side, `Leave` the handler's `finally` with `_on_leave`, also when the
server itself ends the connection and the page still takes it for open, and
`HearClose` the socket's close event that follows.  A session record is used again
when nothing of it is left, which is a new number in the code.

The E-stop and permission topics are unconstrained: any message may arrive at
any time, or none.  This covers every behaviour of `operation_manager`.  In the
same way the arbiter accepts any gamepad and any lab stream, and the guard any
client, so each model is checked against an environment at least as wide as the
real neighbour's.

## 3. Runs

`tlc -config X.cfg MCModule` checks a run.  Deadlock is checked in all of them.

| Run | Instance | Asks |
|---|---|---|
| `PwmGuard.cfg` | I/O that fails or works (`ioMayFail`, chosen at the start), one robot connection and one admin, two sessions, sequence numbers to 2, pulses 0, neutral, largest and one too large, lease 2, arming 1, drain 2; 198,723 states | `GuardSafety`, `RecoveredIsLow`, `SessionsOnlyEnd`, `HungOwnerLosesOutput` |
| `DriveArbiter.cfg` | quiet 0, lab and controller 1, lease 1; a controller twist below the neutral threshold and one at it, a lab that stops and one above its cap; 254,624 states | `ArbiterSafety`, `HandsOver`, `SilenceReleasesDrive` |
| `DriveComponent.cfg` | two wheels (symmetric), all timeouts 1 unit, a clock only set ahead; 254,384 states | `GateSafety`, `WheelsObeyTheGate` |
| `DriveComponentLive.cfg` | one wheel, E-stop staleness disabled (`EstopTimeout = 0`), manual start, a clock set ahead and, during one command, back by one unit; 112,176 states | `GateSafety`, `ActiveNodeStops` |
| `DriveComponentReopened.cfg` | one wheel; expected to be violated | `ReopenedNeedsNeutral`: a gate that closed and reopened does not let the old command go on |
| `DriveComponentInactive.cfg` | one wheel; expected to be violated | `StopFaultAlwaysRetried`: "the zero is retried" after a failed stop |
| `LauncherChain.cfg` | a controller that steps and fires, a lab that rolls, fires, and asks for more than its cap and a tilt out of its range; two shots, one step each way; limits 0 and 1; 579,025 states | `LauncherSafety`, `LauncherSteps` |
| `RobotLink.cfg` | two sockets, two saves, at most one status on its way; 533,560 states | `LinkSafety`, `KeepsPromise` |
| `RobotLinkLive.cfg` | two sockets, one save; 221,520 states | `LinkSettles` |
| `LabDrive.cfg` | two pages with links that hold (symmetric), one frame of a page and one state on their way besides the slot; 2,665,860 states | `DrivingSafety`, `RunsStartFromRest` |
| `LabDriveLive.cfg` | one page whose link fails, at either end first, and comes back as a second session; 416,146 states | `DrivingSafety`, `RunnersHear`, `RunsStartFromRest` |
| `LabDriveGuard.cfg` | as `LabDrive.cfg`; expected to be violated | `EachRunIsGuarded`: no ended run is restarted within the guard's time |

### What the properties say

Each safety property is a conjunction of named parts, which are stated and
commented one by one in the modules.

* `GuardSafety`: the reported state and pulse are a pair that `client.hpp`
  accepts; a pulse above neutral is on the pin only for an active session that
  applied it and whose owner is connected, or after a Low that failed and is
  retried at every tick; a fault is latched exactly in the fault states; a driven
  session has an owner; the writer's and the core's idea of the pulse agree; the
  daemon drives only a channel under its own committed marker.
* `SessionsOnlyEnd`: a session that ended never comes back, and a lease or arming
  window that has run out is never extended.
* `RecoveredIsLow`: after a crash while the roller turns, ExecStopPost leaves the
  channel low before the next start.
* `HungOwnerLosesOutput`: a client that hangs while it owns the output loses it.
* `ArbiterSafety`: a lab twist that moves the wheels is never the last one
  published after the lab lost the drive; the lab never has the drive while the
  controller is in use; an active, fresh gamepad command is what the drive heard
  last; an interrupted run stays locked out until it ends by itself; the version
  counter never hides a change of the status.
* `HandsOver`: `DriveArbiter` implements `DriveTenure`: every callback is one step of
  the promise or none.  A run starts only with the permission and beside an idle
  controller, it ends with a stop in the same callback or with the controller's own
  command, and one that the controller interrupted does not go on: only a new one
  starts.
* `SilenceReleasesDrive`: a dead bridge or heartbeat gives the wheels back.
* `GateSafety`: once the gate was applied closed, by a tick or by a message of the
  button or the permission, a wheel that still obeys a speed is a known stop fault
  and no command is armed; once anybody saw it closed, a twist that was turned away
  included, no later twist is taken before a neutral; no tick sends a speed given
  before the last stop, or one in force for longer than `cmd_timeout_sec` and what
  the clock was set back meanwhile.  It does not say that a closure seen by a twist
  alone ends the command in force; that is `ReopenedNeedsNeutral`, which the code
  violates.
* `WheelsObeyTheGate`: a stop fault ends only with zeros sent to all wheels in one
  step, and a wheel that stands starts only in a tick of an active node behind an
  open gate.
* `ActiveNodeStops`: an active node's stop fault is retried until it is gone, and
  the wheels stop when the operator falls silent, however the clock is set within
  its bound.
* `LauncherSafety`: on the message that is out, the lab's roller power and tilt
  belong to the run that has the launcher, and an active, fresh controller
  command is not published over, once an arbiter has spoken.
* `LauncherSteps`: a lab shot goes out only after the published lab power stood at
  `min_fire_power` or more for the whole spin-up and the interval has passed since
  the last shot this arbiter counted; a run starts from a resting roller; a disc
  is fired only for a shot counted since the last message was taken and at most
  `input_timeout_sec` ago, across delays, overwritten messages and restarts of
  either node; the tilt turns by exactly the steps counted since then, unless the
  arbiter was restarted in between.
* `LinkSafety`: the queue of requests stays in step with the answers on their way;
  a wanted link has an attempt or a retry due; an unwanted one has neither socket
  nor attempt; the session id is that of the connection in use.
* `KeepsPromise`: `RobotLink` implements `SavePromise`: every request is settled
  once, and as kept only for a recording that is on the robot.
* `LinkSettles`: every request is settled in the end, and the link opens when the
  bridge stays up and nobody disturbs it.

* `DrivingSafety`: a page that believes it drives is the owner, or the news that it
  is not is in its slot, on the wire, or due at the next tick, or the bridge has
  ended its connection and it has yet to hear of that (`RunnerWillHear`);
  a blocker and an owner exclude each other; the owner is a session whose greeting
  is out.
* `RunsStartFromRest`: the bridge begins to drive for a session on a zero of that
  session only, never on a speed left over from an earlier run, sent before a
  blocker, or revived by a stale acceptance on the page.
* `RunnersHear`: a page that is not the owner any more stops believing it.

`GateSafety` (its part `ClosedGateStops`) and `ActiveNodeStops` except wheels that no frame has
reached since the motors were set up (`Unreached`).  This is a real limit of the
code: the priming of a motor tolerates a frame that fails
(`ddt_motor_lib.cpp:408`), so after a crash with turning wheels and a priming
that fails on one of them, the new process is active behind a closed gate, has
nothing to stop, resends no frame (there is none to resend), and knows of no
fault, while that wheel keeps its old speed until the first command or stop.

### Bounds

* Ages are capped beyond their limits, so every order of expiries occurs with
  limits of no more than two units; what the code distinguishes is only "within"
  and "beyond".
* Two sessions, two sequence numbers: enough for a stale session, a repeated
  and a skipped number.  A third session would only repeat the first once the
  second is current, since the core compares with the current one alone.
* One robot connection and one admin: the guard accepts one robot client at a time
  (`MaxRobotPeers = 1`) and forgets the owner with its connection, so the next
  client may have the same number, as a file descriptor in the code may.  The
  theorems cover any number of either.
* `ioMayFail` is chosen in the initial state and stays: `RecoveredIsLow` speaks of a
  machine on which sysfs works, everything else of both.
* `ClockBack = 1` in the live run: one unit is already as long as the limit.  Forward
  the clock is set without bound; ages are kept up to `MaxAge`, beyond which nothing
  that may still be set back makes a command fresh again.  The run with two wheels
  only sets it ahead, since setting it back is about the command's age, which one
  wheel shows as well; the theorem covers every bound.
* `Wrap = 4`: one callback bumps the version at most three times, so 4 is the
  smallest width for which no change can be hidden; the theorem covers every
  larger one.
* `MaxShots = 2`, `MaxShift = 1` with `MaxSteps = 1` (4 in the code): a second
  shot after a first, a step change that is too large to be believed (from -1 to
  1), and both counters going back after a restart.  The theorems cover every
  bound.
* Two sockets: one in use and one being left.  A third would be a second one
  being left, and the page hears neither.  Two saves: one that timed out and one
  behind it that the late answer must not reach.  `MaxInbox` bounds only the
  status frames; greeting, answers and close are never held back.
* Two pages on one robot: one that drives and one that stops it, asks in vain or
  takes over.  One frame of each page and one state on their way besides the slot
  already let a command cross the end of its run and a state be replaced;
  `MaxSent` holds back only commands, never a page's own stop.  Links fail in the
  run with one page, which has two sessions, the one it left and the next; the
  theorems cover any number of pages with failing links.
* The live runs shrink the data, not the control: one wheel instead of two
  (the failures of one frame are all still there), one save, one page.  `EstopTimeout = 0` in `DriveComponentLive.cfg` removes
  the E-stop's own silence, so that a stop by silence rests on the watchdog
  that the property is about.

### Fairness

* Guard: `WF(Elapse)`, `WF(LoopTick)` (the loop polls with at most 20 ms),
  `WF(RecoverLow)` (systemd runs ExecStopPost).  Clients are not fair.
* Arbiter: `WF(TickCallback)`, `WF(Elapse)`: a wall timer of the executor.
  Nobody is assumed to send a message.
* Drive: `WF(ControlTick)`, `WF(Elapse)`; the clock need not be set.  The properties assume in their own
  statement (`Settled`) that frames are sent from some point on and that the
  E-stop is pressed or released for good: every press of the button restarts
  the wait for the next retry, so a button pressed for ever at a short interval
  postpones it for ever.

* Link: the browser's timers fire, what arrived is read, and a bridge that is up
  accepts a connection.  Neither the learner, nor a status, nor the bridge's
  return is assumed: `LinkSettles` states "the bridge is up for good and nobody
  touches the page" as its own premise.

* Driving from the pages: the 20 Hz tick repeats `drive_state`, the server's tasks
  send the greeting and what is in the slots, and a page handles what arrived, the
  close of its connection included (`HearClose`).  Nobody has to start, stop, lose a link or reach a limit.

### Disagreements found

The first three are the runs expected to be violated.  The others were met while
modelling; the models follow the code, and the properties say what does hold.

* `ReopenedNeedsNeutral`: a twist that finds the gate closed resets the re-arm state
  but not the stored target (`drive_component_control.cpp:204`), and the verdict it
  saw is not the one the tick compares with.  In the run the E-stop topic falls
  silent while the wheels have a target, a twist is turned away, the next E-stop
  message says "released", and the following tick sends the old target's speed,
  although every later twist is refused until a neutral.  `actuation_gate.hpp:156`
  says "A closed gate always disarms" and that reopening never re-arms by itself,
  and the comment above the callback (lines 194-195) that driving does not resume
  before a neutral.  The motion ends with the watchdog, and no target from before a
  stop is ever sent (`MotionNeedsNeutral`, a proved part of `GateSafety`).
* `StopFaultAlwaysRetried`: `on_deactivate` stops the control timer before it
  sends the stop (`drive_component.cpp:341`); when that stop fails, nobody
  retries it while the node is inactive, although `drive_component.hpp:74` and
  the logged error promise a retry at a fixed interval.
* `EachRunIsGuarded`: `DriveSession` keeps one `_guard` (`drive.py:85`, set at line
  247).  When page A's run is ended for it, page B starts one and that one is ended
  as well within `RESTART_GUARD_SEC`, B's guard replaces A's: A's commands still on
  their way are taken again, although `drive.py:30` promises that they are dropped.
  What then holds is that they start nothing but zeros (`RunsStartFromRest`, proved).
* `Core::arm` clears the latched fault before its
  neutral write (`core.hpp:67`); when the write fails the ARM is refused and the
  old cause is gone.  The guard's README (line 36) says that a refused ARM does
  not erase the cause.
* `launcher_flow.hpp:80` (and the arbiter's README, line 66)
  says that a source switch never loses an event at `shot_component`.  When the
  lab has the launcher and falls silent for longer than `input_timeout_sec`, and
  the controller fires before the arbiter's next tick ends the run, the arbiter
  counts the shot, but `shot_component` takes only its baseline from the first
  message after the silence (`launcher_events.hpp:59`).  The window is one tick
  period (50 ms) when both timeouts are equal, as they are by default; the press
  is lost and has to be repeated.

* `robot-link.js:68` says that `silent` means "every stream has been quiet for
  SILENT_MS".  The timer that sets it is armed after the hello and by a status
  message that shows no stream (line 218), and a status that shows one disarms
  it: when the status messages themselves stop after that, on a connection that
  stays open, nothing ever sets it.
* `drive.py:225` discards a session's entry in `_needs_neutral` when it disconnects,
  "no unbounded retention"; `_on_leave` (`bridge_node.py:463`) calls `disconnect`
  for the owner alone, so a page that was refused at a blocker and left stays in
  the set.
* `drive-link.js:8` says that "stop" is sent whenever the run ends for any reason.
  A page that asks again at once may still receive the state that names it owner of
  its previous run, takes itself for accepted, and on the state that ended that run
  gives the new one up as stopped by the bridge, without a stop.
* The interval between shots is kept by one arbiter, not across its restart:
  `last_fire_sec_` of a new one is empty, so its first lab shot waits for the
  spin-up alone.  A proof that a lab shot is `fire_interval_sec` away from
  *every* earlier shot fails at exactly this step when the interval is longer
  than the spin-up, as it is by default (2.0 s and 1.0 s); `LauncherSteps`
  therefore speaks of the shots this arbiter counted.

## 4. Proofs

All theorems hold for every value of the constants that satisfies the ASSUMEs of
the modules (`SysfsAssumption`, `GuardAssumption`, `SelectorAssumption`,
`ArbiterAssumption`, `FlowAssumption`, `GateAssumption`, `BusAssumption`,
`DriveAssumption`, `LinkAssumption`, `LabDriveAssumption`): any timeouts, any number of wheels,
connections, sessions, pages, saves and sequence numbers, any pulse limits with
`0 < MinUs <= Neutral <= MaxUs`, any counter width above 3, any set of commands,
powers and tilt range.  Every safety property of a passing run, invariant, action
property or refinement, is a theorem:

| Theorem | Property |
|---|---|
| `PwmGuardProofs!GuardIsSafe` | `GuardSafety` |
| `PwmGuardProofs!RecoveryLowers` | `RecoveredIsLow` |
| `PwmGuardProofs!SessionsAreFinal` | `SessionsOnlyEnd` |
| `DriveArbiterProofs!ArbiterIsSafe` | `ArbiterSafety` |
| `DriveArbiterProofs!ArbiterHandsOver` | `HandsOver` |
| `DriveComponentProofs!GateIsSafe` | `GateSafety` |
| `DriveComponentProofs!WheelsObey` | `WheelsObeyTheGate` |
| `LauncherProofs!LauncherIsSafe` | `LauncherSafety` |
| `LauncherProofs!LauncherKeepsCount` | `LauncherSteps` |
| `RobotLinkProofs!LinkIsSafe` | `LinkSafety` |
| `RobotLinkProofs!LinkKeepsPromise` | `KeepsPromise` |
| `LabDriveProofs!DriversAreSafe` | `DrivingSafety` |
| `LabDriveProofs!RunsRest` | `RunsStartFromRest` |

**PwmGuardProofs.**  The properties are not inductive one by one: that a pulse
above neutral belongs to an active session follows from what the core believes is
applied, and that belief is only as good as the writer's `expected`.
`Sound(core, hw, tampered)` ties them together; `GuardInv` adds that a driven
session has a connected owner, that the channel is owned while the daemon is up,
and that nothing survives in the core or the owner while it is down.  Each core
operation is shown to deliver a sound outcome from a sound core (`TickSound`,
`CompleteSound`, `CommandSound`, ...), once, whatever the failures; the daemon's
actions then only choose which outcomes are taken.  `RecoveryLowers` needs one
part more, `Recoverable`: with working I/O and no foreign writer, the channel is
at every moment one that `--recover-low` may lower (exported, marked, and never
with the polarity reversed under a running pulse), also between any two sysfs
accesses at which the daemon may die.  The action property `SessionsAreFinal`
rests on lemmas about what one operation may make of a session that has ended or
run out.

**SelectorProofs, DriveArbiterProofs.**  `ArbiterInv` is the conjunction of the
invariants with two strengthenings: an overridden run is still asking
(`overridden => LabAsking(sel)`; without it a tick could unlock a run that the
history calls overridden), and the version last sent is the selector's
(`sentVersion = sel.version`; without it `StatusIsCurrent` does not survive a
callback that bumps nothing).  The lemmas on the selector say how far each
operation moves the version; three bumps modulo more than three cannot return
to where they began.

`ArbiterHandsOver` is the refinement, from the same invariant: each callback is
shown to be one step of `DriveTenure` (`Promised`), in a lemma of its own.  The
three ways in which a run ends by itself (the lab's neutral or broken twist,
silence, the lost permission) share one (`EndPromised`).  The invariant is needed
twice: an overridden run is locked, so neither a lab command nor a tick can make
it one that starts; and the controller is idle while the lab has the drive, so
`LabDrives` never has to end a conflict.

**DriveComponentProofs.**  `DriveInv` is `TypeOK`, `NodeInv(d)` and
`OpenKnown(d, estop, perm)`.  `NodeInv` says that a node that has applied its gate
closed has no command armed and has halted its wheels (or carries a stop fault),
that a closure anybody saw leaves a neutral owed (`"closed" \in owed =>
needsNeutral`), that a command is let through only while one is in force, that a
target never belongs to a time before the last stop, and that a command was in
force no longer than its age by the system's clock and what that clock was set back
(`held <= cmdAge + setBack`).  The last is what the watchdog needs, whose test is on
`cmdAge` alone: a command it lets pass is not `Overdue` (`NotOverdue`).  `OpenKnown` says that the gate cannot be
open unbeknown to the node: a closed gate opens only by a message, and the
callback of that message applies the gate, or by the retry that clears a stop
fault, in a tick that applies the gate next.  The age of a topic can only close
it.  `WheelsObey` follows from the invariant and, for each callback, a lemma that
it starts no wheel unless it is that tick, and that a fault it clears was cleared
by a round of zeros that reached every wheel (`StartsNone`, `Zeroed`).

**LauncherProofs.**  `LaunchInv` joins five parts.  `RunInv`: a run has the topic
and only its own tilt.  `HistoryInv`, `spin <= spun /\ rest = fireAge`: the roller
has turned at least as long as the arbiter's clock says, so a shot the arbiter
allows is one the topic's history allows.  `CountInv` ties the reader's counters
to the arbiter's through the message between them: the output's counters never
run ahead of the topic's; if no counted shot waits, the topic carries none the
reader has not seen; if one waits, it is no older than the reader's silence; the
steps the reader lacks are those counted since it last took a message.
`TopicInv` is the safety property itself, once this arbiter has spoken.  Each
callback of the arbiter is reduced to one `ArbiterEffect` (it leaves the topic
alone, or publishes a fresh message with the output's counters), from which the
reader's half is proved without looking at the callback again.

**RobotLinkProofs.**  `LinkInv` adds to `LinkSafety`: what is on each connection
(`ConnsInv`: no frames before it is accepted, an answer that reports a kept
recording is true, and requests on their way were asked), that socket, phase,
queue and retry timer go together (`SocketInv`), and that each request is in the
queue at most once and pending exactly until its time is up (`SavesInv`).  With
it every step maps to a step or a stutter of `SavePromise` under the identity on
`outcome` and `kept`: the first answer of the inbox belongs to the first entry of
the queue, so it confirms a request that is pending and a recording that is kept.

**LabDriveProofs.**  `RunnerWillHear` is not inductive: one state that denies the run
may be delivered while a later one that confirms it is still to come.  `NewsInv`
says that it is the *newest* of what waits for a page, in the slot or else last on
the wire, that denies a run the page does not have, or the page has given it up.
A page whose connection the bridge has ended needs no such news, it has the close
event to come.  The newest-only slot keeps `NewsInv`, since only the newest matters, and so does the
greeting that throws the slot away, since a session still being greeted has never
driven.  `RestInv` is for the second theorem: a session that neither drives nor
owes a neutral has no speed on its way, and neither its page nor any state
waiting for it would make it send one.  Every step of the bridge is reduced to one
`BridgeEffect` (slots are replaced by news only, frames are read in order or lost,
whoever drove owes a neutral), and the two halves meet only there; a page's own
steps are a `PageEffect`.

Only model-checked: the liveness properties `HungOwnerLosesOutput`,
`SilenceReleasesDrive`, `ActiveNodeStops`, `LinkSettles` and `RunnersHear` (leads-to under
fairness needs ENABLED, which is out of the provers' reach), and that the runs
expected to be violated are.  The modules that are proved about use no RECURSIVE
operator and no fold; no induction over data is needed.

## 5. Plan

In the order of importance; each module gets its own run and, where marked (P),
proofs.

1. The abstract specification of `LauncherChain`, "every press is carried out at
   most once, soon, and for the source that has the launcher", with its refinement
   proof from the invariant of section 4 (`DriveTenure` is the model for it).
2. `RollerEsc` composed with `PwmGuard`: the lease client, its renewals and the
   decision that is carried out after the lock was released.  The composition
   shows that the guard's promises (lease, first fault, no revival) become the
   node's.
3. `OperationManager`: the E-stop publisher with its GPIO evaluator, the vote
   rule and the permission publisher, composed with `SafetyGate`: two leases in
   series bound the time from a lost vote to a closed gate.
4. `ShotComponent`, behind `LauncherChain`'s reader: lifecycle, start-up episode,
   safety teardown with retries and runtime-fault recovery.
5. `LabDrive` composed with `DriveArbiter`: the bridge's twists as the arbiter's lab
   stream and the arbiter's status, delayed, as the bridge's: a status from before a
   run does not end it (`lab_count`).
6. `ActuationAuthority`: Robot Manager's switches, heartbeat child and lease.
7. The lab pages that sit on `RobotLink` and `LabDrive`: shooting sessions, the
   recording block, the run history in the browser's database.

## 6. Not modelled

* Continuous control (ramps, LQR, PI, odometry) and byte protocols (DDT frames,
  CRC, the Feetech protocol, JSON messages): arithmetic and packing, better
  served by the unit tests.  The models keep what decisions depend on.
* The lesson pages above `robot-link.js` and `drive-link.js`, by far the largest part of the
  repository: simulation, rendering and teaching text for the most part; their
  sessions with the robot are in the plan.
* Bench and diagnostic nodes, recorders, web and network administration,
  provisioning, launch files: I/O around external services.
* Jumps of the system's clock, except in `drive_component`, the modelled code that
  measures a limit with it (the watchdog and the re-arm deadline of a command).  The
  limits of the other models are timed by steady clocks and, on the pages, by the
  browser's timers.
* The notify watchdog of the guard's unit appears only as a crash.

`PROJECT.json` lists every component with its status and reason.
