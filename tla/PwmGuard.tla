------------------------------ MODULE PwmGuard ------------------------------
(***************************************************************************)
(* The root daemon that owns the roller's ESC signal: the state machine of *)
(* questix_pwm_guard/include/questix_pwm_guard/core.hpp, the event loop of  *)
(* src/daemon.cpp around it, and the systemd unit that restarts it.        *)
(*                                                                         *)
(* The daemon is one thread: a step is one pass of the loop through tick(), *)
(* accept, one request or one dropped connection.  Clients are arbitrary:  *)
(* a request carries any session, sequence number and pulse.  The deadline *)
(* is kept as the time left until it (left = 0: now >= deadline_).          *)
(***************************************************************************)
EXTENDS SysfsOutput, FiniteSets

CONSTANTS
    RobotFds,      \* connections of the robot uid
    AdminFds,      \* connections of the admin uid
    NoFd,          \* owner = -1
    MaxRobotPeers, \* 15: accepted connections of the robot uid
    Sessions,      \* generation numbers an ARM can draw
    NoSession,     \* session_ = 0
    MaxSeq,        \* bound: largest sequence number a client sends
    Commands,      \* pulse widths a client asks for
    Lease, ArmTime, DrainTime  \* lease_ms, arm_ms, drain_ms in time units

ASSUME GuardAssumption ==
    /\ NoFd \notin RobotFds \cup AdminFds
    /\ RobotFds \cap AdminFds = {}
    /\ IsFiniteSet(RobotFds) /\ IsFiniteSet(AdminFds)
    /\ NoSession \notin Sessions
    /\ MaxRobotPeers \in Nat /\ MaxSeq \in Nat
    /\ Commands \subseteq Nat
    /\ Lease \in Nat \ {0} /\ ArmTime \in Nat \ {0} /\ DrainTime \in Nat

VARIABLES
    core,     \* the Core object
    hw,       \* the PWM channel, see SysfsOutput
    phase,    \* the unit: "up", "stopped" (ExecStopPost is due), "down"
    peers,    \* accepted connections
    owner,    \* the connection that armed, or NoFd
    hung,     \* connections whose process sends nothing any more
    tampered  \* somebody else wrote the channel's attributes

vars == <<core, hw, phase, peers, owner, hung, tampered, ioMayFail>>

Fds == RobotFds \cup AdminFds

States == {"LowIdle", "Arming", "Active", "Draining",
           "TerminalLow", "FaultLow", "FaultUnknown"}

Unknown == -1             \* applied_: what is on the pin is not known
NoFault == "none"         \* fault_error_ = 0
Faults == {NoFault, "ETIMEDOUT", "EPROTO", "EINVAL", "ECONNRESET", "EIO"}

Maximum(a, b) == IF a >= b THEN a ELSE b
MaxLeft == Maximum(Lease, Maximum(ArmTime, DrainTime))

Core ==
    [ state : States, applied : Pulses \cup {Unknown}, fault : Faults,
      session : Sessions \cup {NoSession}, seq : 0..MaxSeq, left : 0..MaxLeft ]

NewCore ==
    [ state |-> "LowIdle", applied |-> Unknown, fault |-> NoFault,
      session |-> NoSession, seq |-> 0, left |-> 0 ]

-----------------------------------------------------------------------------
(* Core.  Each operation maps a core and a channel to its set of outcomes  *)
(* [ok |-> the C++ return value, c |-> core, h |-> channel].                *)

Outcome(ok, c, h) == [ok |-> ok, c |-> c, h |-> h]
Reject(c, h) == {Outcome(FALSE, c, h)}

LatchFault(c, code) == [c EXCEPT !.fault = IF @ = NoFault THEN code ELSE @]

FaultNow(c, h, code) ==
    { Outcome(FALSE,
              [LatchFault(c, code) EXCEPT
                  !.applied = IF e.ok THEN 0 ELSE Unknown,
                  !.state = IF e.ok THEN "FaultLow" ELSE "FaultUnknown"],
              e.h) : e \in EmergencyLow(h) }

\* target is "TerminalLow" for low(true) and "LowIdle" for low(false).
Low(c, h, target) ==
    { IF e.ok
      THEN Outcome(TRUE, [c EXCEPT !.applied = 0, !.state = target], e.h)
      ELSE Outcome(FALSE, [LatchFault(c, "EIO") EXCEPT !.applied = Unknown,
                                                       !.state = "FaultUnknown"],
                   e.h) : e \in EmergencyLow(h) }

\* A pulse that is already applied is only checked, not written again.
Write(c, h, us) ==
    UNION { IF w.ok THEN {Outcome(TRUE, [c EXCEPT !.applied = us], w.h)}
                    ELSE FaultNow(c, w.h, "EIO") :
            w \in IF c.applied = us THEN Check(h) ELSE WritePulse(h, us) }

\* Mutant: the lease and arming deadlines are never compared.
TickWithoutLease(c, h) ==
    IF c.state = "FaultUnknown" THEN FaultNow(c, h, "EIO")
    ELSE UNION { IF ~k.ok THEN FaultNow(c, k.h, "EIO")
                 ELSE IF c.state = "Draining" /\ c.left = 0 THEN Low(c, k.h, "TerminalLow")
                 ELSE {Outcome(TRUE, c, k.h)} : k \in Check(h) }

Tick(c, h) ==
    IF c.state = "FaultUnknown" THEN FaultNow(c, h, "EIO")
    ELSE UNION { IF ~k.ok THEN FaultNow(c, k.h, "EIO")
                 ELSE IF c.state \in {"Arming", "Active"} /\ c.left = 0
                      THEN FaultNow(c, k.h, "ETIMEDOUT")
                 ELSE IF c.state = "Draining" /\ c.left = 0 THEN Low(c, k.h, "TerminalLow")
                 ELSE {Outcome(TRUE, c, k.h)} : k \in Check(h) }

Valid(c, s, q) == s # NoSession /\ s = c.session /\ q > c.seq

Arm(c, h, gen) ==
    UNION { IF \/ t.c.state \notin {"LowIdle", "TerminalLow", "FaultLow"}
               \/ gen = NoSession \/ gen = t.c.session
            THEN Reject(t.c, t.h)
            ELSE UNION { IF ~l.ok THEN {l}
                         ELSE { IF w.ok
                                THEN Outcome(TRUE, [w.c EXCEPT !.state = "Arming",
                                                               !.left = ArmTime], w.h)
                                ELSE w :
                                w \in Write([l.c EXCEPT !.fault = NoFault, !.session = gen,
                                                        !.seq = 0], l.h, Neutral) } :
                         l \in Low(t.c, t.h, "LowIdle") } :
            t \in Tick(c, h) }

\* Mutant: COMPLETE activates whatever the state was.
CompleteAnyState(c, h, s, q) ==
    UNION { IF ~Valid(t.c, s, q) THEN Reject(t.c, t.h)
            ELSE {Outcome(TRUE, [t.c EXCEPT !.seq = q, !.state = "Active", !.left = Lease], t.h)} :
            t \in Tick(c, h) }

Complete(c, h, s, q) ==
    UNION { IF ~Valid(t.c, s, q)
            THEN IF t.c.state = "Active" THEN FaultNow(t.c, t.h, "EPROTO") ELSE Reject(t.c, t.h)
            ELSE IF t.c.state # "Arming" THEN Reject(t.c, t.h)
            ELSE {Outcome(TRUE, [t.c EXCEPT !.seq = q, !.state = "Active", !.left = Lease], t.h)} :
            t \in Tick(c, h) }

\* The command proper, once the session and sequence number are accepted.
Apply(c, h, q, us) ==
    LET d == [c EXCEPT !.seq = q] IN
    IF us = 0 THEN Low(d, h, "TerminalLow")
    ELSE { IF w.ok /\ w.c.state = "Active"
           THEN Outcome(TRUE, [w.c EXCEPT !.left = Lease], w.h)
           ELSE w :
           w \in Write(d, h, us) }

Command(c, h, s, q, us) ==
    UNION { IF ~Valid(t.c, s, q)
            THEN IF t.c.state = "Active" THEN FaultNow(t.c, t.h, "EPROTO") ELSE Reject(t.c, t.h)
            ELSE IF t.c.state \notin {"Active", "Arming"} THEN Reject(t.c, t.h)
            ELSE IF us # 0 /\ (us < MinUs \/ us > MaxUs) THEN FaultNow(t.c, t.h, "EINVAL")
            ELSE IF t.c.state = "Arming" /\ us # Neutral THEN Reject(t.c, t.h)
            ELSE Apply(t.c, t.h, q, us) : t \in Tick(c, h) }

\* Mutant: the drain starts without the neutral pulse.
ShutdownKeepsPulse(c, h, s, q) ==
    UNION { IF s = NoSession \/ t.c.state \notin {"Active", "Arming"} THEN Reject(t.c, t.h)
            ELSE {Outcome(TRUE, [t.c EXCEPT !.seq = q, !.state = "Draining",
                                            !.left = DrainTime], t.h)} :
            t \in Tick(c, h) }

Shutdown(c, h, s, q) ==
    UNION { IF s # t.c.session \/ s = NoSession THEN Reject(t.c, t.h)
            ELSE IF t.c.state \in {"Draining", "TerminalLow"} THEN {Outcome(TRUE, t.c, t.h)}
            ELSE IF t.c.state \notin {"Active", "Arming"} THEN Reject(t.c, t.h)
            ELSE { IF w.ok
                   THEN Outcome(TRUE, [w.c EXCEPT !.state = "Draining", !.left = DrainTime], w.h)
                   ELSE w :
                   w \in Write([t.c EXCEPT !.seq = q], t.h, Neutral) } :
            t \in Tick(c, h) }

\* emergency_low() and the tail of stop(): a latched fault stays a fault.
LowKeepingFault(c, h) ==
    { IF l.ok /\ c.fault # NoFault
      THEN Outcome(TRUE, [l.c EXCEPT !.state = "FaultLow"], l.h)
      ELSE l :
      l \in Low(c, h, "TerminalLow") }

Stop(c, h, s, q) ==
    UNION { IF s = NoSession \/ s # t.c.session THEN Reject(t.c, t.h)
            ELSE LowKeepingFault([t.c EXCEPT !.seq = q], t.h) : t \in Tick(c, h) }

Disconnected(c, h) ==
    UNION { IF t.c.state \in {"Arming", "Active"} THEN FaultNow(t.c, t.h, "ECONNRESET") ELSE {t} :
            t \in Tick(c, h) }

-----------------------------------------------------------------------------
(* Daemon.                                                                 *)

Init ==
    /\ core = NewCore
    /\ hw = [ exported |-> FALSE, pending |-> FALSE, committed |-> FALSE,
              polarity |-> TRUE, period |-> FALSE, enable |-> FALSE,
              duty |-> 0, expected |-> 0 ]
    /\ phase = "down"
    /\ peers = {} /\ owner = NoFd /\ hung = {}
    /\ tampered = FALSE
    /\ ioMayFail \in BOOLEAN

\* The fd goes away: its loss is a fault unless the session is draining.
Drop(fd) ==
    /\ phase = "up" /\ fd \in peers
    /\ \E o \in IF fd = owner THEN Disconnected(core, hw) ELSE {Outcome(TRUE, core, hw)} :
          core' = o.c /\ hw' = o.h
    /\ owner' = IF fd = owner THEN NoFd ELSE owner
    /\ peers' = peers \ {fd} /\ hung' = hung \ {fd}
    /\ UNCHANGED <<phase, tampered, ioMayFail>>

Accept(fd) ==
    /\ phase = "up" /\ fd \notin peers
    /\ IF fd \in AdminFds THEN peers \cap AdminFds = {}
                          ELSE Cardinality(peers \cap RobotFds) < MaxRobotPeers
    /\ peers' = peers \cup {fd}
    /\ UNCHANGED <<core, hw, phase, owner, hung, tampered, ioMayFail>>

LoopTick ==
    /\ phase = "up"
    /\ \E o \in Tick(core, hw) : core' = o.c /\ hw' = o.h
    /\ UNCHANGED <<phase, peers, owner, hung, tampered, ioMayFail>>

\* What every request handler does with the outcomes of tick() and the
\* operation: take one, reply.  A successful ARM makes fd the owner.  A reply
\* that cannot be sent drops the connection in the same pass.
Handle(fd, outcomes, arming) ==
    /\ phase = "up" /\ fd \in peers \ hung
    /\ \E o \in outcomes :
          LET own == IF arming /\ o.ok THEN fd ELSE owner IN
          \/ /\ core' = o.c /\ hw' = o.h /\ owner' = own
             /\ UNCHANGED peers
          \/ /\ \E d \in IF fd = own THEN Disconnected(o.c, o.h) ELSE {o} :
                   core' = d.c /\ hw' = d.h
             /\ owner' = IF fd = own THEN NoFd ELSE own
             /\ peers' = peers \ {fd}
    /\ UNCHANGED <<phase, hung, tampered, ioMayFail>>

ReqArm(fd) ==
    /\ fd \in RobotFds /\ owner = NoFd
    /\ \E gen \in Sessions :
          Handle(fd, UNION {Arm(t.c, t.h, gen) : t \in Tick(core, hw)}, TRUE)

ReqComplete(fd) ==
    /\ fd = owner
    /\ \E s \in Sessions, q \in 1..MaxSeq :
          Handle(fd, UNION {Complete(t.c, t.h, s, q) : t \in Tick(core, hw)}, FALSE)

ReqCommand(fd) ==
    /\ fd = owner
    /\ \E s \in Sessions, q \in 1..MaxSeq, us \in Commands :
          Handle(fd, UNION {Command(t.c, t.h, s, q, us) : t \in Tick(core, hw)}, FALSE)

\* SHUTDOWN and STOP act on the current session, whatever the frame says.
ReqShutdown(fd) ==
    /\ fd = owner
    /\ \E q \in 0..MaxSeq :
          Handle(fd, UNION {Shutdown(t.c, t.h, t.c.session, q) : t \in Tick(core, hw)}, FALSE)

ReqStop(fd) ==
    /\ fd = owner
    /\ \E q \in 0..MaxSeq :
          Handle(fd, UNION {Stop(t.c, t.h, t.c.session, q) : t \in Tick(core, hw)}, FALSE)

ReqLow(fd) ==
    /\ fd \in AdminFds
    /\ Handle(fd, UNION {LowKeepingFault(t.c, t.h) : t \in Tick(core, hw)}, FALSE)

\* STATUS, REPORT and every request the daemon refuses: tick and reply only.
ReqReportOrRefused(fd) == Handle(fd, Tick(core, hw), FALSE)

\* A frame that does not parse: no tick, and a fault when the owner sends it
\* while the output is active.
BadFrame(fd) ==
    /\ phase = "up" /\ fd \in peers \ hung
    /\ \E o \in IF fd = owner /\ core.state = "Active" THEN FaultNow(core, hw, "EPROTO")
                ELSE {Outcome(FALSE, core, hw)} : core' = o.c /\ hw' = o.h
    /\ UNCHANGED <<phase, peers, owner, hung, tampered, ioMayFail>>

-----------------------------------------------------------------------------
(* The process, the unit and the world around it.                          *)

Elapse ==
    /\ phase = "up" /\ core.left > 0
    /\ core' = [core EXCEPT !.left = @ - 1]
    /\ UNCHANGED <<hw, phase, peers, owner, hung, tampered, ioMayFail>>

\* A robot client stops sending without closing its connection; an admin that does is
\* one that asks for nothing more.
Hang(fd) ==
    /\ phase = "up" /\ fd \in (peers \cap RobotFds) \ hung
    /\ hung' = hung \cup {fd}
    /\ UNCHANGED <<core, hw, phase, peers, owner, tampered, ioMayFail>>

Gone == /\ phase' = "stopped" /\ core' = NewCore
        /\ peers' = {} /\ owner' = NoFd /\ hung' = {}

\* initialize() and core.start(); a failure throws and the unit stops.
Start ==
    /\ phase = "down"
    /\ \E i \in Initialize([hw EXCEPT !.expected = 0]) :
          IF ~i.ok
          THEN hw' = i.h /\ phase' = "stopped" /\ core' = NewCore
          ELSE \E l \in Low(NewCore, i.h, "LowIdle") :
                  /\ hw' = l.h
                  /\ phase' = IF l.ok THEN "up" ELSE "stopped"
                  /\ core' = IF l.ok THEN l.c ELSE NewCore
    /\ UNCHANGED <<peers, owner, hung, tampered, ioMayFail>>

\* SIGTERM leaves the loop and lowers the output twice (at the end of run()
\* and in LowOnExit); an exception in the loop lowers it once.
Terminate ==
    /\ phase = "up"
    /\ \E e \in EmergencyLow(hw) :
          \/ hw' = e.h
          \/ \E f \in EmergencyLow(e.h) : hw' = f.h
    /\ Gone /\ UNCHANGED <<tampered, ioMayFail>>

\* SIGKILL, or the unit's watchdog: nothing runs, the channel keeps its duty.
Crash == phase = "up" /\ Gone /\ UNCHANGED <<hw, tampered, ioMayFail>>

\* ExecStopPost: --recover-low initializes, starts and leaves the core.
RecoverLow ==
    /\ phase = "stopped" /\ phase' = "down"
    /\ \E a \in InitializeRecovery([hw EXCEPT !.expected = 0]) :
          IF ~a.ok THEN hw' = a.h
          ELSE \E b \in EmergencyLow(a.h) :
                  IF ~b.ok THEN hw' = b.h ELSE \E d \in EmergencyLow(b.h) : hw' = d.h
    /\ UNCHANGED <<core, peers, owner, hung, tampered, ioMayFail>>

\* Another root process writes the channel's attributes.
Tamper ==
    /\ hw.exported /\ ~tampered /\ tampered' = TRUE
    /\ \E p, r, e \in BOOLEAN, d \in {0, Neutral, MaxUs} :
          hw' = [hw EXCEPT !.polarity = p, !.period = r, !.enable = e, !.duty = d]
    /\ UNCHANGED <<core, phase, peers, owner, hung, ioMayFail>>

Next ==
    \/ \E fd \in Fds :
          \/ Accept(fd) \/ Drop(fd) \/ Hang(fd) \/ BadFrame(fd)
          \/ ReqArm(fd) \/ ReqComplete(fd) \/ ReqCommand(fd)
          \/ ReqShutdown(fd) \/ ReqStop(fd) \/ ReqLow(fd) \/ ReqReportOrRefused(fd)
    \/ LoopTick \/ Elapse
    \/ Start \/ Terminate \/ Crash \/ RecoverLow \/ Tamper

Spec == Init /\ [][Next]_vars

-----------------------------------------------------------------------------
(* Properties.                                                             *)

\* Every variable keeps its type: the core's fields, the channel's
\* attributes and the daemon's connection tables.
TypeOK ==
    /\ core \in Core /\ hw \in Channel
    /\ phase \in {"up", "stopped", "down"}
    /\ peers \subseteq Fds /\ hung \subseteq peers
    /\ owner \in RobotFds \cup {NoFd}
    /\ tampered \in BOOLEAN /\ ioMayFail \in BOOLEAN

\* The state and pulse the daemon reports are always a pair the client
\* library accepts (client.hpp drops the connection on any other pair).
ReplyIsAccepted ==
    phase = "up" =>
      \/ core.state \in {"LowIdle", "TerminalLow", "FaultLow"} /\ core.applied = 0
      \/ core.state \in {"Arming", "Draining"} /\ core.applied = Neutral
      \/ core.state = "Active" /\ core.applied \in MinUs..MaxUs
      \/ core.state = "FaultUnknown" /\ core.applied = Unknown

\* Only this daemon's active, owned session turns the roller.  If nobody else
\* writes the channel, a pulse above neutral is on the pin only while the
\* core is Active, has applied exactly that pulse and its owner is connected,
\* or after a Low request that failed (FaultUnknown, retried at every tick).
SpinNeedsActiveOwner ==
    phase = "up" /\ ~tampered /\ Spinning(hw) =>
      \/ core.state = "Active" /\ core.applied = hw.duty /\ owner \in peers
      \/ core.state = "FaultUnknown"

\* A fault code is latched exactly while the core is in a fault state: a
\* STOP or an admin LOW never relabels a faulted session as a clean stop,
\* and a faulted core is never armed, active or draining.
FaultIffLatched ==
    phase = "up" => (core.fault # NoFault <=> core.state \in {"FaultLow", "FaultUnknown"})

\* An arming or active session always has a live connection whose loss
\* would be noticed.
DrivenSessionHasOwner ==
    phase = "up" /\ core.state \in {"Arming", "Active"} => owner \in peers

\* The sysfs writer's expected pulse and the core's applied pulse agree
\* whenever the core claims to know what is on the pin, so that check()
\* compares the channel with what the client was told.
ExpectedTracksApplied ==
    phase = "up" /\ core.applied # Unknown => hw.expected = core.applied

\* After a crash while the roller turned, ExecStopPost stops it before the
\* unit is started again, given working I/O and no other writer.
RecoveredIsLow ==
    ~ioMayFail /\ ~tampered /\ phase = "down" => ~Spinning(hw)

\* The daemon drives a channel only under its own committed marker; a
\* pending marker is never trusted.
OnlyOwnedChannel == phase = "up" => hw.exported /\ hw.committed

\* What the daemon promises of every state it is up in, together: the reply
\* it would send, the pin, the fault, the owner and the channel agree, across
\* failed and half-done writes, dropped connections, restarts and requests of
\* any client.
GuardSafety ==
    /\ TypeOK
    /\ ReplyIsAccepted
    /\ SpinNeedsActiveOwner
    /\ FaultIffLatched
    /\ DrivenSessionHasOwner
    /\ ExpectedTracksApplied
    /\ OnlyOwnedChannel

\* Once a session has left Arming and Active it never comes back: neither
\* its own commands nor an admin LOW revive it, only a new ARM (a new
\* session) does.
Unrevived ==
    (/\ phase = "up" /\ phase' = "up" /\ core'.session = core.session
     /\ core.state \notin {"Arming", "Active"})
    => core'.state \notin {"Arming", "Active"}

\* Expiry wins over queued requests: a lease or arming window that has run
\* out is never extended, whichever request is handled first.
ExpiryStands ==
    (/\ phase = "up" /\ core.state \in {"Arming", "Active"} /\ core.left = 0
     /\ core'.state \in {"Arming", "Active"} /\ core'.session = core.session)
    => core'.left = 0

\* A session of core.hpp only ever ends: no request, loss of a connection or
\* tick revives it or gives it more time than its lease.
SessionsOnlyEnd == [][Unrevived /\ ExpiryStands]_vars

-----------------------------------------------------------------------------
(* Fairness: time passes, the loop polls at least every 20 ms, and systemd *)
(* runs ExecStopPost.  Clients and connections are not assumed fair.       *)
FairSpec == Spec /\ WF_vars(Elapse) /\ WF_vars(LoopTick) /\ WF_vars(RecoverLow)

\* A client that hangs while it owns the output loses it: the lease (or the
\* arming window) expires and the core leaves Arming and Active.
HungOwnerLosesOutput ==
    (phase = "up" /\ owner \in hung /\ core.state \in {"Arming", "Active"})
      ~> ~(owner \in hung /\ core.state \in {"Arming", "Active"})
=============================================================================
