--------------------------- MODULE PwmGuardProofs ---------------------------
(***************************************************************************)
(* Machine-checked proofs about PwmGuard, for every set of connections and *)
(* sessions, every pulse range and every lease, arming and drain time.     *)
(*                                                                         *)
(* Sound is what the core and the channel guarantee between two calls of   *)
(* the core.  Every operation of the core preserves it, although in the    *)
(* middle of an operation it may be broken (arm() clears the latched fault  *)
(* before it writes); the lemmas below state what each helper delivers.    *)
(***************************************************************************)
EXTENDS PwmGuard, TLAPS

\* The reported pair, the latch, and the writer's memory agree.
Agreement(c, h) ==
    /\ \/ c.state \in {"LowIdle", "TerminalLow", "FaultLow"} /\ c.applied = 0
       \/ c.state \in {"Arming", "Draining"} /\ c.applied = Neutral
       \/ c.state = "Active" /\ c.applied \in MinUs..MaxUs
       \/ c.state = "FaultUnknown" /\ c.applied = Unknown
    /\ c.fault # NoFault <=> c.state \in {"FaultLow", "FaultUnknown"}
    /\ c.applied # Unknown => h.expected = c.applied

\* t: somebody else has written the channel.
Pinned(c, h, t) == ~t /\ c.applied # Unknown => h.duty = c.applied

Sound(c, h, t) == c \in Core /\ h \in Channel /\ Agreement(c, h) /\ Pinned(c, h, t)

\* The states in which the owner's session may turn the roller.
Driven(c) == c.state \in {"Arming", "Active"}

\* No operation on a channel exports it, commits it or turns its polarity.
SameMarkers(g, h) ==
    g.exported = h.exported /\ g.committed = h.committed /\ g.polarity = h.polarity

\* What recovery needs to lower a channel.
Owned(h) == h.polarity /\ (h.exported => h.committed)

\* The core after a confirmed Low.
Lowered(c, target) == [c EXCEPT !.applied = 0, !.state = target]

\* The core after a successful write.
Applied(c, us) == [c EXCEPT !.applied = us]

WriterOutcome == [ok : BOOLEAN, h : Channel]
CoreOutcome == [ok : BOOLEAN, c : Core, h : Channel]

-----------------------------------------------------------------------------
(* The sysfs writer.                                                       *)

\* put(): a reported success has changed the attribute.
LEMMA PutType ==
    ASSUME NEW h \in Channel, NEW g \in Channel, NEW p \in Put(h, g)
    PROVE  p \in WriterOutcome /\ (p.ok => p.h = g) /\ p.h \in {h, g}
<1>1. p = [ok |-> TRUE, h |-> g] \/ p = [ok |-> FALSE, h |-> h] \/ p = [ok |-> FALSE, h |-> g]
  BY DEF Put, Failed
<1>2. CASE p = [ok |-> TRUE, h |-> g]
  BY <1>2 DEF WriterOutcome
<1>3. CASE p = [ok |-> FALSE, h |-> h]
  BY <1>3 DEF WriterOutcome
<1>4. CASE p = [ok |-> FALSE, h |-> g]
  BY <1>4 DEF WriterOutcome
<1> QED
  BY <1>1, <1>2, <1>3, <1>4

\* check() changes nothing, and passes only on a channel that matches.
LEMMA CheckType ==
    ASSUME NEW h \in Channel, NEW k \in Check(h)
    PROVE  k \in WriterOutcome /\ k.h = h /\ (k.ok => Matches(h))
<1>1. (k = [ok |-> TRUE, h |-> h] /\ Matches(h)) \/ k = [ok |-> FALSE, h |-> h]
  BY DEF Check, Failed
<1>2. CASE k = [ok |-> TRUE, h |-> h] /\ Matches(h)
  BY <1>2 DEF WriterOutcome
<1>3. CASE k = [ok |-> FALSE, h |-> h]
  BY <1>3 DEF WriterOutcome
<1> QED
  BY <1>1, <1>2, <1>3

\* A confirmed duty is on the pin and in the writer's memory.
LEMMA PutDutyType ==
    ASSUME NEW h \in Channel, NEW us \in Pulses, NEW o \in PutDuty(h, us)
    PROVE  /\ o \in WriterOutcome
           /\ SameMarkers(o.h, h)
           /\ o.ok => o.h.expected = us /\ o.h.duty = us
<1>1. PICK p \in Put(h, [h EXCEPT !.duty = us]) :
         o \in IF p.ok THEN Check([p.h EXCEPT !.expected = us]) ELSE {p}
  BY DEF PutDuty
<1>2. [h EXCEPT !.duty = us] \in Channel
  BY DEF Channel
<1>3. p \in WriterOutcome /\ p.h \in {h, [h EXCEPT !.duty = us]}
  BY <1>2, PutType
<1>4. SameMarkers(p.h, h)
  BY <1>3 DEF Channel, SameMarkers
<1>5. CASE p.ok
  <2> DEFINE g == [p.h EXCEPT !.expected = us]
  <2>1. g \in Channel /\ g.expected = us /\ SameMarkers(g, h)
    BY <1>3, <1>4 DEF WriterOutcome, Channel, SameMarkers
  <2>2. o \in Check(g)
    BY <1>1, <1>5
  <2>3. o \in WriterOutcome /\ o.h = g /\ (o.ok => Matches(g))
    BY <2>1, <2>2, CheckType
  <2> QED
    BY <2>1, <2>3 DEF Matches, SameMarkers
<1>6. CASE ~p.ok
  BY <1>1, <1>3, <1>4, <1>6 DEF WriterOutcome, SameMarkers
<1> QED
  BY <1>3, <1>5, <1>6 DEF WriterOutcome

\* write_pulse(): a confirmed pulse is on the pin and remembered.
LEMMA WritePulseType ==
    ASSUME NEW h \in Channel, NEW us \in Pulses, NEW o \in WritePulse(h, us)
    PROVE  /\ o \in WriterOutcome
           /\ SameMarkers(o.h, h)
           /\ o.ok => o.h.expected = us /\ o.h.duty = us
<1>1. o = [ok |-> FALSE, h |-> h] \/ o \in PutDuty(h, us)
  BY DEF WritePulse, Failed
<1>2. CASE o = [ok |-> FALSE, h |-> h]
  BY <1>2 DEF WriterOutcome, SameMarkers
<1>3. CASE o \in PutDuty(h, us)
  BY <1>3, PutDutyType
<1> QED
  BY <1>1, <1>2, <1>3

\* emergency_low(): a confirmed Low is on the pin and remembered.
LEMMA EmergencyLowType ==
    ASSUME NEW h \in Channel, NEW o \in EmergencyLow(h)
    PROVE  /\ o \in WriterOutcome
           /\ SameMarkers(o.h, h)
           /\ o.ok => o.h.expected = 0 /\ o.h.duty = 0
<1>1. o \in Disable(h) \/ o \in PutDuty(h, 0)
  BY DEF EmergencyLow
<1>2. 0 \in Pulses
  BY DEF Pulses
<1>3. CASE o \in Disable(h)
  <2>1. [h EXCEPT !.enable = FALSE] \in Channel
    BY DEF Channel
  <2>2. PICK p \in Put(h, [h EXCEPT !.enable = FALSE]) : o = [ok |-> FALSE, h |-> p.h]
    BY <1>3 DEF Disable
  <2>3. p \in WriterOutcome /\ p.h \in {h, [h EXCEPT !.enable = FALSE]}
    BY <2>1, PutType
  <2> QED
    BY <2>2, <2>3 DEF WriterOutcome, Channel, SameMarkers
<1>4. CASE o \in PutDuty(h, 0)
  BY <1>2, <1>4, PutDutyType
<1> QED
  BY <1>1, <1>3, <1>4
-----------------------------------------------------------------------------
(* The core's helpers.                                                     *)

\* fault(): a code is latched, the first one kept.
LEMMA LatchFaultType ==
    ASSUME NEW c \in Core, NEW code \in Faults \ {NoFault}
    PROVE  /\ LatchFault(c, code) \in Core
           /\ LatchFault(c, code).fault # NoFault
           /\ LatchFault(c, code).session = c.session
BY DEF LatchFault, Core, Faults, NoFault

\* fault() ends in a sound, latched, undriven core whatever it started from.
LEMMA FaultNowSound ==
    ASSUME NEW c \in Core, NEW h \in Channel, NEW code \in Faults \ {NoFault},
           NEW t \in BOOLEAN, NEW o \in FaultNow(c, h, code)
    PROVE  /\ o \in CoreOutcome /\ ~o.ok
           /\ Sound(o.c, o.h, t) /\ SameMarkers(o.h, h)
           /\ ~Driven(o.c) /\ o.c.session = c.session
<1> DEFINE l == LatchFault(c, code)
<1>1. PICK e \in EmergencyLow(h) :
         o = Outcome(FALSE,
                     [l EXCEPT !.applied = IF e.ok THEN 0 ELSE Unknown,
                               !.state = IF e.ok THEN "FaultLow" ELSE "FaultUnknown"],
                     e.h)
  BY DEF FaultNow
<1>2. l \in Core /\ l.fault # NoFault /\ l.session = c.session
  BY LatchFaultType
<1>3. /\ e \in WriterOutcome /\ SameMarkers(e.h, h)
      /\ e.ok => e.h.expected = 0 /\ e.h.duty = 0
  BY EmergencyLowType
<1>4. e.ok \in BOOLEAN /\ e.h \in Channel
  BY <1>3 DEF WriterOutcome
<1> HIDE DEF l
<1>5. CASE e.ok
  <2>1. o = Outcome(FALSE, [l EXCEPT !.applied = 0, !.state = "FaultLow"], e.h)
    BY <1>1, <1>5
  <2> QED
    BY <2>1, <1>2, <1>3, <1>4, <1>5
    DEF Outcome, CoreOutcome, Sound, Agreement, Pinned, Driven, Core, States, Pulses, Unknown
<1>6. CASE ~e.ok
  <2>1. o = Outcome(FALSE, [l EXCEPT !.applied = Unknown, !.state = "FaultUnknown"], e.h)
    BY <1>1, <1>6
  <2> QED
    BY <2>1, <1>2, <1>3, <1>4, <1>6
    DEF Outcome, CoreOutcome, Sound, Agreement, Pinned, Driven, Core, States, Pulses, Unknown
<1> QED
  BY <1>4, <1>5, <1>6

\* low(): confirmed, it yields the lowered core; refused, a latched unknown.
LEMMA LowType ==
    ASSUME NEW c \in Core, NEW h \in Channel, NEW target \in {"TerminalLow", "LowIdle"},
           NEW t \in BOOLEAN, NEW o \in Low(c, h, target)
    PROVE  /\ o \in CoreOutcome /\ SameMarkers(o.h, h)
           /\ ~Driven(o.c) /\ o.c.session = c.session
           /\ o.ok => o.c = Lowered(c, target)
           /\ o.ok => o.h.expected = 0 /\ o.h.duty = 0
           /\ ~o.ok => Sound(o.c, o.h, t)
<1> DEFINE l == LatchFault(c, "EIO")
           d == Lowered(c, target)
<1>1. PICK e \in EmergencyLow(h) :
         o = IF e.ok THEN Outcome(TRUE, d, e.h)
             ELSE Outcome(FALSE, [l EXCEPT !.applied = Unknown, !.state = "FaultUnknown"], e.h)
  BY DEF Low, Lowered
<1>2. l \in Core /\ l.fault # NoFault /\ l.session = c.session
  BY LatchFaultType DEF Faults, NoFault
<1>3. /\ e \in WriterOutcome /\ SameMarkers(e.h, h)
      /\ e.ok => e.h.expected = 0 /\ e.h.duty = 0
  BY EmergencyLowType
<1>4. e.ok \in BOOLEAN /\ e.h \in Channel
  BY <1>3 DEF WriterOutcome
<1>5. d \in Core /\ ~Driven(d) /\ d.session = c.session
  BY DEF Core, States, Pulses, Driven, Lowered
<1> HIDE DEF l, d
<1>6. CASE e.ok
  <2>1. o = Outcome(TRUE, d, e.h)
    BY <1>1, <1>6
  <2>2. o.ok /\ o.c = d /\ o.h = e.h /\ o \in CoreOutcome
    BY <2>1, <1>4, <1>5 DEF Outcome, CoreOutcome
  <2> QED
    BY <2>2, <1>3, <1>5, <1>6 DEF d
<1>7. CASE ~e.ok
  <2>1. o = Outcome(FALSE, [l EXCEPT !.applied = Unknown, !.state = "FaultUnknown"], e.h)
    BY <1>1, <1>7
  <2> QED
    BY <2>1, <1>2, <1>3, <1>4
    DEF Outcome, CoreOutcome, Sound, Agreement, Pinned, Driven, Core, States, Pulses, Unknown
<1> QED
  BY <1>4, <1>6, <1>7

\* write(): confirmed, the pulse is applied and remembered; refused, a fault.
LEMMA WriteType ==
    ASSUME NEW c \in Core, NEW h \in Channel, NEW us \in MinUs..MaxUs, NEW t \in BOOLEAN,
           c.applied = us => h.expected = us, NEW o \in Write(c, h, us)
    PROVE  /\ o \in CoreOutcome /\ SameMarkers(o.h, h) /\ o.c.session = c.session
           /\ o.ok => /\ o.c = Applied(c, us)
                      /\ o.h.expected = us /\ o.h.duty = us
           /\ ~o.ok => Sound(o.c, o.h, t) /\ ~Driven(o.c)
<1>1. PICK w \in IF c.applied = us THEN Check(h) ELSE WritePulse(h, us) :
         o \in IF w.ok THEN {Outcome(TRUE, [c EXCEPT !.applied = us], w.h)}
                       ELSE FaultNow(c, w.h, "EIO")
  BY DEF Write
<1>2. us \in Pulses
  BY DEF Pulses
<1>3. /\ w \in WriterOutcome /\ SameMarkers(w.h, h)
      /\ w.ok => w.h.expected = us /\ w.h.duty = us
  <2>1. CASE c.applied = us
    BY <2>1, <1>1, CheckType DEF Matches, SameMarkers
  <2>2. CASE c.applied # us
    BY <2>2, <1>1, <1>2, WritePulseType
  <2> QED
    BY <2>1, <2>2
<1>4. w.ok \in BOOLEAN /\ w.h \in Channel
  BY <1>3 DEF WriterOutcome
<1>5. CASE w.ok
  <2> DEFINE d == Applied(c, us)
  <2>1. d \in Core /\ d.session = c.session
    BY <1>2 DEF Core, Applied
  <2>2. o = Outcome(TRUE, d, w.h)
    BY <1>1, <1>5 DEF Applied
  <2> HIDE DEF d
  <2>3. o.ok /\ o.c = d /\ o.h = w.h /\ o \in CoreOutcome
    BY <2>1, <2>2, <1>4 DEF Outcome, CoreOutcome
  <2> QED
    BY <2>1, <2>3, <1>3, <1>5 DEF d
<1>6. CASE ~w.ok
  <2>1. o \in FaultNow(c, w.h, "EIO")
    BY <1>1, <1>6
  <2>2. /\ o \in CoreOutcome /\ ~o.ok /\ Sound(o.c, o.h, t) /\ SameMarkers(o.h, w.h)
        /\ ~Driven(o.c) /\ o.c.session = c.session
    BY <2>1, <1>4, FaultNowSound DEF Faults, NoFault
  <2> QED
    BY <2>2, <1>3 DEF SameMarkers
<1> QED
  BY <1>4, <1>5, <1>6

-----------------------------------------------------------------------------
(* The core's operations preserve Sound.                                   *)

\* What an operation delivers from a sound core: a sound core again, under
\* the same ownership markers.
Delivers(o, h, t) == o \in CoreOutcome /\ Sound(o.c, o.h, t) /\ SameMarkers(o.h, h)

\* low(true) on a core without a fault is a clean, undriven stop.
LEMMA LowTerminalSound ==
    ASSUME NEW c, NEW h, NEW t \in BOOLEAN, Sound(c, h, t), c.fault = NoFault,
           NEW o \in Low(c, h, "TerminalLow")
    PROVE  Delivers(o, h, t) /\ ~Driven(o.c) /\ o.c.session = c.session
<1>1. c \in Core /\ h \in Channel
  BY DEF Sound
<1>2. /\ o \in CoreOutcome /\ SameMarkers(o.h, h)
      /\ ~Driven(o.c) /\ o.c.session = c.session
      /\ o.ok => o.c = Lowered(c, "TerminalLow")
      /\ o.ok => o.h.expected = 0 /\ o.h.duty = 0
      /\ ~o.ok => Sound(o.c, o.h, t)
  BY <1>1, LowType
<1>3. o.ok \in BOOLEAN /\ o.c \in Core /\ o.h \in Channel
  BY <1>2 DEF CoreOutcome
<1>4. ASSUME o.ok PROVE Sound(o.c, o.h, t)
  BY <1>1, <1>2, <1>3, <1>4 DEF Lowered, Sound, Agreement, Pinned, Core, NoFault
<1> QED
  BY <1>2, <1>3, <1>4 DEF Delivers

\* tick() keeps a driven core only unchanged and before its deadline.
LEMMA TickSound ==
    ASSUME NEW c, NEW h, NEW t \in BOOLEAN, Sound(c, h, t), NEW o \in Tick(c, h)
    PROVE  /\ Delivers(o, h, t) /\ o.c.session = c.session
           /\ ~Driven(o.c) \/ (o.c = c /\ c.left # 0)
<1>1. c \in Core /\ h \in Channel
  BY DEF Sound
<1>2. "EIO" \in Faults \ {NoFault} /\ "ETIMEDOUT" \in Faults \ {NoFault}
  BY DEF Faults, NoFault
<1>3. ASSUME NEW code \in {"EIO", "ETIMEDOUT"}, o \in FaultNow(c, h, code)
      PROVE  Delivers(o, h, t) /\ ~Driven(o.c) /\ o.c.session = c.session
  BY <1>1, <1>2, <1>3, FaultNowSound DEF Delivers
<1>4. CASE c.state = "FaultUnknown"
  BY <1>3, <1>4 DEF Tick
<1>5. CASE c.state # "FaultUnknown"
  <2>1. PICK k \in Check(h) :
           o \in IF ~k.ok THEN FaultNow(c, k.h, "EIO")
                 ELSE IF c.state \in {"Arming", "Active"} /\ c.left = 0
                      THEN FaultNow(c, k.h, "ETIMEDOUT")
                 ELSE IF c.state = "Draining" /\ c.left = 0 THEN Low(c, k.h, "TerminalLow")
                 ELSE {Outcome(TRUE, c, k.h)}
    BY <1>5 DEF Tick
  <2>2. k.h = h /\ k.ok \in BOOLEAN
    BY <1>1, CheckType DEF WriterOutcome
  <2>3. CASE o \in FaultNow(c, h, "EIO") \/ o \in FaultNow(c, h, "ETIMEDOUT")
    BY <2>3, <1>3
  <2>4. CASE c.state = "Draining" /\ o \in Low(c, h, "TerminalLow")
    <3>1. c.fault = NoFault
      BY <2>4 DEF Sound, Agreement
    <3> QED
      BY <2>4, <3>1, LowTerminalSound
  <2>5. CASE o = Outcome(TRUE, c, h) /\ ~(c.state \in {"Arming", "Active"} /\ c.left = 0)
    BY <2>5, <1>1 DEF Outcome, Delivers, CoreOutcome, SameMarkers, Driven
  <2> QED
    BY <2>1, <2>2, <2>3, <2>4, <2>5
<1> QED
  BY <1>4, <1>5

\* emergency_low() of the core, also on a faulted one.
LEMMA LowKeepingFaultSound ==
    ASSUME NEW c, NEW h, NEW t \in BOOLEAN, Sound(c, h, t), NEW o \in LowKeepingFault(c, h)
    PROVE  Delivers(o, h, t) /\ ~Driven(o.c) /\ o.c.session = c.session
<1>1. c \in Core /\ h \in Channel
  BY DEF Sound
<1>2. PICK l \in Low(c, h, "TerminalLow") :
         o = IF l.ok /\ c.fault # NoFault
             THEN Outcome(TRUE, [l.c EXCEPT !.state = "FaultLow"], l.h) ELSE l
  BY DEF LowKeepingFault
<1>3. /\ l \in CoreOutcome /\ SameMarkers(l.h, h)
      /\ ~Driven(l.c) /\ l.c.session = c.session
      /\ l.ok => l.c = Lowered(c, "TerminalLow")
      /\ l.ok => l.h.expected = 0 /\ l.h.duty = 0
      /\ ~l.ok => Sound(l.c, l.h, t)
  BY <1>1, LowType
<1>4. l.ok \in BOOLEAN /\ l.c \in Core /\ l.h \in Channel
  BY <1>3 DEF CoreOutcome
<1>5. CASE l.ok /\ c.fault # NoFault
  <2> DEFINE d == [l.c EXCEPT !.state = "FaultLow"]
  <2>1. /\ d \in Core /\ d.session = c.session /\ d.state = "FaultLow"
        /\ d.applied = 0 /\ d.fault # NoFault
    BY <1>1, <1>3, <1>4, <1>5 DEF Core, States, Lowered
  <2>2. o = Outcome(TRUE, d, l.h)
    BY <1>2, <1>5
  <2> HIDE DEF d
  <2> QED
    BY <2>1, <2>2, <1>3, <1>4, <1>5
    DEF Outcome, Delivers, CoreOutcome, Sound, Agreement, Pinned, Driven, SameMarkers
<1>6. CASE ~(l.ok /\ c.fault # NoFault)
  <2>1. o = l
    BY <1>2, <1>6
  <2>2. CASE c.fault = NoFault
    BY <2>1, <2>2, LowTerminalSound
  <2>3. CASE ~l.ok
    BY <2>1, <2>3, <1>3 DEF Delivers
  <2> QED
    BY <1>4, <1>6, <2>2, <2>3
<1> QED
  BY <1>5, <1>6

\* disconnected() never leaves a session driven.
LEMMA DisconnectedSound ==
    ASSUME NEW c, NEW h, NEW t \in BOOLEAN, Sound(c, h, t), NEW o \in Disconnected(c, h)
    PROVE  Delivers(o, h, t) /\ ~Driven(o.c) /\ o.c.session = c.session
<1>1. PICK k \in Tick(c, h) :
         o \in IF k.c.state \in {"Arming", "Active"} THEN FaultNow(k.c, k.h, "ECONNRESET") ELSE {k}
  BY DEF Disconnected
<1>2. Delivers(k, h, t) /\ k.c.session = c.session
  BY TickSound
<1>3. CASE Driven(k.c)
  <2>1. k.c \in Core /\ k.h \in Channel /\ o \in FaultNow(k.c, k.h, "ECONNRESET")
    BY <1>1, <1>2, <1>3 DEF Driven, Delivers, Sound
  <2>2. /\ o \in CoreOutcome /\ Sound(o.c, o.h, t) /\ SameMarkers(o.h, k.h)
        /\ ~Driven(o.c) /\ o.c.session = k.c.session
    BY <2>1, FaultNowSound DEF Faults, NoFault
  <2> QED
    BY <2>2, <1>2 DEF Delivers, SameMarkers
<1>4. CASE ~Driven(k.c)
  BY <1>1, <1>2, <1>4 DEF Driven
<1> QED
  BY <1>3, <1>4

\* A session that is no longer driven is not driven again.
Stays(o, c) == ~Driven(c) /\ o.c.session = c.session => ~Driven(o.c)

\* Recording a sequence number disturbs nothing else.
LEMMA WithSeqSound ==
    ASSUME NEW c, NEW h, NEW t \in BOOLEAN, Sound(c, h, t), NEW q \in 0..MaxSeq,
           NEW d, d = [c EXCEPT !.seq = q]
    PROVE  /\ Sound(d, h, t) /\ d.session = c.session
           /\ d.state = c.state /\ d.fault = c.fault /\ d.applied = c.applied
BY DEF Sound, Agreement, Pinned, Core

\* fault() from a sound core.
LEMMA FaultDelivers ==
    ASSUME NEW c, NEW h, NEW t \in BOOLEAN, Sound(c, h, t),
           NEW code \in Faults \ {NoFault}, NEW o \in FaultNow(c, h, code)
    PROVE  Delivers(o, h, t) /\ ~Driven(o.c) /\ Stays(o, c)
BY FaultNowSound DEF Sound, Delivers, Stays

\* reject() changes nothing but the diagnostic code.
LEMMA RejectDelivers ==
    ASSUME NEW c, NEW h, NEW t \in BOOLEAN, Sound(c, h, t), NEW o \in Reject(c, h)
    PROVE  Delivers(o, h, t) /\ ~o.ok /\ o.c = c /\ Stays(o, c)
<1>1. o = [ok |-> FALSE, c |-> c, h |-> h]
  BY DEF Reject, Outcome
<1> QED
  BY <1>1 DEF Sound, Delivers, CoreOutcome, SameMarkers, Stays

\* complete() activates only an arming session.
LEMMA CompleteSound ==
    ASSUME NEW c, NEW h, NEW t \in BOOLEAN, Sound(c, h, t),
           NEW s, NEW q \in 0..MaxSeq, NEW o \in Complete(c, h, s, q)
    PROVE  Delivers(o, h, t) /\ Stays(o, c)
<1>1. PICK k \in Tick(c, h) :
         o \in IF ~Valid(k.c, s, q)
               THEN IF k.c.state = "Active" THEN FaultNow(k.c, k.h, "EPROTO") ELSE Reject(k.c, k.h)
               ELSE IF k.c.state # "Arming" THEN Reject(k.c, k.h)
               ELSE {Outcome(TRUE, [k.c EXCEPT !.seq = q, !.state = "Active", !.left = Lease], k.h)}
  BY DEF Complete
<1>2. /\ Delivers(k, h, t) /\ k.c.session = c.session
      /\ ~Driven(k.c) \/ k.c = c
  BY TickSound
<1>3. Sound(k.c, k.h, t) /\ SameMarkers(k.h, h) /\ k.c \in Core /\ k.h \in Channel
  BY <1>2 DEF Delivers, Sound
<1>4. SUFFICES Delivers(o, k.h, t) /\ Stays(o, k.c)
  BY <1>2, <1>3 DEF Delivers, SameMarkers, Stays
<1>5. CASE o \in FaultNow(k.c, k.h, "EPROTO")
  BY <1>3, <1>5, FaultDelivers DEF Faults, NoFault
<1>6. CASE o \in Reject(k.c, k.h)
  BY <1>3, <1>6, RejectDelivers
<1>7. CASE /\ k.c.state = "Arming"
           /\ o = Outcome(TRUE, [k.c EXCEPT !.seq = q, !.state = "Active", !.left = Lease], k.h)
  <2> DEFINE d == [k.c EXCEPT !.seq = q, !.state = "Active", !.left = Lease]
  <2>1. Lease \in 0..MaxLeft
    BY GuardAssumption DEF MaxLeft, Maximum
  <2>2. /\ d \in Core /\ d.session = k.c.session /\ d.state = "Active"
        /\ d.applied = k.c.applied /\ d.fault = k.c.fault
    BY <2>1, <1>3 DEF Core, States
  <2>3. k.c.applied \in MinUs..MaxUs /\ k.c.fault = NoFault /\ Driven(k.c)
    BY <1>3, <1>7, SysfsAssumption DEF Sound, Agreement, Driven
  <2> HIDE DEF d
  <2>4. Sound(d, k.h, t)
    BY <2>2, <2>3, <1>3 DEF Sound, Agreement, Pinned
  <2>5. o = Outcome(TRUE, d, k.h)
    BY <1>7 DEF d
  <2> QED
    BY <2>2, <2>3, <2>4, <2>5, <1>3 DEF Outcome, Delivers, CoreOutcome, SameMarkers, Stays
<1> QED
  BY <1>1, <1>5, <1>6, <1>7

\* The accepted part of command(): Low, or a pulse within the limits.
LEMMA ApplySound ==
    ASSUME NEW c, NEW h, NEW t \in BOOLEAN, Sound(c, h, t), Driven(c),
           NEW q \in 0..MaxSeq, NEW us, us = 0 \/ us \in MinUs..MaxUs,
           c.state = "Arming" => us = Neutral, NEW o \in Apply(c, h, q, us)
    PROVE  Delivers(o, h, t)
<1> DEFINE d == [c EXCEPT !.seq = q]
<1>1. /\ Sound(d, h, t) /\ d.session = c.session
      /\ d.state = c.state /\ d.fault = c.fault /\ d.applied = c.applied
  BY WithSeqSound
<1>2. d \in Core /\ h \in Channel /\ d.fault = NoFault /\ (d.applied = us => h.expected = us)
  <2> HIDE DEF d
  <2>1. us # Unknown
    BY SysfsAssumption DEF Unknown
  <2> QED
    BY <2>1, <1>1 DEF Sound, Agreement, Driven
<1> HIDE DEF d
<1>3. CASE us = 0
  <2>1. o \in Low(d, h, "TerminalLow")
    BY <1>3 DEF Apply, d
  <2> QED
    BY <2>1, <1>1, <1>2, LowTerminalSound
<1>4. CASE us # 0
  <2>1. PICK w \in Write(d, h, us) :
           o = IF w.ok /\ w.c.state = "Active"
               THEN Outcome(TRUE, [w.c EXCEPT !.left = Lease], w.h) ELSE w
    BY <1>4 DEF Apply, d
  <2>2. us \in MinUs..MaxUs
    BY <1>4
  <2>3. /\ w \in CoreOutcome /\ SameMarkers(w.h, h)
        /\ w.ok => w.c = Applied(d, us)
        /\ w.ok => w.h.expected = us /\ w.h.duty = us
        /\ ~w.ok => Sound(w.c, w.h, t) /\ ~Driven(w.c)
    BY <2>2, <1>2, WriteType
  <2>4. w.ok \in BOOLEAN /\ w.c \in Core /\ w.h \in Channel
    BY <2>3 DEF CoreOutcome
  <2>5. CASE ~w.ok
    BY <2>1, <2>3, <2>5 DEF Delivers
  <2>6. CASE w.ok
    <3>1. w.c.state = c.state /\ w.c.applied = us /\ w.c.fault = NoFault
      BY <2>3, <2>6, <1>1, <1>2 DEF Applied, Core
    <3>2. Sound(w.c, w.h, t)
      BY <3>1, <2>2, <2>3, <2>4, <2>6, SysfsAssumption
      DEF Driven, Sound, Agreement, Pinned
    <3>3. CASE c.state # "Active"
      BY <3>1, <3>2, <3>3, <2>1, <2>3 DEF Delivers
    <3>4. CASE c.state = "Active"
      <4> DEFINE e == [w.c EXCEPT !.left = Lease]
      <4>1. Lease \in 0..MaxLeft
        BY GuardAssumption DEF MaxLeft, Maximum
      <4>2. e \in Core /\ e.state = w.c.state /\ e.applied = w.c.applied /\ e.fault = w.c.fault
        BY <4>1, <2>4 DEF Core
      <4> HIDE DEF e
      <4>3. Sound(e, w.h, t)
        BY <4>2, <3>2 DEF Sound, Agreement, Pinned
      <4>4. o = Outcome(TRUE, e, w.h)
        BY <3>1, <3>4, <2>1, <2>6 DEF e
      <4> QED
        BY <4>2, <4>3, <4>4, <2>3, <2>4 DEF Outcome, Delivers, CoreOutcome
    <3> QED
      BY <3>3, <3>4
  <2> QED
    BY <2>4, <2>5, <2>6
<1> QED
  BY <1>3, <1>4

\* command() from any state, with any session, number and pulse.
LEMMA CommandSound ==
    ASSUME NEW c, NEW h, NEW t \in BOOLEAN, Sound(c, h, t),
           NEW s, NEW q \in 0..MaxSeq, NEW us \in Nat, NEW o \in Command(c, h, s, q, us)
    PROVE  Delivers(o, h, t) /\ Stays(o, c)
<1>1. PICK k \in Tick(c, h) :
         o \in IF ~Valid(k.c, s, q)
               THEN IF k.c.state = "Active" THEN FaultNow(k.c, k.h, "EPROTO") ELSE Reject(k.c, k.h)
               ELSE IF k.c.state \notin {"Active", "Arming"} THEN Reject(k.c, k.h)
               ELSE IF us # 0 /\ (us < MinUs \/ us > MaxUs) THEN FaultNow(k.c, k.h, "EINVAL")
               ELSE IF k.c.state = "Arming" /\ us # Neutral THEN Reject(k.c, k.h)
               ELSE Apply(k.c, k.h, q, us)
  BY DEF Command
<1>2. /\ Delivers(k, h, t) /\ k.c.session = c.session
      /\ ~Driven(k.c) \/ k.c = c
  BY TickSound
<1>3. Sound(k.c, k.h, t) /\ SameMarkers(k.h, h) /\ k.c \in Core /\ k.h \in Channel
  BY <1>2 DEF Delivers, Sound
<1>4. SUFFICES Delivers(o, k.h, t) /\ Stays(o, k.c)
  BY <1>2, <1>3 DEF Delivers, SameMarkers, Stays
<1>5. CASE o \in FaultNow(k.c, k.h, "EPROTO") \/ o \in FaultNow(k.c, k.h, "EINVAL")
  BY <1>3, <1>5, FaultDelivers DEF Faults, NoFault
<1>6. CASE o \in Reject(k.c, k.h)
  BY <1>3, <1>6, RejectDelivers
<1>7. CASE /\ Driven(k.c) /\ (us = 0 \/ ~(us < MinUs \/ us > MaxUs))
           /\ k.c.state = "Arming" => us = Neutral
           /\ o \in Apply(k.c, k.h, q, us)
  <2>1. us = 0 \/ us \in MinUs..MaxUs
    BY <1>7, SysfsAssumption
  <2> QED
    BY <2>1, <1>3, <1>7, ApplySound DEF Stays
<1> QED
  BY <1>1, <1>5, <1>6, <1>7 DEF Driven

\* stop() from any state.
LEMMA StopSound ==
    ASSUME NEW c, NEW h, NEW t \in BOOLEAN, Sound(c, h, t),
           NEW s, NEW q \in 0..MaxSeq, NEW o \in Stop(c, h, s, q)
    PROVE  Delivers(o, h, t) /\ Stays(o, c)
<1>1. PICK k \in Tick(c, h) :
         o \in IF s = NoSession \/ s # k.c.session THEN Reject(k.c, k.h)
               ELSE LowKeepingFault([k.c EXCEPT !.seq = q], k.h)
  BY DEF Stop
<1>2. /\ Delivers(k, h, t) /\ k.c.session = c.session
      /\ ~Driven(k.c) \/ k.c = c
  BY TickSound
<1>3. Sound(k.c, k.h, t) /\ SameMarkers(k.h, h)
  BY <1>2 DEF Delivers
<1>4. SUFFICES Delivers(o, k.h, t) /\ Stays(o, k.c)
  BY <1>2, <1>3 DEF Delivers, SameMarkers, Stays
<1>5. CASE o \in Reject(k.c, k.h)
  BY <1>3, <1>5, RejectDelivers
<1>6. CASE o \in LowKeepingFault([k.c EXCEPT !.seq = q], k.h)
  <2> DEFINE d == [k.c EXCEPT !.seq = q]
  <2>1. Sound(d, k.h, t)
    BY <1>3, WithSeqSound
  <2> HIDE DEF d
  <2>2. o \in LowKeepingFault(d, k.h)
    BY <1>6 DEF d
  <2> QED
    BY <2>1, <2>2, LowKeepingFaultSound DEF Stays
<1> QED
  BY <1>1, <1>5, <1>6

\* shutdown() from any state.
LEMMA ShutdownSound ==
    ASSUME NEW c, NEW h, NEW t \in BOOLEAN, Sound(c, h, t),
           NEW s, NEW q \in 0..MaxSeq, NEW o \in Shutdown(c, h, s, q)
    PROVE  Delivers(o, h, t) /\ Stays(o, c)
<1>1. PICK k \in Tick(c, h) :
         o \in IF s # k.c.session \/ s = NoSession THEN Reject(k.c, k.h)
               ELSE IF k.c.state \in {"Draining", "TerminalLow"} THEN {Outcome(TRUE, k.c, k.h)}
               ELSE IF k.c.state \notin {"Active", "Arming"} THEN Reject(k.c, k.h)
               ELSE { IF w.ok
                      THEN Outcome(TRUE, [w.c EXCEPT !.state = "Draining", !.left = DrainTime], w.h)
                      ELSE w : w \in Write([k.c EXCEPT !.seq = q], k.h, Neutral) }
  BY DEF Shutdown
<1>2. /\ Delivers(k, h, t) /\ k.c.session = c.session
      /\ ~Driven(k.c) \/ k.c = c
  BY TickSound
<1>3. Sound(k.c, k.h, t) /\ SameMarkers(k.h, h) /\ k.c \in Core /\ k.h \in Channel
  BY <1>2 DEF Delivers, Sound
<1>4. SUFFICES Delivers(o, k.h, t) /\ Stays(o, k.c)
  BY <1>2, <1>3 DEF Delivers, SameMarkers, Stays
<1>5. CASE o \in Reject(k.c, k.h)
  BY <1>3, <1>5, RejectDelivers
<1>6. CASE o = Outcome(TRUE, k.c, k.h)
  BY <1>3, <1>6 DEF Outcome, Delivers, CoreOutcome, SameMarkers, Stays
<1>7. ASSUME Driven(k.c),
             NEW w \in Write([k.c EXCEPT !.seq = q], k.h, Neutral),
             o = IF w.ok
                 THEN Outcome(TRUE, [w.c EXCEPT !.state = "Draining", !.left = DrainTime], w.h)
                 ELSE w
      PROVE  Delivers(o, k.h, t) /\ Stays(o, k.c)
  <2> DEFINE d == [k.c EXCEPT !.seq = q]
  <2>1. Sound(d, k.h, t) /\ d.fault = k.c.fault
    BY <1>3, WithSeqSound
  <2>2. w \in Write(d, k.h, Neutral)
    BY <1>7
  <2> HIDE DEF d
  <2>3. /\ d \in Core /\ d.fault = NoFault /\ Neutral \in MinUs..MaxUs
        /\ d.applied = Neutral => k.h.expected = Neutral
    BY <2>1, <1>3, <1>7, SysfsAssumption DEF Sound, Agreement, Driven, Unknown
  <2>4. /\ w \in CoreOutcome /\ SameMarkers(w.h, k.h)
        /\ w.ok => w.c = Applied(d, Neutral)
        /\ w.ok => w.h.expected = Neutral /\ w.h.duty = Neutral
        /\ ~w.ok => Sound(w.c, w.h, t) /\ ~Driven(w.c)
    BY <2>2, <2>3, <1>3, WriteType
  <2>5. w.ok \in BOOLEAN /\ w.c \in Core /\ w.h \in Channel
    BY <2>4 DEF CoreOutcome
  <2>6. CASE ~w.ok
    BY <1>7, <2>4, <2>6 DEF Delivers, Stays
  <2>7. CASE w.ok
    <3> DEFINE e == [w.c EXCEPT !.state = "Draining", !.left = DrainTime]
    <3>1. w.c.applied = Neutral /\ w.c.fault = NoFault
      BY <2>3, <2>4, <2>7 DEF Applied, Core
    <3>2. DrainTime \in 0..MaxLeft
      BY GuardAssumption DEF MaxLeft, Maximum
    <3>3. e \in Core /\ e.state = "Draining" /\ e.applied = w.c.applied /\ e.fault = w.c.fault
      BY <3>2, <2>5 DEF Core, States
    <3> HIDE DEF e
    <3>4. Sound(e, w.h, t)
      BY <3>1, <3>3, <2>4, <2>5, <2>7 DEF Sound, Agreement, Pinned
    <3>5. o = Outcome(TRUE, e, w.h)
      BY <1>7, <2>7 DEF e
    <3> QED
      BY <3>3, <3>4, <3>5, <2>4, <2>5, <1>7 DEF Outcome, Delivers, CoreOutcome, Stays, Driven
  <2> QED
    BY <2>5, <2>6, <2>7
<1> QED
  BY <1>1, <1>5, <1>6, <1>7 DEF Driven

\* arm() on an undriven core: only a successful one drives the session.
LEMMA ArmSound ==
    ASSUME NEW c, NEW h, NEW t \in BOOLEAN, Sound(c, h, t), ~Driven(c),
           NEW gen \in Sessions, NEW o \in Arm(c, h, gen)
    PROVE  Delivers(o, h, t) /\ Stays(o, c) /\ (~o.ok => ~Driven(o.c))
<1>1. PICK k \in Tick(c, h) :
         o \in IF \/ k.c.state \notin {"LowIdle", "TerminalLow", "FaultLow"}
                  \/ gen = NoSession \/ gen = k.c.session
               THEN Reject(k.c, k.h)
               ELSE UNION { IF ~l.ok THEN {l}
                            ELSE { IF w.ok
                                   THEN Outcome(TRUE, [w.c EXCEPT !.state = "Arming",
                                                                  !.left = ArmTime], w.h)
                                   ELSE w :
                                   w \in Write([l.c EXCEPT !.fault = NoFault, !.session = gen,
                                                           !.seq = 0], l.h, Neutral) } :
                            l \in Low(k.c, k.h, "LowIdle") }
  BY DEF Arm
<1>2. /\ Delivers(k, h, t) /\ k.c.session = c.session /\ ~Driven(k.c)
  BY TickSound
<1>3. Sound(k.c, k.h, t) /\ SameMarkers(k.h, h) /\ k.c \in Core /\ k.h \in Channel
  BY <1>2 DEF Delivers, Sound
<1>4. SUFFICES Delivers(o, k.h, t) /\ Stays(o, k.c) /\ (~o.ok => ~Driven(o.c))
  BY <1>2, <1>3 DEF Delivers, SameMarkers, Stays
<1>5. CASE o \in Reject(k.c, k.h)
  BY <1>2, <1>3, <1>5, RejectDelivers
<1>6. ASSUME gen # k.c.session, NEW l \in Low(k.c, k.h, "LowIdle"),
             o \in IF ~l.ok THEN {l}
                   ELSE { IF w.ok
                          THEN Outcome(TRUE, [w.c EXCEPT !.state = "Arming", !.left = ArmTime], w.h)
                          ELSE w :
                          w \in Write([l.c EXCEPT !.fault = NoFault, !.session = gen,
                                                  !.seq = 0], l.h, Neutral) }
      PROVE  Delivers(o, k.h, t) /\ Stays(o, k.c) /\ (~o.ok => ~Driven(o.c))
  <2>1. /\ l \in CoreOutcome /\ SameMarkers(l.h, k.h) /\ ~Driven(l.c)
        /\ l.ok => l.c = Lowered(k.c, "LowIdle")
        /\ ~l.ok => Sound(l.c, l.h, t)
    BY <1>3, LowType
  <2>2. l.ok \in BOOLEAN /\ l.c \in Core /\ l.h \in Channel
    BY <2>1 DEF CoreOutcome
  <2>3. CASE ~l.ok
    BY <1>6, <2>1, <2>3 DEF Delivers, Stays
  <2>4. CASE l.ok
    <3> DEFINE d == [l.c EXCEPT !.fault = NoFault, !.session = gen, !.seq = 0]
    <3>1. l.c.applied = 0
      BY <2>1, <2>4, <1>3 DEF Lowered, Core
    <3>2. 0 \in 0..MaxSeq /\ NoFault \in Faults
      BY GuardAssumption DEF Faults
    <3>3. /\ d \in Core /\ d.fault = NoFault /\ d.session = gen /\ d.applied = 0
      BY <3>1, <3>2, <2>2 DEF Core
    <3>4. PICK w \in Write(d, l.h, Neutral) :
             o = IF w.ok THEN Outcome(TRUE, [w.c EXCEPT !.state = "Arming", !.left = ArmTime], w.h)
                 ELSE w
      BY <1>6, <2>4
    <3> HIDE DEF d
    <3>5. Neutral \in MinUs..MaxUs /\ (d.applied = Neutral => l.h.expected = Neutral)
      BY <3>3, SysfsAssumption
    <3>6. /\ w \in CoreOutcome /\ SameMarkers(w.h, l.h) /\ w.c.session = gen
          /\ w.ok => w.c = Applied(d, Neutral)
          /\ w.ok => w.h.expected = Neutral /\ w.h.duty = Neutral
          /\ ~w.ok => Sound(w.c, w.h, t) /\ ~Driven(w.c)
      BY <3>3, <3>5, <2>2, WriteType
    <3>7. w.ok \in BOOLEAN /\ w.c \in Core /\ w.h \in Channel /\ SameMarkers(w.h, k.h)
      BY <3>6, <2>1 DEF CoreOutcome, SameMarkers
    <3>8. CASE ~w.ok
      BY <1>6, <3>4, <3>6, <3>7, <3>8 DEF Delivers, Stays
    <3>9. CASE w.ok
      <4> DEFINE e == [w.c EXCEPT !.state = "Arming", !.left = ArmTime]
      <4>1. w.c.applied = Neutral /\ w.c.fault = NoFault
        BY <3>3, <3>6, <3>9 DEF Applied, Core
      <4>2. ArmTime \in 0..MaxLeft
        BY GuardAssumption DEF MaxLeft, Maximum
      <4>3. /\ e \in Core /\ e.state = "Arming" /\ e.applied = w.c.applied
            /\ e.fault = w.c.fault /\ e.session = gen
        BY <4>2, <3>6, <3>7 DEF Core, States
      <4>4. o = Outcome(TRUE, e, w.h)
        BY <3>4, <3>9
      <4> HIDE DEF e
      <4>5. Sound(e, w.h, t)
        BY <4>1, <4>3, <3>6, <3>7, <3>9 DEF Sound, Agreement, Pinned
      <4>6. o.ok /\ o.c = e /\ o.h = w.h /\ o \in CoreOutcome
        BY <4>3, <4>4, <3>7 DEF Outcome, CoreOutcome
      <4> QED
        BY <4>3, <4>5, <4>6, <3>7, <1>6 DEF Delivers, Stays
    <3> QED
      BY <3>7, <3>8, <3>9
  <2> QED
    BY <2>2, <2>3, <2>4
<1> QED
  BY <1>1, <1>5, <1>6

-----------------------------------------------------------------------------
(* Starting and recovering the channel.                                    *)

\* The stages of a first export; the last one is owned.
LEMMA FreshStagesType ==
    ASSUME NEW h \in Channel, NEW i \in 1..7
    PROVE  /\ FreshStages(h)[i] \in Channel
           /\ FreshStages(h)[7].exported /\ FreshStages(h)[7].committed
           /\ FreshStages(h)[7].polarity
<1> DEFINE s1 == [h  EXCEPT !.pending = TRUE]
           s2 == [s1 EXCEPT !.exported = TRUE, !.period = FALSE, !.enable = FALSE,
                            !.duty = 0, !.expected = 0]
           s3 == [s2 EXCEPT !.period = TRUE]
           s4 == [s3 EXCEPT !.polarity = TRUE]
           s5 == [s4 EXCEPT !.enable = TRUE]
           s6 == [s5 EXCEPT !.committed = TRUE]
           s7 == [s6 EXCEPT !.pending = FALSE]
<1>0. FreshStages(h) = <<s1, s2, s3, s4, s5, s6, s7>>
  BY DEF FreshStages
<1>1. s1 \in Channel
  BY DEF Channel
<1> HIDE DEF s1
<1>2. s2 \in Channel /\ s2.exported
  BY <1>1 DEF Channel, Pulses
<1> HIDE DEF s2
<1>3. s3 \in Channel /\ s3.exported
  BY <1>2 DEF Channel
<1> HIDE DEF s3
<1>4. s4 \in Channel /\ s4.exported /\ s4.polarity
  BY <1>3 DEF Channel
<1> HIDE DEF s4
<1>5. s5 \in Channel /\ s5.exported /\ s5.polarity
  BY <1>4 DEF Channel
<1> HIDE DEF s5
<1>6. s6 \in Channel /\ s6.exported /\ s6.committed /\ s6.polarity
  BY <1>5 DEF Channel
<1> HIDE DEF s6
<1>7. s7 \in Channel /\ s7.exported /\ s7.committed /\ s7.polarity
  BY <1>6 DEF Channel
<1> HIDE DEF s7
<1>8. FreshStages(h)[7] = s7
  BY <1>0
<1>9. FreshStages(h)[i] \in {s1, s2, s3, s4, s5, s6, s7}
  BY <1>0
<1> QED
  BY <1>1, <1>2, <1>3, <1>4, <1>5, <1>6, <1>7, <1>8, <1>9

\* A failed access returns FALSE and leaves the channel.
LEMMA FailedType ==
    ASSUME NEW h \in Channel, NEW o \in Failed(h)
    PROVE  o \in WriterOutcome /\ ~o.ok /\ o.h = h /\ ioMayFail
<1>1. o = [ok |-> FALSE, h |-> h] /\ ioMayFail
  BY DEF Failed
<1> QED
  BY <1>1 DEF WriterOutcome

\* initialize() succeeds only on an exported channel with our marker, and leaves
\* a channel that recovery can lower as long as no access fails.
LEMMA InitializeType ==
    ASSUME NEW h \in Channel, NEW o \in Initialize(h)
    PROVE  /\ o \in WriterOutcome /\ (o.ok => o.h.exported /\ o.h.committed)
           /\ ~ioMayFail /\ Owned(h) => Owned(o.h)
<1>1. ASSUME o = [ok |-> FALSE, h |-> h]
      PROVE  o \in WriterOutcome /\ ~o.ok /\ o.h = h
  BY <1>1 DEF WriterOutcome
<1>2. CASE h.exported
  <2>1. o \in InitializeExisting(h)
    BY <1>2 DEF Initialize
  <2>2. CASE ~(h.committed /\ Settled(h))
    BY <2>1, <2>2, <1>1 DEF InitializeExisting
  <2>3. CASE h.committed /\ Settled(h)
    <3> DEFINE g == [h EXCEPT !.duty = 0]
    <3>1. g \in Channel /\ g.exported /\ g.committed /\ (Owned(h) => Owned(g))
      BY <1>2, <2>3 DEF Channel, Pulses, Owned
    <3>2. \/ o \in Failed(h)
          \/ \E p \in Put(h, g) :
                o \in IF p.ok THEN WritePulse([p.h EXCEPT !.expected = 0], 0) ELSE {p}
      BY <2>1, <2>3 DEF InitializeExisting
    <3> HIDE DEF g
    <3>3. CASE o \in Failed(h)
      BY <3>3, FailedType
    <3>4. ASSUME NEW p \in Put(h, g),
                 o \in IF p.ok THEN WritePulse([p.h EXCEPT !.expected = 0], 0) ELSE {p}
          PROVE  /\ o \in WriterOutcome /\ (o.ok => o.h.exported /\ o.h.committed)
                 /\ Owned(h) => Owned(o.h)
      <4>1. p \in WriterOutcome /\ (p.ok => p.h = g) /\ p.h \in {h, g}
        BY <3>1, PutType
      <4>2. p.ok \in BOOLEAN
        BY <4>1 DEF WriterOutcome
      <4>3. CASE ~p.ok
        BY <3>1, <3>4, <4>1, <4>3
      <4>4. CASE p.ok
        <5> DEFINE e == [g EXCEPT !.expected = 0]
        <5>1. /\ e \in Channel /\ e.exported /\ e.committed /\ 0 \in Pulses
              /\ Owned(h) => Owned(e)
          BY <3>1 DEF Channel, Pulses, Owned
        <5>2. o \in WritePulse(e, 0)
          BY <3>4, <4>1, <4>4
        <5> HIDE DEF e
        <5> QED
          BY <5>1, <5>2, WritePulseType DEF SameMarkers, Owned
      <4> QED
        BY <4>2, <4>3, <4>4
    <3> QED
      BY <3>2, <3>3, <3>4
  <2> QED
    BY <2>2, <2>3
<1>3. CASE ~h.exported
  <2>1. o \in InitializeFresh(h)
    BY <1>3 DEF Initialize
  <2>2. CASE o = [ok |-> FALSE, h |-> h]
    BY <2>2, <1>1
  <2>3. CASE o \in Failed(h)
    BY <2>3, FailedType
  <2>4. CASE \E i \in 1..6 : o \in Failed(FreshStages(h)[i])
    <3>1. PICK i \in 1..6 : o \in Failed(FreshStages(h)[i])
      BY <2>4
    <3>2. FreshStages(h)[i] \in Channel
      BY FreshStagesType
    <3> QED
      BY <3>1, <3>2, FailedType
  <2>5. CASE o = [ok |-> TRUE, h |-> FreshStages(h)[7]]
    <3>1. /\ FreshStages(h)[7] \in Channel
          /\ FreshStages(h)[7].exported /\ FreshStages(h)[7].committed
          /\ FreshStages(h)[7].polarity
      BY FreshStagesType
    <3> QED
      BY <3>1, <2>5 DEF WriterOutcome, Owned
  <2> QED
    BY <2>1, <2>2, <2>3, <2>4, <2>5 DEF InitializeFresh
<1> QED
  BY <1>2, <1>3 DEF Channel

\* Without failing accesses an emergency Low of an owned channel takes effect.
LEMMA EmergencyLowWorks ==
    ASSUME NEW h \in Channel, Owned(h), ~ioMayFail, NEW o \in EmergencyLow(h)
    PROVE  o.h \in Channel /\ Owned(o.h) /\ o.h.duty = 0
<1>1. o \in WriterOutcome /\ SameMarkers(o.h, h)
  BY EmergencyLowType
<1>2. o \in PutDuty(h, 0)
  BY DEF EmergencyLow, Owned
<1> DEFINE g == [h EXCEPT !.duty = 0]
           e == [g EXCEPT !.expected = 0]
<1>3. o \in Check(e)
  <2>1. Put(h, g) = {[ok |-> TRUE, h |-> g]}
    BY DEF Put, Failed
  <2>2. PICK p \in Put(h, g) : o \in IF p.ok THEN Check([p.h EXCEPT !.expected = 0]) ELSE {p}
    BY <1>2 DEF PutDuty
  <2>3. p.ok /\ p.h = g
    BY <2>1, <2>2
  <2> QED
    BY <2>2, <2>3
<1>4. o.h = e
  BY <1>3 DEF Check, Failed
<1>5. e.duty = 0
  BY DEF Channel
<1> HIDE DEF e
<1> QED
  BY <1>1, <1>4, <1>5 DEF WriterOutcome, SameMarkers, Owned

-----------------------------------------------------------------------------
(* The inductive invariant of the daemon.                                  *)

\* ExecStopPost finds a channel that it may lower, and leaves it low.
Recoverable ==
    ~ioMayFail /\ ~tampered => Owned(hw) /\ (phase = "down" => ~Spinning(hw))

\* The properties below are not inductive one by one: the reported pair
\* needs the latch, the latch needs the state, and the pin needs the
\* writer's memory.  Sound joins them; the rest ties the session to its
\* connection and the channel to its marker.
GuardInv ==
    /\ TypeOK
    /\ phase = "up" => /\ Sound(core, hw, tampered)
                       /\ hw.exported /\ hw.committed
                       /\ Driven(core) => owner \in peers
    /\ phase # "up" => core = NewCore /\ owner = NoFd
    /\ owner # NoFd => owner \in peers
    /\ Recoverable

\* The core as it is constructed.
LEMMA NewCoreType == NewCore \in Core /\ ~Driven(NewCore)
<1>1. 0 \in 0..MaxSeq /\ 0 \in 0..MaxLeft
  BY GuardAssumption DEF MaxLeft, Maximum
<1> QED
  BY <1>1 DEF NewCore, Core, States, Faults, NoFault, Unknown, Driven

\* The invariant holds before the unit is first started.
LEMMA InitInv == Init => GuardInv
<1> SUFFICES ASSUME Init PROVE GuardInv
  OBVIOUS
<1>1. hw \in Channel
  BY DEF Init, Channel, Pulses
<1> QED
  BY <1>1, NewCoreType DEF Init, GuardInv, TypeOK, Recoverable, Owned, Spinning

\* Every step that runs the core and keeps the daemon up.
LEMMA CoreStepInv ==
    ASSUME GuardInv, phase = "up", NEW o, Delivers(o, hw, tampered),
           core' = o.c, hw' = o.h, UNCHANGED <<phase, tampered, ioMayFail>>,
           peers' \subseteq Fds, hung' \subseteq peers',
           owner' \in RobotFds \cup {NoFd}, owner' # NoFd => owner' \in peers',
           Driven(o.c) => owner' \in peers'
    PROVE  GuardInv'
<1>1. /\ o.c \in Core /\ o.h \in Channel /\ Sound(o.c, o.h, tampered)
      /\ o.h.exported /\ o.h.committed
  BY DEF Delivers, Sound, SameMarkers, GuardInv
<1>2. TypeOK'
  BY <1>1 DEF GuardInv, TypeOK
<1>3. Sound(core, hw, tampered)' <=> Sound(o.c, o.h, tampered)
  BY DEF Sound, Agreement, Pinned
<1>4. Driven(core)' <=> Driven(o.c)
  BY DEF Driven
<1>5. Recoverable'
  BY DEF GuardInv, Recoverable, Owned, Delivers, SameMarkers
<1> QED
  BY <1>1, <1>2, <1>3, <1>4, <1>5 DEF GuardInv

\* What Handle needs to know of the outcomes of a request.
LEMMA HandleInv ==
    ASSUME GuardInv, NEW fd \in Fds, NEW outcomes, NEW arming \in BOOLEAN,
           Handle(fd, outcomes, arming), arming => fd \in RobotFds /\ owner = NoFd,
           \A o \in outcomes : /\ Delivers(o, hw, tampered)
                               /\ Driven(o.c) => (arming /\ o.ok) \/ owner \in peers
    PROVE  GuardInv'
<1> USE DEF Handle
<1>1. PICK o \in outcomes :
         LET own == IF arming /\ o.ok THEN fd ELSE owner IN
         \/ /\ core' = o.c /\ hw' = o.h /\ owner' = own
            /\ UNCHANGED peers
         \/ /\ \E d \in IF fd = own THEN Disconnected(o.c, o.h) ELSE {o} :
                  core' = d.c /\ hw' = d.h
            /\ owner' = IF fd = own THEN NoFd ELSE own
            /\ peers' = peers \ {fd}
  OBVIOUS
<1> DEFINE own == IF arming /\ o.ok THEN fd ELSE owner
<1>2. /\ phase = "up" /\ fd \in peers \ hung /\ UNCHANGED <<phase, hung, tampered, ioMayFail>>
      /\ peers \subseteq Fds /\ hung \subseteq peers /\ owner \in RobotFds \cup {NoFd}
      /\ owner # NoFd => owner \in peers
      /\ tampered \in BOOLEAN /\ NoFd \notin Fds
  BY GuardAssumption DEF GuardInv, TypeOK, Fds
<1>3. /\ Delivers(o, hw, tampered) /\ Driven(o.c) => own \in peers
      /\ own \in RobotFds \cup {NoFd} /\ own # NoFd => own \in peers
  BY <1>2
<1> HIDE DEF own
<1>4. CASE core' = o.c /\ hw' = o.h /\ owner' = own /\ UNCHANGED peers
  BY <1>2, <1>3, <1>4, CoreStepInv
<1>5. CASE /\ \E d \in IF fd = own THEN Disconnected(o.c, o.h) ELSE {o} :
                  core' = d.c /\ hw' = d.h
           /\ owner' = IF fd = own THEN NoFd ELSE own
           /\ peers' = peers \ {fd}
  <2>1. PICK d \in IF fd = own THEN Disconnected(o.c, o.h) ELSE {o} : core' = d.c /\ hw' = d.h
    BY <1>5
  <2>2. hung \subseteq peers'
    BY <1>2, <1>5
  <2>3. CASE fd = own
    <3>1. Sound(o.c, o.h, tampered) /\ SameMarkers(o.h, hw)
      BY <1>3 DEF Delivers
    <3>2. Delivers(d, o.h, tampered) /\ ~Driven(d.c)
      BY <2>1, <2>3, <3>1, <1>2, DisconnectedSound
    <3>3. Delivers(d, hw, tampered)
      BY <3>1, <3>2 DEF Delivers, SameMarkers
    <3> QED
      BY <1>2, <1>5, <2>1, <2>2, <2>3, <3>2, <3>3, CoreStepInv
  <2>4. CASE fd # own
    BY <1>2, <1>3, <1>5, <2>1, <2>2, <2>4, CoreStepInv
  <2> QED
    BY <2>3, <2>4
<1> QED
  BY <1>1, <1>4, <1>5 DEF own

\* Every request ticks first: an outcome of the operation after the tick is
\* an outcome of the request, and a session that was over, or whose deadline
\* had passed, is not driven by it.
Ends(o, c) == c.left = 0 /\ o.c.session = c.session => ~Driven(o.c)

LEMMA AfterTick ==
    ASSUME NEW c, NEW h, NEW t \in BOOLEAN, Sound(c, h, t), NEW k \in Tick(c, h),
           NEW o, Delivers(o, k.h, t), Stays(o, k.c)
    PROVE  Delivers(o, h, t) /\ Stays(o, c) /\ Ends(o, c)
<1>1. /\ Delivers(k, h, t) /\ k.c.session = c.session
      /\ ~Driven(k.c) \/ (k.c = c /\ c.left # 0)
  BY TickSound
<1> QED
  BY <1>1 DEF Delivers, SameMarkers, Stays, Ends

\* tick() as a request of its own.
LEMMA TickDelivers ==
    ASSUME NEW c, NEW h, NEW t \in BOOLEAN, Sound(c, h, t), NEW k \in Tick(c, h)
    PROVE  Delivers(k, h, t) /\ Stays(k, c) /\ Ends(k, c) /\ (Driven(k.c) => Driven(c))
BY TickSound DEF Stays, Ends

\* The outcomes of the owner's requests.
OwnerOutcomes ==
    (UNION {Complete(k.c, k.h, s, q) : k \in Tick(core, hw), s \in Sessions, q \in 1..MaxSeq})
    \cup (UNION {Command(k.c, k.h, s, q, us) :
                   k \in Tick(core, hw), s \in Sessions, q \in 1..MaxSeq, us \in Commands})
    \cup (UNION {Shutdown(k.c, k.h, k.c.session, q) : k \in Tick(core, hw), q \in 0..MaxSeq})
    \cup (UNION {Stop(k.c, k.h, k.c.session, q) : k \in Tick(core, hw), q \in 0..MaxSeq})

\* COMPLETE, COMMAND, SHUTDOWN and STOP of the owner.
LEMMA OwnerRequestSound ==
    ASSUME Sound(core, hw, tampered), tampered \in BOOLEAN, NEW o \in OwnerOutcomes
    PROVE  Delivers(o, hw, tampered) /\ Stays(o, core) /\ Ends(o, core)
<1>1. ASSUME NEW k \in Tick(core, hw), Delivers(o, k.h, tampered), Stays(o, k.c)
      PROVE  Delivers(o, hw, tampered) /\ Stays(o, core) /\ Ends(o, core)
  BY <1>1, AfterTick
<1>2. ASSUME NEW k \in Tick(core, hw) PROVE Sound(k.c, k.h, tampered)
  BY TickSound DEF Delivers
<1>3. CASE \E k \in Tick(core, hw), s \in Sessions, q \in 1..MaxSeq : o \in Complete(k.c, k.h, s, q)
  <2>1. PICK k \in Tick(core, hw), s \in Sessions, q \in 1..MaxSeq : o \in Complete(k.c, k.h, s, q)
    BY <1>3
  <2>2. q \in 0..MaxSeq
    BY GuardAssumption
  <2>3. Delivers(o, k.h, tampered) /\ Stays(o, k.c)
    BY <2>1, <2>2, <1>2, CompleteSound
  <2> QED
    BY <2>3, <1>1
<1>4. CASE \E k \in Tick(core, hw), s \in Sessions, q \in 1..MaxSeq, us \in Commands :
              o \in Command(k.c, k.h, s, q, us)
  <2>1. PICK k \in Tick(core, hw), s \in Sessions, q \in 1..MaxSeq, us \in Commands :
           o \in Command(k.c, k.h, s, q, us)
    BY <1>4
  <2>2. q \in 0..MaxSeq /\ us \in Nat
    BY GuardAssumption
  <2>3. Delivers(o, k.h, tampered) /\ Stays(o, k.c)
    BY <2>1, <2>2, <1>2, CommandSound
  <2> QED
    BY <2>3, <1>1
<1>5. CASE \E k \in Tick(core, hw), q \in 0..MaxSeq : o \in Shutdown(k.c, k.h, k.c.session, q)
  BY <1>1, <1>2, <1>5, ShutdownSound
<1>6. CASE \E k \in Tick(core, hw), q \in 0..MaxSeq : o \in Stop(k.c, k.h, k.c.session, q)
  BY <1>1, <1>2, <1>6, StopSound
<1> QED
  BY <1>3, <1>4, <1>5, <1>6 DEF OwnerOutcomes

\* The admin's LOW.
LEMMA LowRequestSound ==
    ASSUME Sound(core, hw, tampered), tampered \in BOOLEAN,
           NEW k \in Tick(core, hw), NEW o \in LowKeepingFault(k.c, k.h)
    PROVE  Delivers(o, hw, tampered) /\ Stays(o, core) /\ Ends(o, core) /\ ~Driven(o.c)
<1>1. Sound(k.c, k.h, tampered)
  BY TickSound DEF Delivers
<1>2. Delivers(o, k.h, tampered) /\ ~Driven(o.c)
  BY <1>1, LowKeepingFaultSound
<1> QED
  BY <1>2, AfterTick DEF Stays

\* ARM, which the daemon passes on only while nobody owns the output.
LEMMA ArmRequestSound ==
    ASSUME Sound(core, hw, tampered), tampered \in BOOLEAN, ~Driven(core),
           NEW k \in Tick(core, hw), NEW gen \in Sessions, NEW o \in Arm(k.c, k.h, gen)
    PROVE  /\ Delivers(o, hw, tampered) /\ Stays(o, core) /\ Ends(o, core)
           /\ Driven(o.c) => o.ok
<1>1. Sound(k.c, k.h, tampered) /\ ~Driven(k.c)
  BY TickDelivers DEF Delivers
<1>2. Delivers(o, k.h, tampered) /\ Stays(o, k.c) /\ (~o.ok => ~Driven(o.c))
  BY <1>1, ArmSound
<1>3. o.ok \in BOOLEAN
  BY <1>2 DEF Delivers, CoreOutcome
<1> QED
  BY <1>2, <1>3, AfterTick

-----------------------------------------------------------------------------
(* Every step preserves the invariant.                                     *)

\* Every request preserves the invariant.
LEMMA RequestInv ==
    ASSUME GuardInv, NEW fd \in Fds,
           \/ ReqArm(fd) \/ ReqComplete(fd) \/ ReqCommand(fd) \/ ReqShutdown(fd)
           \/ ReqStop(fd) \/ ReqLow(fd) \/ ReqReportOrRefused(fd)
    PROVE  GuardInv'
<1>1. phase = "up" /\ fd \in peers \ hung
  BY DEF ReqArm, ReqComplete, ReqCommand, ReqShutdown, ReqStop, ReqLow, ReqReportOrRefused, Handle
<1>2. /\ Sound(core, hw, tampered) /\ tampered \in BOOLEAN /\ (Driven(core) => owner \in peers)
      /\ TRUE \in BOOLEAN /\ FALSE \in BOOLEAN /\ NoFd \notin peers
  BY <1>1, GuardAssumption DEF GuardInv, TypeOK, Fds
<1>3. CASE ReqArm(fd)
  <2>1. PICK gen \in Sessions :
           Handle(fd, UNION {Arm(k.c, k.h, gen) : k \in Tick(core, hw)}, TRUE)
    BY <1>3 DEF ReqArm
  <2> DEFINE outs == UNION {Arm(k.c, k.h, gen) : k \in Tick(core, hw)}
  <2>2. fd \in RobotFds /\ owner = NoFd /\ ~Driven(core)
    BY <1>2, <1>3 DEF ReqArm
  <2>3. ASSUME NEW o \in outs
        PROVE  Delivers(o, hw, tampered) /\ (Driven(o.c) => o.ok)
    <3>1. PICK k \in Tick(core, hw) : o \in Arm(k.c, k.h, gen)
      BY <2>3
    <3> QED
      BY <3>1, <1>2, <2>2, ArmRequestSound
  <2>4. Handle(fd, outs, TRUE)
    BY <2>1
  <2> HIDE DEF outs
  <2> QED
    BY <2>2, <2>3, <2>4, <1>2, HandleInv
<1>4. ASSUME NEW outs, fd = owner, Handle(fd, outs, FALSE), outs \subseteq OwnerOutcomes
      PROVE  GuardInv'
  <2>1. ASSUME NEW o \in outs
        PROVE  Delivers(o, hw, tampered) /\ owner \in peers
    BY <1>1, <1>2, <1>4, <2>1, OwnerRequestSound
  <2> QED
    BY <2>1, <1>2, <1>4, HandleInv
<1>5. CASE ReqComplete(fd)
  <2>1. PICK s \in Sessions, q \in 1..MaxSeq :
           Handle(fd, UNION {Complete(k.c, k.h, s, q) : k \in Tick(core, hw)}, FALSE)
    BY <1>5 DEF ReqComplete
  <2>2. UNION {Complete(k.c, k.h, s, q) : k \in Tick(core, hw)} \subseteq OwnerOutcomes
    BY DEF OwnerOutcomes
  <2> QED
    BY <1>4, <1>5, <2>1, <2>2 DEF ReqComplete
<1>6. CASE ReqCommand(fd)
  <2>1. PICK s \in Sessions, q \in 1..MaxSeq, us \in Commands :
           Handle(fd, UNION {Command(k.c, k.h, s, q, us) : k \in Tick(core, hw)}, FALSE)
    BY <1>6 DEF ReqCommand
  <2>2. UNION {Command(k.c, k.h, s, q, us) : k \in Tick(core, hw)} \subseteq OwnerOutcomes
    BY DEF OwnerOutcomes
  <2> QED
    BY <1>4, <1>6, <2>1, <2>2 DEF ReqCommand
<1>7. CASE ReqShutdown(fd)
  <2>1. PICK q \in 0..MaxSeq :
           Handle(fd, UNION {Shutdown(k.c, k.h, k.c.session, q) : k \in Tick(core, hw)}, FALSE)
    BY <1>7 DEF ReqShutdown
  <2>2. UNION {Shutdown(k.c, k.h, k.c.session, q) : k \in Tick(core, hw)} \subseteq OwnerOutcomes
    BY DEF OwnerOutcomes
  <2> QED
    BY <1>4, <1>7, <2>1, <2>2 DEF ReqShutdown
<1>8. CASE ReqStop(fd)
  <2>1. PICK q \in 0..MaxSeq :
           Handle(fd, UNION {Stop(k.c, k.h, k.c.session, q) : k \in Tick(core, hw)}, FALSE)
    BY <1>8 DEF ReqStop
  <2>2. UNION {Stop(k.c, k.h, k.c.session, q) : k \in Tick(core, hw)} \subseteq OwnerOutcomes
    BY DEF OwnerOutcomes
  <2> QED
    BY <1>4, <1>8, <2>1, <2>2 DEF ReqStop
<1>9. CASE ReqLow(fd)
  <2> DEFINE outs == UNION {LowKeepingFault(k.c, k.h) : k \in Tick(core, hw)}
  <2>1. ASSUME NEW o \in outs
        PROVE  Delivers(o, hw, tampered) /\ ~Driven(o.c)
    BY <2>1, <1>2, LowRequestSound
  <2>2. Handle(fd, outs, FALSE)
    BY <1>9 DEF ReqLow
  <2> HIDE DEF outs
  <2> QED
    BY <2>1, <2>2, <1>2, HandleInv
<1>10. CASE ReqReportOrRefused(fd)
  <2>1. ASSUME NEW o \in Tick(core, hw)
        PROVE  Delivers(o, hw, tampered) /\ (Driven(o.c) => owner \in peers)
    BY <1>2, TickDelivers
  <2> QED
    BY <2>1, <1>2, <1>10, HandleInv DEF ReqReportOrRefused
<1> QED
  BY <1>3, <1>5, <1>6, <1>7, <1>8, <1>9, <1>10

\* Ticks, time, and connections that come, hang, misbehave or go.
LEMMA LoopInv ==
    ASSUME GuardInv, phase = "up",
           \/ LoopTick \/ Elapse
           \/ \E fd \in Fds : Accept(fd) \/ Drop(fd) \/ Hang(fd) \/ BadFrame(fd)
    PROVE  GuardInv'
<1>1. /\ Sound(core, hw, tampered) /\ (Driven(core) => owner \in peers) /\ core \in Core
      /\ tampered \in BOOLEAN /\ ioMayFail \in BOOLEAN /\ peers \subseteq Fds /\ hung \subseteq peers
      /\ owner \in RobotFds \cup {NoFd} /\ (owner # NoFd => owner \in peers) /\ NoFd \notin peers
      /\ hw \in Channel
  BY GuardAssumption DEF GuardInv, TypeOK, Fds
<1>2. CASE LoopTick
  <2>1. PICK o \in Tick(core, hw) : core' = o.c /\ hw' = o.h
    BY <1>2 DEF LoopTick
  <2>2. Delivers(o, hw, tampered) /\ (Driven(o.c) => owner \in peers)
    BY <1>1, TickDelivers
  <2> QED
    BY <1>1, <1>2, <2>1, <2>2, CoreStepInv DEF LoopTick
<1>3. CASE Elapse
  <2> DEFINE d == [core EXCEPT !.left = @ - 1]
             o == Outcome(TRUE, d, hw)
  <2>1. core.left \in 0..MaxLeft /\ core.left > 0 /\ MaxLeft \in Nat
    BY <1>1, <1>3, GuardAssumption DEF Elapse, Core, MaxLeft, Maximum
  <2>2. core.left - 1 \in 0..MaxLeft
    BY <2>1
  <2>3. /\ d \in Core /\ d.state = core.state /\ d.applied = core.applied /\ d.fault = core.fault
    BY <2>2, <1>1 DEF Core
  <2>4. core' = d /\ hw' = hw /\ UNCHANGED <<phase, peers, owner, hung, tampered, ioMayFail>>
    BY <1>3 DEF Elapse
  <2> HIDE DEF d
  <2>5. o.c = d /\ o.h = hw /\ Delivers(o, hw, tampered) /\ (Driven(o.c) <=> Driven(core))
    BY <2>3, <1>1
    DEF Outcome, Delivers, CoreOutcome, SameMarkers, Sound, Agreement, Pinned, Driven
  <2> HIDE DEF o
  <2> QED
    BY <1>1, <2>4, <2>5, CoreStepInv
<1>4. ASSUME NEW fd \in Fds, Accept(fd) PROVE GuardInv'
  <2>1. /\ UNCHANGED <<core, hw, phase, owner, hung, tampered, ioMayFail>> /\ peers' = peers \cup {fd}
    BY <1>4 DEF Accept
  <2>2. Sound(core, hw, tampered)' /\ (Driven(core)' <=> Driven(core))
    BY <1>1, <2>1 DEF Sound, Agreement, Pinned, Driven
  <2> QED
    BY <1>1, <2>1, <2>2 DEF GuardInv, TypeOK, Recoverable
<1>5. ASSUME NEW fd \in Fds, Hang(fd) PROVE GuardInv'
  <2>1. /\ UNCHANGED <<core, hw, phase, owner, peers, tampered, ioMayFail>>
        /\ hung' = hung \cup {fd} /\ fd \in peers
    BY <1>5 DEF Hang
  <2>2. Sound(core, hw, tampered)' /\ (Driven(core)' <=> Driven(core))
    BY <1>1, <2>1 DEF Sound, Agreement, Pinned, Driven
  <2> QED
    BY <1>1, <2>1, <2>2 DEF GuardInv, TypeOK, Recoverable
<1>6. ASSUME NEW fd \in Fds, Drop(fd) PROVE GuardInv'
  <2>1. PICK o \in IF fd = owner THEN Disconnected(core, hw) ELSE {Outcome(TRUE, core, hw)} :
           core' = o.c /\ hw' = o.h
    BY <1>6 DEF Drop
  <2>2. /\ owner' = IF fd = owner THEN NoFd ELSE owner
        /\ peers' = peers \ {fd} /\ hung' = hung \ {fd} /\ UNCHANGED <<phase, tampered, ioMayFail>>
    BY <1>6 DEF Drop
  <2>3. CASE fd = owner
    <3>1. Delivers(o, hw, tampered) /\ ~Driven(o.c)
      BY <1>1, <2>1, <2>3, DisconnectedSound
    <3> QED
      BY <1>1, <2>1, <2>2, <2>3, <3>1, CoreStepInv
  <2>4. CASE fd # owner
    <3>1. o = Outcome(TRUE, core, hw)
      BY <2>1, <2>4
    <3>2. Delivers(o, hw, tampered) /\ (Driven(o.c) => owner \in peers)
      BY <1>1, <3>1 DEF Outcome, Delivers, CoreOutcome, SameMarkers
    <3> QED
      BY <1>1, <2>1, <2>2, <2>4, <3>2, CoreStepInv
  <2> QED
    BY <2>3, <2>4
<1>7. ASSUME NEW fd \in Fds, BadFrame(fd) PROVE GuardInv'
  <2>1. PICK o \in IF fd = owner /\ core.state = "Active" THEN FaultNow(core, hw, "EPROTO")
                   ELSE {Outcome(FALSE, core, hw)} : core' = o.c /\ hw' = o.h
    BY <1>7 DEF BadFrame
  <2>2. UNCHANGED <<phase, peers, owner, hung, tampered, ioMayFail>>
    BY <1>7 DEF BadFrame
  <2>3. Delivers(o, hw, tampered) /\ (Driven(o.c) => owner \in peers)
    <3>1. CASE o \in FaultNow(core, hw, "EPROTO")
      BY <1>1, <3>1, FaultDelivers DEF Faults, NoFault
    <3>2. CASE o = Outcome(FALSE, core, hw)
      BY <1>1, <3>2 DEF Outcome, Delivers, CoreOutcome, SameMarkers
    <3> QED
      BY <2>1, <3>1, <3>2
  <2> QED
    BY <1>1, <2>1, <2>2, <2>3, CoreStepInv
<1> QED
  BY <1>2, <1>3, <1>4, <1>5, <1>6, <1>7

\* Starts, exits, crashes, recovery and foreign writes.
LEMMA UnitInv ==
    ASSUME GuardInv, Start \/ Terminate \/ Crash \/ RecoverLow \/ Tamper
    PROVE  GuardInv'
<1>1. /\ core \in Core /\ hw \in Channel /\ peers \subseteq Fds /\ hung \subseteq peers
      /\ owner \in RobotFds \cup {NoFd} /\ tampered \in BOOLEAN /\ ioMayFail \in BOOLEAN /\ TypeOK
  BY DEF GuardInv, TypeOK
<1> DEFINE g == [hw EXCEPT !.expected = 0]
<1>2. g \in Channel
  BY <1>1 DEF Channel, Pulses
<1> DEFINE works == ~ioMayFail /\ ~tampered
<1>a. works => Owned(hw) /\ Owned(g) /\ (phase = "down" => ~Spinning(hw))
  BY <1>1 DEF GuardInv, Recoverable, Owned, Channel
<1>3. ASSUME Gone, hw' \in Channel, UNCHANGED <<tampered, ioMayFail>>, works => Owned(hw')
      PROVE  GuardInv'
  BY <1>1, <1>3, NewCoreType DEF Gone, GuardInv, TypeOK, Recoverable
<1>4. CASE Start
  <2>1. PICK i \in Initialize(g) :
           IF ~i.ok
           THEN hw' = i.h /\ phase' = "stopped" /\ core' = NewCore
           ELSE \E l \in Low(NewCore, i.h, "LowIdle") :
                   /\ hw' = l.h
                   /\ phase' = IF l.ok THEN "up" ELSE "stopped"
                   /\ core' = IF l.ok THEN l.c ELSE NewCore
    BY <1>4 DEF Start
  <2>2. /\ phase = "down" /\ UNCHANGED <<peers, owner, hung, tampered, ioMayFail>>
        /\ owner = NoFd /\ core = NewCore
    BY <1>4 DEF Start, GuardInv
  <2> HIDE DEF g
  <2>3. /\ i \in WriterOutcome /\ (i.ok => i.h.exported /\ i.h.committed)
        /\ works => Owned(i.h)
    BY <1>2, <1>a, InitializeType
  <2>4. i.ok \in BOOLEAN /\ i.h \in Channel
    BY <2>3 DEF WriterOutcome
  <2>5. CASE ~i.ok
    BY <1>1, <2>1, <2>2, <2>3, <2>4, <2>5, NewCoreType DEF GuardInv, TypeOK, Recoverable
  <2>6. CASE i.ok
    <3>1. PICK l \in Low(NewCore, i.h, "LowIdle") :
             /\ hw' = l.h
             /\ phase' = IF l.ok THEN "up" ELSE "stopped"
             /\ core' = IF l.ok THEN l.c ELSE NewCore
      BY <2>1, <2>6
    <3>2. /\ l \in CoreOutcome /\ SameMarkers(l.h, i.h) /\ ~Driven(l.c)
          /\ l.ok => l.c = Lowered(NewCore, "LowIdle")
          /\ l.ok => l.h.expected = 0 /\ l.h.duty = 0
      BY <1>1, <2>4, NewCoreType, LowType
    <3>3. l.ok \in BOOLEAN /\ l.c \in Core /\ l.h \in Channel
      BY <3>2 DEF CoreOutcome
    <3>a. (works => Owned(hw')) /\ phase' # "down"
      BY <2>3, <3>1, <3>2 DEF Owned, SameMarkers
    <3>4. CASE ~l.ok
      BY <1>1, <2>2, <3>1, <3>3, <3>4, <3>a, NewCoreType DEF GuardInv, TypeOK, Recoverable
    <3>5. CASE l.ok
      <4>1. core' = l.c /\ hw' = l.h /\ phase' = "up"
        BY <3>1, <3>5
      <4>2. l.c.state = "LowIdle" /\ l.c.applied = 0 /\ l.c.fault = NoFault
        BY <3>2, <3>5 DEF Lowered, NewCore
      <4>3. Sound(core, hw, tampered)' /\ ~Driven(core)' /\ hw'.exported /\ hw'.committed
        BY <2>3, <2>6, <3>2, <3>3, <3>5, <4>1, <4>2
        DEF Sound, Agreement, Pinned, Driven, SameMarkers
      <4> QED
        BY <1>1, <2>2, <3>3, <3>a, <4>1, <4>3 DEF GuardInv, TypeOK, Recoverable
    <3> QED
      BY <3>3, <3>4, <3>5
  <2> QED
    BY <2>4, <2>5, <2>6
<1>5. CASE Terminate
  <2>1. PICK e \in EmergencyLow(hw) : hw' = e.h \/ \E f \in EmergencyLow(e.h) : hw' = f.h
    BY <1>5 DEF Terminate
  <2>2. e.h \in Channel /\ SameMarkers(e.h, hw)
    BY <1>1, EmergencyLowType DEF WriterOutcome
  <2>3. ASSUME NEW f \in EmergencyLow(e.h) PROVE f.h \in Channel /\ SameMarkers(f.h, hw)
    BY <2>2, EmergencyLowType DEF WriterOutcome, SameMarkers
  <2>4. works => Owned(hw')
    BY <1>a, <2>1, <2>2, <2>3 DEF Owned, SameMarkers
  <2> QED
    BY <1>3, <1>5, <2>1, <2>2, <2>3, <2>4 DEF Terminate
<1>6. CASE Crash
  BY <1>1, <1>3, <1>6, <1>a DEF Crash
<1>7. CASE RecoverLow
  <2>1. PICK a \in InitializeRecovery(g) :
           IF ~a.ok THEN hw' = a.h
           ELSE \E b \in EmergencyLow(a.h) :
                   IF ~b.ok THEN hw' = b.h ELSE \E d \in EmergencyLow(b.h) : hw' = d.h
    BY <1>7 DEF RecoverLow
  <2> HIDE DEF g
  <2>2. ASSUME NEW x \in Channel, NEW y \in EmergencyLow(x) PROVE y.h \in Channel
    BY EmergencyLowType DEF WriterOutcome
  <2>3. a.h \in Channel
    <3>1. a \in EmergencyLow(g) \/ a \in Failed(g) \/ a = [ok |-> FALSE, h |-> g]
      BY DEF InitializeRecovery
    <3>2. CASE a \in EmergencyLow(g)
      BY <3>2, <1>2, <2>2
    <3>3. CASE a \in Failed(g)
      BY <3>3, <1>2, FailedType
    <3>4. CASE a = [ok |-> FALSE, h |-> g]
      BY <3>4, <1>2
    <3> QED
      BY <3>1, <3>2, <3>3, <3>4
  <2>4. hw' \in Channel
    BY <2>1, <2>2, <2>3
  <2>5. works => Owned(hw') /\ ~Spinning(hw')
    <3> SUFFICES ASSUME works PROVE Owned(hw') /\ ~Spinning(hw')
      OBVIOUS
    <3>1. CASE ~g.exported
      <4>1. a = [ok |-> FALSE, h |-> g]
        BY <3>1 DEF InitializeRecovery
      <4> QED
        BY <1>a, <2>1, <3>1, <4>1 DEF Spinning
    <3>2. CASE g.exported
      <4>1. a \in EmergencyLow(g)
        BY <1>a, <3>2 DEF InitializeRecovery, Failed, Owned
      <4>2. ASSUME NEW x \in Channel, Owned(x), NEW y \in EmergencyLow(x)
            PROVE  y.h \in Channel /\ Owned(y.h) /\ y.h.duty = 0
        BY <4>2, EmergencyLowWorks
      <4>3. a.h \in Channel /\ Owned(a.h) /\ a.h.duty = 0
        BY <1>2, <1>a, <4>1, <4>2
      <4>4. ASSUME NEW b \in EmergencyLow(a.h)
            PROVE  b.h \in Channel /\ Owned(b.h) /\ b.h.duty = 0
        BY <4>2, <4>3
      <4>5. ASSUME NEW b \in EmergencyLow(a.h), NEW d \in EmergencyLow(b.h)
            PROVE  Owned(d.h) /\ d.h.duty = 0
        BY <4>2, <4>4
      <4>6. Owned(hw') /\ hw'.duty = 0
        BY <2>1, <4>3, <4>4, <4>5
      <4> QED
        BY <4>6, SysfsAssumption DEF Spinning
    <3> QED
      BY <1>2, <3>1, <3>2 DEF Channel
  <2> QED
    BY <1>1, <1>7, <2>4, <2>5 DEF RecoverLow, GuardInv, TypeOK, Recoverable
<1>8. CASE Tamper
  <2>1. PICK pp, rr, ee \in BOOLEAN, dd \in {0, Neutral, MaxUs} :
           hw' = [hw EXCEPT !.polarity = pp, !.period = rr, !.enable = ee, !.duty = dd]
    BY <1>8 DEF Tamper
  <2>2. dd \in Pulses
    BY SysfsAssumption DEF Pulses
  <2>3. /\ hw' \in Channel /\ hw'.expected = hw.expected
        /\ hw'.exported = hw.exported /\ hw'.committed = hw.committed
    BY <1>1, <2>1, <2>2 DEF Channel
  <2>4. UNCHANGED <<core, phase, peers, owner, hung, ioMayFail>> /\ tampered' = TRUE
    BY <1>8 DEF Tamper
  <2>5. Sound(core, hw, tampered) => Sound(core, hw, tampered)'
    BY <1>1, <2>3, <2>4 DEF Sound, Agreement, Pinned
  <2>6. Driven(core)' <=> Driven(core)
    BY <2>4 DEF Driven
  <2>7. TypeOK'
    BY <1>1, <2>3, <2>4 DEF TypeOK
  <2> QED
    BY <2>3, <2>4, <2>5, <2>6, <2>7 DEF GuardInv, Recoverable
<1> QED
  BY <1>4, <1>5, <1>6, <1>7, <1>8

-----------------------------------------------------------------------------
(* The theorems.                                                           *)

\* Every step preserves the invariant.
LEMMA NextInv == GuardInv /\ [Next]_vars => GuardInv'
<1> SUFFICES ASSUME GuardInv, [Next]_vars PROVE GuardInv'
  OBVIOUS
<1>1. CASE UNCHANGED vars
  <2>1. Sound(core, hw, tampered)' <=> Sound(core, hw, tampered)
    BY <1>1 DEF vars, Sound, Agreement, Pinned
  <2> QED
    BY <1>1, <2>1 DEF vars, GuardInv, TypeOK, Driven, Recoverable
<1>2. CASE Start \/ Terminate \/ Crash \/ RecoverLow \/ Tamper
  BY <1>2, UnitInv
<1>3. CASE \E fd \in Fds : \/ ReqArm(fd) \/ ReqComplete(fd) \/ ReqCommand(fd)
                          \/ ReqShutdown(fd) \/ ReqStop(fd) \/ ReqLow(fd)
                          \/ ReqReportOrRefused(fd)
  BY <1>3, RequestInv
<1>4. CASE \/ LoopTick \/ Elapse
           \/ \E fd \in Fds : Accept(fd) \/ Drop(fd) \/ Hang(fd) \/ BadFrame(fd)
  <2>1. phase = "up"
    BY <1>4 DEF LoopTick, Elapse, Accept, Drop, Hang, BadFrame
  <2> QED
    BY <1>4, <2>1, LoopInv
<1> QED
  BY <1>1, <1>2, <1>3, <1>4 DEF Next

\* The daemon keeps GuardInv forever.
THEOREM GuardInvariant == Spec => []GuardInv
<1>1. Init => GuardInv
  BY InitInv
<1>2. GuardInv /\ [Next]_vars => GuardInv'
  BY NextInv
<1> QED
  BY <1>1, <1>2, PTL DEF Spec

\* core.hpp, sysfs.cpp, daemon.cpp: every variable keeps its type.
THEOREM TypeCorrect == Spec => []TypeOK
<1>1. GuardInv => TypeOK
  BY DEF GuardInv
<1> QED
  BY <1>1, GuardInvariant, PTL

\* Every reply the daemon sends passes the client library's validation.
THEOREM RepliesAccepted == Spec => []ReplyIsAccepted
<1>1. GuardInv => ReplyIsAccepted
  BY DEF GuardInv, Sound, Agreement, ReplyIsAccepted
<1> QED
  BY <1>1, GuardInvariant, PTL

\* A fault code is latched exactly while the core is in a fault state.
THEOREM FaultsLatched == Spec => []FaultIffLatched
<1>1. GuardInv => FaultIffLatched
  BY DEF GuardInv, Sound, Agreement, FaultIffLatched
<1> QED
  BY <1>1, GuardInvariant, PTL

\* The writer's memory and the core's agree.
THEOREM ExpectedTracked == Spec => []ExpectedTracksApplied
<1>1. GuardInv => ExpectedTracksApplied
  BY DEF GuardInv, Sound, Agreement, ExpectedTracksApplied
<1> QED
  BY <1>1, GuardInvariant, PTL

\* An arming or active session has a live connection, and the channel driven
\* carries the committed marker.
THEOREM SessionsOwned == Spec => [](DrivenSessionHasOwner /\ OnlyOwnedChannel)
<1>1. GuardInv => DrivenSessionHasOwner /\ OnlyOwnedChannel
  BY DEF GuardInv, Driven, DrivenSessionHasOwner, OnlyOwnedChannel
<1> QED
  BY <1>1, GuardInvariant, PTL

\* Only the daemon's active, owned session turns the roller.
THEOREM SpinIsOwned == Spec => []SpinNeedsActiveOwner
<1>1. GuardInv => SpinNeedsActiveOwner
  <2> SUFFICES ASSUME GuardInv, phase = "up", ~tampered, Spinning(hw), core.state # "FaultUnknown"
               PROVE  core.state = "Active" /\ core.applied = hw.duty /\ owner \in peers
    BY DEF SpinNeedsActiveOwner
  <2>1. Agreement(core, hw) /\ Pinned(core, hw, tampered) /\ (Driven(core) => owner \in peers)
    BY DEF GuardInv, Sound
  <2>2. core.applied # Unknown
    BY <2>1, SysfsAssumption DEF Agreement, Unknown
  <2>3. core.applied = hw.duty /\ hw.duty > Neutral
    BY <2>1, <2>2 DEF Pinned, Spinning
  <2>4. core.state = "Active"
    BY <2>1, <2>3, SysfsAssumption DEF Agreement
  <2> QED
    BY <2>1, <2>3, <2>4 DEF Driven
<1> QED
  BY <1>1, GuardInvariant, PTL

\* Everything the run pwm_guard checks of a state, for every set of
\* connections, sessions, pulses and timeouts.
THEOREM GuardIsSafe == Spec => []GuardSafety
<1>1. /\ Spec => [](DrivenSessionHasOwner /\ OnlyOwnedChannel)
      /\ (DrivenSessionHasOwner /\ OnlyOwnedChannel /\ TypeOK /\ ReplyIsAccepted
          /\ SpinNeedsActiveOwner /\ FaultIffLatched /\ ExpectedTracksApplied) => GuardSafety
  BY SessionsOwned DEF GuardSafety
<1> QED
  BY <1>1, TypeCorrect, RepliesAccepted, SpinIsOwned, FaultsLatched, ExpectedTracked, PTL

\* However the daemon died and whatever the roller did then, the unit is started
\* again only on a channel that ExecStopPost has lowered, when sysfs works and nobody
\* else has written the channel.
THEOREM RecoveryLowers == Spec => []RecoveredIsLow
<1>1. GuardInv => RecoveredIsLow
  BY DEF GuardInv, Recoverable, RecoveredIsLow
<1> QED
  BY <1>1, GuardInvariant, PTL

-----------------------------------------------------------------------------
(* Action properties.                                                      *)

\* What one step may do to the session: nothing revives it, nothing extends
\* a deadline that has passed.
Continues(c, d) ==
    /\ ~Driven(c) /\ d.session = c.session => ~Driven(d)
    /\ c.left = 0 /\ d.session = c.session /\ Driven(d) => d.left = 0

\* A request continues the session only as its outcomes do.
LEMMA HandleContinues ==
    ASSUME GuardInv, NEW fd, NEW outcomes, NEW arming, Handle(fd, outcomes, arming),
           \A o \in outcomes : Delivers(o, hw, tampered) /\ Stays(o, core) /\ Ends(o, core)
    PROVE  Continues(core, core')
<1>1. PICK o \in outcomes :
         \/ core' = o.c
         \/ \E d \in Disconnected(o.c, o.h) : core' = d.c
  BY DEF Handle
<1>2. Sound(o.c, o.h, tampered) /\ tampered \in BOOLEAN /\ Stays(o, core) /\ Ends(o, core)
  BY DEF Delivers, GuardInv, TypeOK
<1>3. CASE core' = o.c
  BY <1>2, <1>3 DEF Stays, Ends, Continues
<1>4. CASE \E d \in Disconnected(o.c, o.h) : core' = d.c
  BY <1>2, <1>4, DisconnectedSound DEF Continues
<1> QED
  BY <1>1, <1>3, <1>4

\* So does every step of a daemon that stays up.
LEMMA NextContinues ==
    ASSUME GuardInv, [Next]_vars, phase = "up", phase' = "up"
    PROVE  Continues(core, core')
<1>1. /\ Sound(core, hw, tampered) /\ tampered \in BOOLEAN /\ (Driven(core) => owner \in peers)
      /\ NoFd \notin peers
  BY GuardAssumption DEF GuardInv, TypeOK, Fds
<1>2. ASSUME core' = core PROVE Continues(core, core')
  BY <1>2 DEF Continues
<1>3. ASSUME NEW d, core' = d, ~Driven(d) PROVE Continues(core, core')
  BY <1>3 DEF Continues
<1>4. ASSUME NEW fd \in Fds, ReqArm(fd) PROVE Continues(core, core')
  <2>1. PICK gen \in Sessions :
           Handle(fd, UNION {Arm(k.c, k.h, gen) : k \in Tick(core, hw)}, TRUE)
    BY <1>4 DEF ReqArm
  <2> DEFINE outs == UNION {Arm(k.c, k.h, gen) : k \in Tick(core, hw)}
  <2>2. ~Driven(core)
    BY <1>1, <1>4 DEF ReqArm
  <2>3. ASSUME NEW o \in outs
        PROVE  Delivers(o, hw, tampered) /\ Stays(o, core) /\ Ends(o, core)
    BY <2>2, <2>3, <1>1, ArmRequestSound
  <2>4. Handle(fd, outs, TRUE)
    BY <2>1
  <2> HIDE DEF outs
  <2> QED
    BY <2>3, <2>4, HandleContinues
<1>5. ASSUME NEW fd \in Fds, NEW outs, Handle(fd, outs, FALSE), outs \subseteq OwnerOutcomes
      PROVE  Continues(core, core')
  BY <1>1, <1>5, OwnerRequestSound, HandleContinues
<1>6. ASSUME NEW fd \in Fds, ReqComplete(fd) PROVE Continues(core, core')
  <2>1. PICK s \in Sessions, q \in 1..MaxSeq :
           Handle(fd, UNION {Complete(k.c, k.h, s, q) : k \in Tick(core, hw)}, FALSE)
    BY <1>6 DEF ReqComplete
  <2>2. UNION {Complete(k.c, k.h, s, q) : k \in Tick(core, hw)} \subseteq OwnerOutcomes
    BY DEF OwnerOutcomes
  <2> QED
    BY <1>5, <2>1, <2>2
<1>7. ASSUME NEW fd \in Fds, ReqCommand(fd) PROVE Continues(core, core')
  <2>1. PICK s \in Sessions, q \in 1..MaxSeq, us \in Commands :
           Handle(fd, UNION {Command(k.c, k.h, s, q, us) : k \in Tick(core, hw)}, FALSE)
    BY <1>7 DEF ReqCommand
  <2>2. UNION {Command(k.c, k.h, s, q, us) : k \in Tick(core, hw)} \subseteq OwnerOutcomes
    BY DEF OwnerOutcomes
  <2> QED
    BY <1>5, <2>1, <2>2
<1>8. ASSUME NEW fd \in Fds, ReqShutdown(fd) PROVE Continues(core, core')
  <2>1. PICK q \in 0..MaxSeq :
           Handle(fd, UNION {Shutdown(k.c, k.h, k.c.session, q) : k \in Tick(core, hw)}, FALSE)
    BY <1>8 DEF ReqShutdown
  <2>2. UNION {Shutdown(k.c, k.h, k.c.session, q) : k \in Tick(core, hw)} \subseteq OwnerOutcomes
    BY DEF OwnerOutcomes
  <2> QED
    BY <1>5, <2>1, <2>2
<1>9. ASSUME NEW fd \in Fds, ReqStop(fd) PROVE Continues(core, core')
  <2>1. PICK q \in 0..MaxSeq :
           Handle(fd, UNION {Stop(k.c, k.h, k.c.session, q) : k \in Tick(core, hw)}, FALSE)
    BY <1>9 DEF ReqStop
  <2>2. UNION {Stop(k.c, k.h, k.c.session, q) : k \in Tick(core, hw)} \subseteq OwnerOutcomes
    BY DEF OwnerOutcomes
  <2> QED
    BY <1>5, <2>1, <2>2
<1>10. ASSUME NEW fd \in Fds, ReqLow(fd) PROVE Continues(core, core')
  <2> DEFINE outs == UNION {LowKeepingFault(k.c, k.h) : k \in Tick(core, hw)}
  <2>1. ASSUME NEW o \in outs
        PROVE  Delivers(o, hw, tampered) /\ Stays(o, core) /\ Ends(o, core)
    BY <2>1, <1>1, LowRequestSound
  <2>2. Handle(fd, outs, FALSE)
    BY <1>10 DEF ReqLow
  <2> HIDE DEF outs
  <2> QED
    BY <2>1, <2>2, HandleContinues
<1>11. ASSUME NEW fd \in Fds, ReqReportOrRefused(fd) PROVE Continues(core, core')
  <2>1. ASSUME NEW o \in Tick(core, hw)
        PROVE  Delivers(o, hw, tampered) /\ Stays(o, core) /\ Ends(o, core)
    BY <1>1, TickDelivers
  <2> QED
    BY <2>1, <1>11, HandleContinues DEF ReqReportOrRefused
<1>12. CASE LoopTick
  BY <1>1, <1>12, TickDelivers DEF LoopTick, Stays, Ends, Continues
<1>13. CASE Elapse
  <2>1. core \in Core /\ core.left > 0 /\ core' = [core EXCEPT !.left = @ - 1]
    BY <1>1, <1>13 DEF Elapse, Sound
  <2>2. core'.state = core.state /\ core.left # 0
    BY <2>1 DEF Core
  <2> QED
    BY <2>2 DEF Continues, Driven
<1>14. ASSUME NEW fd \in Fds, Drop(fd) PROVE Continues(core, core')
  <2>1. PICK o \in IF fd = owner THEN Disconnected(core, hw) ELSE {Outcome(TRUE, core, hw)} :
           core' = o.c
    BY <1>14 DEF Drop
  <2>2. CASE o \in Disconnected(core, hw)
    BY <1>1, <1>3, <2>1, <2>2, DisconnectedSound
  <2>3. CASE o = Outcome(TRUE, core, hw)
    BY <1>2, <2>1, <2>3 DEF Outcome
  <2> QED
    BY <2>1, <2>2, <2>3
<1>15. ASSUME NEW fd \in Fds, BadFrame(fd) PROVE Continues(core, core')
  <2>1. PICK o \in IF fd = owner /\ core.state = "Active" THEN FaultNow(core, hw, "EPROTO")
                   ELSE {Outcome(FALSE, core, hw)} : core' = o.c
    BY <1>15 DEF BadFrame
  <2>2. CASE o \in FaultNow(core, hw, "EPROTO")
    BY <1>1, <1>3, <2>1, <2>2, FaultDelivers DEF Faults, NoFault
  <2>3. CASE o = Outcome(FALSE, core, hw)
    BY <1>2, <2>1, <2>3 DEF Outcome
  <2> QED
    BY <2>1, <2>2, <2>3
<1>16. ASSUME \/ UNCHANGED vars \/ Tamper \/ \E fd \in Fds : Accept(fd) \/ Hang(fd)
       PROVE  Continues(core, core')
  BY <1>2, <1>16 DEF vars, Tamper, Accept, Hang
<1>17. ASSUME Start \/ Terminate \/ Crash \/ RecoverLow PROVE FALSE
  BY <1>17 DEF Start, Terminate, Crash, RecoverLow, Gone
<1> QED
  BY <1>4, <1>6, <1>7, <1>8, <1>9, <1>10, <1>11, <1>12, <1>13, <1>14, <1>15, <1>16, <1>17 DEF Next

\* No session is revived, and no lease or arming window that has run out is
\* extended: what a client, the clock or a lost connection does to it ends it.
THEOREM SessionsAreFinal == Spec => SessionsOnlyEnd
<1>1. GuardInv /\ [Next]_vars => [Unrevived]_vars
  BY NextContinues DEF Continues, Driven, Unrevived
<1>2. GuardInv /\ GuardInv' /\ [Next]_vars => [ExpiryStands]_vars
  <2> SUFFICES ASSUME GuardInv, GuardInv', [Next]_vars, phase = "up", core.left = 0,
                      core'.state \in {"Arming", "Active"}, core'.session = core.session
               PROVE  core'.left = 0
    BY DEF ExpiryStands
  <2>1. phase' = "up"
    BY DEF GuardInv, NewCore
  <2> QED
    BY <2>1, NextContinues DEF Continues, Driven
<1>3. GuardInv /\ GuardInv' /\ [Next]_vars => [Unrevived /\ ExpiryStands]_vars
  BY <1>1, <1>2
<1> QED
  BY <1>3, GuardInvariant, PTL DEF Spec, SessionsOnlyEnd

=============================================================================
