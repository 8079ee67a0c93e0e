------------------------ MODULE DriveComponentProofs ------------------------
(***************************************************************************)
(* Proofs about drive_component for every set of wheels, every timeout and *)
(* every choice of the diagnostic opt-outs.  The frames of one callback     *)
(* yield a set of next states, so every lemma speaks of one member of it.  *)
(***************************************************************************)
EXTENDS DriveComponent, TLAPS

\* A node that closed its gate has stopped its wheels, or knows it has not.
Halted(n) ==
    n.ready /\ ~n.stopFault
        => (\A w \in Wheels : ~n.wheel[w]) \/ (\E w \in Wheels : n.frame[w] = "none")

\* What every state of the node keeps, also in the middle of a callback.
NodeInv(n) ==
    /\ n.lastBlock # "none" => ~n.hasTarget /\ ~n.pending
    /\ n.lastBlock # "none" => Halted(n)
    /\ n.stopFault => ~n.hasTarget /\ ~n.pending
    /\ ~n.needsNeutral => n.hasTarget /\ n.heard
    /\ n.hasTarget => "stop" \notin n.owed /\ "overdue" \notin n.owed
    /\ n.hasTarget => n.held <= n.cmdAge + n.setBack
    /\ "closed" \in n.owed => n.needsNeutral
    /\ n.broke \cap {"stop", "overdue"} = {}

\* m starts no wheel that stands in n.
StartsNone(n, m) == \A w \in Wheels : ~n.wheel[w] => ~m.wheel[w]

\* Every wheel has had its zero.
Zeroed(n) == \A w \in Wheels : ~n.wheel[w] /\ n.frame[w] = "zero"

\* An open gate is never news to the node: only a message opens it, or the tick
\* that clears a stop fault, and both record it.
OpenKnown(n, e, p) == Evaluate(n.stopFault, e, p) = "none" => n.lastBlock = "none"

DriveInv == TypeOK /\ NodeInv(d) /\ OpenKnown(d, estop, perm)

\* The fields of the node that the motor library does not touch.
SameNode(m, n) ==
    /\ m.ready = n.ready /\ m.stopFault = n.stopFault /\ m.stopAge = n.stopAge
    /\ m.lastBlock = n.lastBlock /\ m.hasTarget = n.hasTarget /\ m.target = n.target
    /\ m.cmdAge = n.cmdAge /\ m.held = n.held /\ m.setBack = n.setBack
    /\ m.needsNeutral = n.needsNeutral /\ m.heard = n.heard
    /\ m.pending = n.pending /\ m.rolling = n.rolling /\ m.owed = n.owed /\ m.broke = n.broke

-----------------------------------------------------------------------------
\* Frames change the motors' fields only: a wheel obeys the frame that reached
\* it, and the library remembers the frames that were sent.
LEMMA SendFramesFacts ==
    ASSUME NEW n \in Drive, NEW f \in BOOLEAN, NEW o \in Outcomes(f),
           NEW to \in SUBSET Wheels, NEW spin \in SUBSET Wheels
    PROVE  /\ SendFrames(n, to, spin, o) \in Drive
           /\ SameNode(SendFrames(n, to, spin, o), n)
           /\ \A w \in Wheels :
                 /\ w \in to /\ w \in o.ok /\ w \notin spin
                        => ~SendFrames(n, to, spin, o).wheel[w]
                 /\ ~n.wheel[w] /\ w \notin spin => ~SendFrames(n, to, spin, o).wheel[w]
                 /\ SendFrames(n, to, spin, o).frame[w] =
                        IF w \in to \cap o.ok
                        THEN IF w \in spin THEN "drive" ELSE "zero" ELSE n.frame[w]
<1> DEFINE wh == [w \in Wheels |-> IF w \in to \cap (o.ok \cup o.late)
                                   THEN w \in spin ELSE n.wheel[w]]
           fr == [w \in Wheels |-> IF w \in to \cap o.ok
                                   THEN IF w \in spin THEN "drive" ELSE "zero"
                                   ELSE n.frame[w]]
           he == IF to \cap o.ok = {} THEN n.healthy ELSE o.healthy
<1>1. SendFrames(n, to, spin, o) = [n EXCEPT !.wheel = wh, !.frame = fr, !.healthy = he]
  BY DEF SendFrames
<1>a. n.wheel \in [Wheels -> BOOLEAN] /\ n.frame \in [Wheels -> Frames]
  BY DEF Drive
<1>b. ASSUME NEW w \in Wheels
      PROVE  (IF w \in to \cap (o.ok \cup o.late) THEN w \in spin ELSE n.wheel[w]) \in BOOLEAN
  <2>1. n.wheel[w] \in BOOLEAN
    BY <1>a
  <2>2. (w \in spin) \in BOOLEAN
    OBVIOUS
  <2> QED
    BY <2>1, <2>2
<1>2. wh \in [Wheels -> BOOLEAN]
  BY <1>b
<1>3. fr \in [Wheels -> Frames]
  BY <1>a DEF Frames
<1>4. he \in BOOLEAN
  BY DEF Drive, Outcomes, Replies
<1>5. \A w \in Wheels : fr[w] = IF w \in to \cap o.ok
                                THEN IF w \in spin THEN "drive" ELSE "zero" ELSE n.frame[w]
  OBVIOUS
<1>c. ASSUME NEW w \in Wheels, w \in to, w \in o.ok, w \notin spin
      PROVE  ~wh[w]
  <2>1. w \in to \cap (o.ok \cup o.late)
    BY <1>c
  <2>2. wh[w] = (w \in spin)
    BY <2>1
  <2> QED
    BY <1>c, <2>2
<1>d. ASSUME NEW w \in Wheels, ~n.wheel[w], w \notin spin
      PROVE  ~wh[w]
  <2>1. CASE w \in to \cap (o.ok \cup o.late)
    <3>1. wh[w] = (w \in spin)
      BY <2>1
    <3> QED
      BY <1>d, <3>1
  <2>2. CASE w \notin to \cap (o.ok \cup o.late)
    <3>1. wh[w] = n.wheel[w]
      BY <2>2
    <3> QED
      BY <1>d, <3>1
  <2> QED
    BY <2>1, <2>2
<1> HIDE DEF wh, fr, he
<1>6. /\ SendFrames(n, to, spin, o) \in Drive
      /\ SendFrames(n, to, spin, o).wheel = wh
      /\ SendFrames(n, to, spin, o).frame = fr
  BY <1>1, <1>2, <1>3, <1>4 DEF Drive
<1>7. SameNode(SendFrames(n, to, spin, o), n)
  BY <1>1 DEF Drive, SameNode
<1> QED
  BY <1>5, <1>6, <1>7, <1>c, <1>d

\* Recording when a stop frame went out touches nothing else.
LEMMA SentFacts ==
    ASSUME NEW n \in Drive, NEW ws \in SUBSET Wheels
    PROVE  /\ Sent(n, ws) \in Drive /\ SameNode(Sent(n, ws), n)
           /\ Sent(n, ws).wheel = n.wheel /\ Sent(n, ws).frame = n.frame
<1> DEFINE re == [w \in Wheels |-> w \in ws \/ n.recent[w]]
<1>1. re \in [Wheels -> BOOLEAN]
  OBVIOUS
<1>2. Sent(n, ws) = [n EXCEPT !.recent = re]
  BY DEF Sent
<1> HIDE DEF re
<1> QED
  BY <1>1, <1>2 DEF Drive, SameNode

\* stopNow: when it is confirmed, every wheel has its zero.
LEMMA StopNowFacts ==
    ASSUME NEW n \in Drive, NEW f \in BOOLEAN, NEW o \in Outcomes(f)
    PROVE  /\ StopNow(n, o) \in Drive /\ SameNode(StopNow(n, o), n)
           /\ Confirmed(o) => \A w \in Wheels : /\ ~StopNow(n, o).wheel[w]
                                                /\ StopNow(n, o).frame[w] = "zero"
           /\ \A w \in Wheels : ~n.wheel[w] => ~StopNow(n, o).wheel[w]
<1> DEFINE s == SendFrames(n, Wheels, {}, o)
<1>1. /\ s \in Drive /\ SameNode(s, n)
      /\ \A w \in Wheels :
            /\ w \in o.ok => ~s.wheel[w]
            /\ ~n.wheel[w] => ~s.wheel[w]
            /\ s.frame[w] = IF w \in Wheels \cap o.ok
                            THEN IF w \in {} THEN "drive" ELSE "zero" ELSE n.frame[w]
  <2>1. {} \in SUBSET Wheels /\ Wheels \in SUBSET Wheels
    OBVIOUS
  <2> QED
    BY <2>1, SendFramesFacts
<1>2. StopNow(n, o) = Sent(s, o.ok)
  BY DEF StopNow
<1>3. o.ok \in SUBSET Wheels
  BY DEF Outcomes, Replies
<1> HIDE DEF s
<1>4. /\ StopNow(n, o) \in Drive /\ SameNode(StopNow(n, o), s)
      /\ StopNow(n, o).wheel = s.wheel /\ StopNow(n, o).frame = s.frame
  BY <1>1, <1>2, <1>3, SentFacts
<1>5. ASSUME Confirmed(o), NEW w \in Wheels
      PROVE  ~s.wheel[w] /\ s.frame[w] = "zero"
  <2>1. w \in o.ok
    BY <1>5 DEF Confirmed
  <2> QED
    BY <1>1, <2>1
<1>6. SameNode(StopNow(n, o), n)
  BY <1>1, <1>4 DEF SameNode
<1> QED
  BY <1>1, <1>4, <1>5, <1>6

\* Rearm::reset touches the rearm state only.
LEMMA DisarmFacts ==
    ASSUME NEW n \in Drive
    PROVE  LET r == Disarm(n) IN
           /\ r \in Drive /\ r.needsNeutral
           /\ r.ready = n.ready /\ r.stopFault = n.stopFault /\ r.lastBlock = n.lastBlock
           /\ r.hasTarget = n.hasTarget /\ r.pending = n.pending /\ r.cmdAge = n.cmdAge
           /\ r.wheel = n.wheel /\ r.frame = n.frame /\ r.broke = n.broke /\ r.owed = n.owed
           /\ r.target = n.target /\ r.rolling = n.rolling
           /\ r.held = n.held /\ r.setBack = n.setBack
BY DEF Disarm, Drive

\* resetCommandState leaves the motors and the gate alone.
LEMMA ResetFacts ==
    ASSUME NEW n \in Drive
    PROVE  LET r == ResetCommandState(n) IN
           /\ r \in Drive
           /\ ~r.hasTarget /\ ~r.pending /\ r.needsNeutral
           /\ r.ready = n.ready /\ r.stopFault = n.stopFault /\ r.lastBlock = n.lastBlock
           /\ r.wheel = n.wheel /\ r.frame = n.frame /\ r.broke = n.broke
<1> DEFINE q == Disarm(n)
           ow == q.owed \cup {"stop"}
<1>1. /\ q \in Drive /\ q.needsNeutral
      /\ q.ready = n.ready /\ q.stopFault = n.stopFault /\ q.lastBlock = n.lastBlock
      /\ q.wheel = n.wheel /\ q.frame = n.frame /\ q.broke = n.broke
  BY DisarmFacts
<1>2. ResetCommandState(n) =
        [q EXCEPT !.pending = FALSE, !.hasTarget = FALSE, !.target = FALSE,
                  !.rolling = FALSE, !.cmdAge = 0, !.held = 0, !.setBack = 0, !.owed = ow]
  BY DEF ResetCommandState
<1> HIDE DEF q
<1>3. ow \in SUBSET Debts
  BY <1>1 DEF Drive, Debts
<1> HIDE DEF ow
<1>4. 0 \in (-ClockBack)..MaxAge /\ 0 \in 0..MaxAge /\ 0 \in 0..ClockBack
  BY DriveAssumption DEF MaxAge
<1>5. ResetCommandState(n) \in Drive
  <2> DEFINE q1 == [q EXCEPT !.pending = FALSE, !.hasTarget = FALSE, !.target = FALSE]
  <2>1. q1 \in Drive
    BY <1>1 DEF Drive
  <2>2. ResetCommandState(n) =
           [q1 EXCEPT !.rolling = FALSE, !.cmdAge = 0, !.held = 0, !.setBack = 0,
                      !.owed = ow]
    BY <1>1, <1>2 DEF Drive
  <2> HIDE DEF q1
  <2> QED
    BY <2>1, <2>2, <1>3, <1>4 DEF Drive
<1>6. LET r == ResetCommandState(n) IN
      /\ r.hasTarget = FALSE /\ r.pending = FALSE /\ r.needsNeutral = q.needsNeutral
      /\ r.ready = q.ready /\ r.stopFault = q.stopFault /\ r.lastBlock = q.lastBlock
      /\ r.wheel = q.wheel /\ r.frame = q.frame /\ r.broke = q.broke
  BY <1>1, <1>2 DEF Drive
<1> QED
  BY <1>1, <1>5, <1>6

\* safetyStop: afterwards nothing is armed, and the wheels stand or the fault is
\* known.  Nothing is assumed of the node before, except what it already drove.
LEMMA SafetyStopFacts ==
    ASSUME NEW n \in Drive, flaky \in BOOLEAN, NEW m \in SafetyStop(n),
           n.broke \cap {"stop", "overdue"} = {}
    PROVE  /\ m \in Drive /\ NodeInv(m) /\ Halted(m) /\ ~m.hasTarget /\ ~m.pending
           /\ m.lastBlock = n.lastBlock /\ m.ready = n.ready
           /\ n.stopFault => m.stopFault
           /\ StartsNone(n, m)
           /\ Zeroed(n) /\ ~m.stopFault => Zeroed(m)
<1> DEFINE r == ResetCommandState(n)
<1>1. /\ r \in Drive /\ ~r.hasTarget /\ ~r.pending /\ r.needsNeutral
      /\ r.ready = n.ready /\ r.stopFault = n.stopFault /\ r.lastBlock = n.lastBlock
      /\ r.broke = n.broke /\ r.wheel = n.wheel /\ r.frame = n.frame
  BY ResetFacts
<1>0. SafetyStop(n) =
         IF ~r.ready THEN {r}
         ELSE { [StopNow(r, o) EXCEPT !.stopFault = @ \/ ~Confirmed(o), !.stopAge = 0] :
                o \in Outcomes(flaky) }
  BY DEF SafetyStop
<1> HIDE DEF r
<1>2. CASE ~r.ready
  <2>1. m = r
    BY <1>0, <1>2
  <2>2. Halted(r)
    BY <1>2 DEF Halted
  <2>3. NodeInv(r)
    BY <1>1, <2>2 DEF NodeInv
  <2>4. StartsNone(n, r) /\ (Zeroed(n) => Zeroed(r))
    BY <1>1 DEF StartsNone, Zeroed
  <2> QED
    BY <1>1, <2>1, <2>2, <2>3, <2>4
<1>3. CASE r.ready
  <2>1. PICK o \in Outcomes(flaky) :
           m = [StopNow(r, o) EXCEPT !.stopFault = @ \/ ~Confirmed(o), !.stopAge = 0]
    BY <1>0, <1>3
  <2> DEFINE s == StopNow(r, o)
             sf == s.stopFault \/ ~Confirmed(o)
  <2>2. /\ s \in Drive /\ SameNode(s, r)
        /\ Confirmed(o) => \A w \in Wheels : ~s.wheel[w] /\ s.frame[w] = "zero"
        /\ \A w \in Wheels : ~r.wheel[w] => ~s.wheel[w]
    BY <1>1, StopNowFacts
  <2>3. m = [s EXCEPT !.stopFault = sf, !.stopAge = 0]
    BY <2>1
  <2>a. sf \in BOOLEAN /\ (sf <=> s.stopFault \/ ~Confirmed(o))
    OBVIOUS
  <2> HIDE DEF s, sf
  <2>4. 0 \in 0..StopRetry
    BY DriveAssumption
  <2>5. /\ m \in Drive /\ m.stopFault = sf
        /\ m.wheel = s.wheel /\ m.frame = s.frame /\ m.ready = s.ready
        /\ m.lastBlock = s.lastBlock /\ m.hasTarget = s.hasTarget /\ m.pending = s.pending
        /\ m.needsNeutral = s.needsNeutral /\ m.broke = s.broke
    BY <2>2, <2>3, <2>4, <2>a DEF Drive
  <2>6. Halted(m)
    <3>1. ~m.stopFault => Confirmed(o)
      BY <2>5, <2>a
    <3> QED
      BY <2>2, <2>5, <3>1 DEF Halted
  <2>7. /\ m.hasTarget = r.hasTarget /\ m.pending = r.pending
        /\ m.needsNeutral = r.needsNeutral /\ m.broke = r.broke
        /\ m.lastBlock = r.lastBlock /\ m.ready = r.ready /\ s.stopFault = r.stopFault
    BY <2>2, <2>5 DEF SameNode
  <2>8. n.stopFault => m.stopFault
    BY <1>1, <2>5, <2>7, <2>a
  <2>9. NodeInv(m)
    BY <1>1, <2>5, <2>6, <2>7 DEF NodeInv
  <2>10. StartsNone(n, m)
    BY <1>1, <2>2, <2>5 DEF StartsNone
  <2>11. ~m.stopFault => Zeroed(m)
    <3>1. ~m.stopFault => Confirmed(o)
      BY <2>5, <2>a
    <3> QED
      BY <2>2, <2>5, <3>1 DEF Zeroed
  <2> QED
    BY <1>1, <2>5, <2>6, <2>7, <2>8, <2>9, <2>10, <2>11
<1> QED
  BY <1>2, <1>3

\* Evaluate yields a reason of the list.
LEMMA EvaluateType ==
    ASSUME NEW f \in BOOLEAN, NEW e \in EstopMonitor, NEW p \in PermissionMonitor
    PROVE  Evaluate(f, e, p) \in Blocks
<1>1. EvaluateEstop(e) \in Blocks
  BY DEF EvaluateEstop, Blocks, EstopMonitor
<1>2. EvaluatePermission(p) \in Blocks
  BY GateAssumption DEF EvaluatePermission, Blocks, PermissionMonitor
<1> QED
  BY <1>1, <1>2 DEF Evaluate, Blocks

\* Without a new message the gate can only close.
LEMMA AgeingCloses ==
    ASSUME NEW f \in BOOLEAN, NEW e \in EstopMonitor, NEW p \in PermissionMonitor,
           Evaluate(f, Older(e, EstopTimeout), Older(p, PermissionLease)) = "none"
    PROVE  Evaluate(f, e, p) = "none"
<1> DEFINE e2 == Older(e, EstopTimeout)
           p2 == Older(p, PermissionLease)
<1>1. /\ e2.known = e.known /\ e2.active = e.active
      /\ e.age \in Nat /\ e2.age \in Nat /\ e.age <= e2.age
  BY GateAssumption DEF Older, EstopMonitor
<1>2. /\ p2.known = p.known /\ p2.allowed = p.allowed
      /\ p.age \in Nat /\ p2.age \in Nat /\ p.age <= p2.age
  BY GateAssumption DEF Older, PermissionMonitor
<1>3. ~f /\ EvaluateEstop(e2) = "none" /\ EvaluatePermission(p2) = "none"
  BY DEF Evaluate
<1> HIDE DEF e2, p2
<1>4. EvaluateEstop(e) = "none"
  BY <1>1, <1>3, GateAssumption DEF EvaluateEstop, EstopMonitor
<1>5. EvaluatePermission(p) = "none"
  BY <1>2, <1>3, GateAssumption DEF EvaluatePermission, PermissionMonitor
<1> QED
  BY <1>3, <1>4, <1>5 DEF Evaluate

\* The monitors keep their types as time passes.
LEMMA OlderType ==
    ASSUME NEW e \in EstopMonitor, NEW p \in PermissionMonitor
    PROVE  /\ Older(e, EstopTimeout) \in EstopMonitor
           /\ Older(p, PermissionLease) \in PermissionMonitor
<1>1. Older(e, EstopTimeout) \in EstopMonitor
  BY GateAssumption DEF Older, EstopMonitor
<1>2. Older(p, PermissionLease) \in PermissionMonitor
  BY GateAssumption DEF Older, PermissionMonitor
<1> QED
  BY <1>1, <1>2

\* applyGate: whatever the node knew before, afterwards it knows its gate, and a
\* closed one has disarmed and stopped it.
LEMMA ApplyGateFacts ==
    ASSUME NEW n \in Drive, flaky \in BOOLEAN,
           NEW e \in EstopMonitor, NEW p \in PermissionMonitor, NEW sn \in BOOLEAN,
           NodeInv(n), sn => ~n.hasTarget /\ ~n.pending /\ Halted(n),
           NEW m \in ApplyGate(n, e, p, sn)
    PROVE  /\ m \in Drive /\ NodeInv(m) /\ OpenKnown(m, e, p)
           /\ n.stopFault => m.stopFault
           /\ StartsNone(n, m)
           /\ Zeroed(n) /\ ~m.stopFault => Zeroed(m)
           /\ ~n.hasTarget /\ ~n.pending => ~m.hasTarget /\ ~m.pending
           /\ m.hasTarget /\ m.lastBlock = "none" => Evaluate(m.stopFault, e, p) = "none"
<1> DEFINE block == Evaluate(n.stopFault, e, p)
           ow == IF block = "none" THEN n.owed ELSE n.owed \cup {"closed"}
           seen == [n EXCEPT !.lastBlock = block, !.owed = ow]
<1>1. n.stopFault \in BOOLEAN
  BY DEF Drive
<1>2. block \in Blocks
  BY <1>1, EvaluateType
<1>3. /\ ow \in SUBSET Debts /\ ("stop" \in ow => "stop" \in n.owed)
      /\ "overdue" \in ow => "overdue" \in n.owed
      /\ "closed" \in ow => "closed" \in n.owed \/ block # "none"
  BY DEF Drive, Debts
<1>4. ApplyGate(n, e, p, sn) =
         IF block # "none" /\ ~sn /\ (n.lastBlock = "none" \/ n.hasTarget)
         THEN SafetyStop(seen) ELSE {seen}
  BY DEF ApplyGate
<1>b. block = Evaluate(n.stopFault, e, p)
  OBVIOUS
<1> HIDE DEF block, ow
<1>5. /\ seen \in Drive /\ seen.lastBlock = block /\ seen.owed = ow
      /\ seen.ready = n.ready /\ seen.stopFault = n.stopFault /\ seen.hasTarget = n.hasTarget
      /\ seen.pending = n.pending /\ seen.needsNeutral = n.needsNeutral
      /\ seen.heard = n.heard /\ seen.cmdAge = n.cmdAge /\ seen.broke = n.broke
      /\ seen.held = n.held /\ seen.setBack = n.setBack
      /\ seen.wheel = n.wheel /\ seen.frame = n.frame
  BY <1>2, <1>3 DEF Drive
<1> HIDE DEF seen
<1>6. CASE block # "none" /\ ~sn /\ (n.lastBlock = "none" \/ n.hasTarget)
  <2>1. m \in SafetyStop(seen)
    BY <1>4, <1>6
  <2>2. seen.broke \cap {"stop", "overdue"} = {}
    BY <1>5 DEF NodeInv
  <2>3. /\ m \in Drive /\ NodeInv(m) /\ m.lastBlock = seen.lastBlock
        /\ seen.stopFault => m.stopFault
        /\ StartsNone(seen, m) /\ (Zeroed(seen) /\ ~m.stopFault => Zeroed(m))
        /\ ~m.hasTarget /\ ~m.pending
    BY <1>5, <2>1, <2>2, SafetyStopFacts
  <2>4. OpenKnown(m, e, p)
    <3>1. CASE m.stopFault
      BY <3>1 DEF OpenKnown, Evaluate
    <3>2. CASE ~m.stopFault
      <4>1. ~n.stopFault
        BY <1>5, <2>3, <3>2
      <4>2. Evaluate(m.stopFault, e, p) = block
        BY <1>b, <3>2, <4>1 DEF Evaluate
      <4> QED
        BY <1>6, <4>2 DEF OpenKnown
    <3> QED
      BY <3>1, <3>2
  <2>5. StartsNone(n, m) /\ (Zeroed(n) => Zeroed(seen))
    BY <1>5, <2>3 DEF StartsNone, Zeroed
  <2> QED
    BY <1>5, <2>3, <2>4, <2>5
<1>7. CASE ~(block # "none" /\ ~sn /\ (n.lastBlock = "none" \/ n.hasTarget))
  <2>1. m = seen
    BY <1>4, <1>7
  <2>2. OpenKnown(seen, e, p)
    BY <1>5, <1>b DEF OpenKnown
  <2>3. block # "none" => ~n.hasTarget /\ ~n.pending /\ Halted(n)
    BY <1>7 DEF NodeInv
  <2>4. Halted(n) => Halted(seen)
    BY <1>5 DEF Halted
  <2>5. NodeInv(seen)
    <3>1. seen.lastBlock # "none" => ~seen.hasTarget /\ ~seen.pending /\ Halted(seen)
      BY <1>5, <2>3, <2>4
    <3>2. /\ ~seen.needsNeutral => seen.hasTarget /\ seen.heard
          /\ seen.hasTarget => "stop" \notin seen.owed /\ "overdue" \notin seen.owed
          /\ seen.hasTarget => seen.held <= seen.cmdAge + seen.setBack
      BY <1>3, <1>5 DEF NodeInv
    <3>3. "closed" \in seen.owed => seen.needsNeutral
      BY <1>3, <1>5, <2>3 DEF NodeInv
    <3> QED
      BY <1>5, <3>1, <3>2, <3>3 DEF NodeInv
  <2>6. StartsNone(n, seen) /\ (Zeroed(n) => Zeroed(seen))
    BY <1>5 DEF StartsNone, Zeroed
  <2>7. seen.lastBlock = "none" => Evaluate(seen.stopFault, e, p) = "none"
    BY <1>5, <1>b
  <2> QED
    BY <1>5, <2>1, <2>2, <2>5, <2>6, <2>7
<1> QED
  BY <1>6, <1>7

\* The retry either confirms the zero or keeps the fault; it touches nothing else.
LEMMA RetryStopFacts ==
    ASSUME NEW n \in Drive, flaky \in BOOLEAN, NodeInv(n), NEW m \in RetryStop(n)
    PROVE  /\ m \in Drive /\ NodeInv(m) /\ m.broke = n.broke
           /\ m.hasTarget = n.hasTarget /\ m.pending = n.pending
           /\ StartsNone(n, m)
           /\ n.stopFault /\ ~m.stopFault => Zeroed(m)
<1>1. CASE ~(n.stopFault /\ n.ready /\ n.stopAge >= StopRetry)
  BY <1>1 DEF RetryStop, StartsNone
<1>2. CASE n.stopFault /\ n.ready /\ n.stopAge >= StopRetry
  <2>1. PICK o \in Outcomes(flaky) :
           m = [StopNow(n, o) EXCEPT !.stopAge = 0, !.stopFault = ~Confirmed(o)]
    BY <1>2 DEF RetryStop
  <2> DEFINE s == StopNow(n, o)
             sf == ~Confirmed(o)
  <2>2. /\ s \in Drive /\ SameNode(s, n)
        /\ Confirmed(o) => \A w \in Wheels : ~s.wheel[w] /\ s.frame[w] = "zero"
        /\ \A w \in Wheels : ~n.wheel[w] => ~s.wheel[w]
    BY StopNowFacts
  <2>3. m = [s EXCEPT !.stopAge = 0, !.stopFault = sf]
    BY <2>1
  <2>a. sf \in BOOLEAN /\ (sf <=> ~Confirmed(o))
    OBVIOUS
  <2> HIDE DEF s, sf
  <2>4. 0 \in 0..StopRetry
    BY DriveAssumption
  <2>5. m \in Drive
    BY <2>2, <2>3, <2>4, <2>a DEF Drive
  <2>6. /\ m.stopFault = sf /\ m.wheel = s.wheel /\ m.frame = s.frame /\ m.ready = s.ready
        /\ m.lastBlock = s.lastBlock /\ m.hasTarget = s.hasTarget /\ m.pending = s.pending
        /\ m.needsNeutral = s.needsNeutral /\ m.heard = s.heard /\ m.owed = s.owed
        /\ m.cmdAge = s.cmdAge /\ m.held = s.held /\ m.setBack = s.setBack
        /\ m.broke = s.broke
    BY <2>2, <2>3 DEF Drive
  <2>7. /\ m.lastBlock = n.lastBlock /\ m.hasTarget = n.hasTarget /\ m.pending = n.pending
        /\ m.needsNeutral = n.needsNeutral /\ m.heard = n.heard /\ m.owed = n.owed
        /\ m.cmdAge = n.cmdAge /\ m.held = n.held /\ m.setBack = n.setBack
        /\ m.broke = n.broke
    BY <2>2, <2>6 DEF SameNode
  <2>8. Halted(m)
    <3>1. ~m.stopFault => Confirmed(o)
      BY <2>6, <2>a
    <3> QED
      BY <2>2, <2>6, <3>1 DEF Halted
  <2>9. NodeInv(m)
    BY <1>2, <2>7, <2>8 DEF NodeInv
  <2>10. StartsNone(n, m)
    BY <2>2, <2>6 DEF StartsNone
  <2>11. ~m.stopFault => Zeroed(m)
    <3>1. ~m.stopFault => Confirmed(o)
      BY <2>6, <2>a
    <3> QED
      BY <2>2, <2>6, <3>1 DEF Zeroed
  <2> QED
    BY <2>5, <2>7, <2>9, <2>10, <2>11
<1> QED
  BY <1>1, <1>2

\* A step that clears no stop fault and leaves the gate alone opens no gate unseen.
LEMMA OpenKnownKept ==
    ASSUME NEW n \in Drive, NEW m \in Drive, NEW e, NEW p, OpenKnown(n, e, p),
           m.lastBlock = n.lastBlock, n.stopFault => m.stopFault
    PROVE  OpenKnown(m, e, p)
BY DEF OpenKnown, Evaluate

\* What a node that only sent frames keeps: the rest of it is as before, and its
\* wheels are no less stopped.
LEMMA FramesKeepNode ==
    ASSUME NEW n \in Drive, NEW m \in Drive, NodeInv(n), SameNode(m, n),
           n.lastBlock # "none" => /\ \A w \in Wheels : ~n.wheel[w] => ~m.wheel[w]
                                   /\ m.frame = n.frame
    PROVE  NodeInv(m)
<1>1. n.lastBlock # "none" => Halted(m)
  BY DEF NodeInv, Halted, SameNode
<1> QED
  BY <1>1 DEF NodeInv, SameNode

\* refreshMotorFeedback sends only zeros and forgets none of the frames.
LEMMA RefreshFacts ==
    ASSUME NEW n \in Drive, flaky \in BOOLEAN, NEW to \in SUBSET Wheels,
           NEW o \in Outcomes(flaky)
    PROVE  /\ Refresh(n, to, o) \in Drive /\ SameNode(Refresh(n, to, o), n)
           /\ \A w \in Wheels : ~n.wheel[w] => ~Refresh(n, to, o).wheel[w]
           /\ Refresh(n, to, o).frame = n.frame
<1> DEFINE resent == {w \in to : n.frame[w] = "zero"} \ Held(n)
           s == SendFrames(n, resent, {}, o)
           t == [s EXCEPT !.frame = n.frame]
<1>1. resent \in SUBSET Wheels /\ {} \in SUBSET Wheels
  OBVIOUS
<1>2. Refresh(n, to, o) = Sent(t, resent)
  BY DEF Refresh
<1> HIDE DEF resent
<1>3. /\ s \in Drive /\ SameNode(s, n) /\ \A w \in Wheels : ~n.wheel[w] => ~s.wheel[w]
  BY <1>1, SendFramesFacts
<1> HIDE DEF s
<1>4. t \in Drive /\ t.wheel = s.wheel /\ t.frame = n.frame
  BY <1>3 DEF Drive
<1>5. SameNode(t, n)
  BY <1>3 DEF Drive, SameNode
<1> HIDE DEF t
<1>6. /\ Sent(t, resent) \in Drive /\ SameNode(Sent(t, resent), t)
      /\ Sent(t, resent).wheel = t.wheel /\ Sent(t, resent).frame = t.frame
  BY <1>1, <1>4, SentFacts
<1>7. SameNode(Sent(t, resent), n)
  BY <1>5, <1>6 DEF SameNode
<1> QED
  BY <1>2, <1>3, <1>4, <1>6, <1>7

\* An idle tick leaves the node as it was and starts no wheel.
LEMMA IdleFacts ==
    ASSUME NEW n \in Drive, flaky \in BOOLEAN, NodeInv(n), NEW m \in Idle(n)
    PROVE  /\ m \in Drive /\ NodeInv(m) /\ SameNode(m, n)
           /\ StartsNone(n, m) /\ m.frame = n.frame
<1>1. CASE m = n
  BY <1>1 DEF SameNode, StartsNone
<1>2. CASE \E to \in SUBSET Wheels, o \in Outcomes(flaky) : m = Refresh(n, to, o)
  <2>1. PICK to \in SUBSET Wheels, o \in Outcomes(flaky) : m = Refresh(n, to, o)
    BY <1>2
  <2>2. /\ m \in Drive /\ SameNode(m, n) /\ m.frame = n.frame
        /\ \A w \in Wheels : ~n.wheel[w] => ~m.wheel[w]
    BY <2>1, RefreshFacts
  <2>3. NodeInv(m)
    BY <2>2, FramesKeepNode
  <2> QED
    BY <2>2, <2>3 DEF StartsNone
<1> QED
  BY <1>1, <1>2 DEF Idle

\* commandStop touches the motors only.
LEMMA CommandStopFacts ==
    ASSUME NEW n \in Drive, flaky \in BOOLEAN, NEW o \in Outcomes(flaky)
    PROVE  /\ CommandStop(n, o) \in Drive /\ SameNode(CommandStop(n, o), n)
           /\ \A w \in Wheels : ~n.wheel[w] => ~CommandStop(n, o).wheel[w]
<1> DEFINE to == Wheels \ Held(n)
           ws == o.ok \ Held(n)
           s == SendFrames(n, to, {}, o)
<1>1. to \in SUBSET Wheels /\ {} \in SUBSET Wheels /\ ws \in SUBSET Wheels
  BY DEF Outcomes, Replies
<1>2. CommandStop(n, o) = Sent(s, ws)
  BY DEF CommandStop
<1> HIDE DEF to, ws
<1>3. s \in Drive /\ SameNode(s, n) /\ \A w \in Wheels : ~n.wheel[w] => ~s.wheel[w]
  BY <1>1, SendFramesFacts
<1> HIDE DEF s
<1>4. /\ Sent(s, ws) \in Drive /\ SameNode(Sent(s, ws), s)
      /\ Sent(s, ws).wheel = s.wheel
  BY <1>1, <1>3, SentFacts
<1>5. SameNode(Sent(s, ws), n)
  BY <1>3, <1>4 DEF SameNode
<1> QED
  BY <1>2, <1>3, <1>4, <1>5

\* A command that is not over its limit by now() was not in force any longer than the
\* limit and what the clock was set back.
LEMMA NotOverdue ==
    ASSUME NEW n \in Drive, n.held <= n.cmdAge + n.setBack,
           ~(CmdTimeout > 0 /\ n.cmdAge > CmdTimeout)
    PROVE  ~Overdue(n)
<1>1. n.held \in Int /\ n.cmdAge \in Int /\ n.setBack \in Int
  BY DriveAssumption DEF Drive, MaxAge
<1> QED
  BY <1>1, DriveAssumption DEF Overdue

\* The drive step sends a speed only with nothing due but a closure that only a twist
\* saw.
LEMMA DriveStepFacts ==
    ASSUME NEW n \in Drive, flaky \in BOOLEAN, NodeInv(n), n.lastBlock = "none",
           n.hasTarget, ~TimedOut(n), NEW m \in DriveStep(n)
    PROVE  /\ m \in Drive /\ NodeInv(m)
           /\ m.lastBlock = n.lastBlock /\ m.stopFault = n.stopFault
<1>1. /\ Due(n) \in SUBSET Debts /\ Due(n) \cap {"stop", "overdue"} = {}
      /\ Due(n) = n.owed
  <2>1. "stop" \notin n.owed /\ "overdue" \notin n.owed /\ n.held <= n.cmdAge + n.setBack
    BY DEF NodeInv
  <2>2. ~Overdue(n)
    BY <2>1, NotOverdue DEF TimedOut
  <2> QED
    BY <2>1, <2>2 DEF Due, Drive
<1>2. ASSUME NEW o \in Outcomes(flaky), m = CommandZero(n, o)
      PROVE  m \in Drive /\ NodeInv(m) /\ m.lastBlock = n.lastBlock /\ m.stopFault = n.stopFault
  <2> DEFINE q == [n EXCEPT !.rolling = FALSE]
  <2>1. /\ q \in Drive /\ q.lastBlock = n.lastBlock /\ q.stopFault = n.stopFault
        /\ q.hasTarget = n.hasTarget /\ q.pending = n.pending /\ q.broke = n.broke
        /\ q.needsNeutral = n.needsNeutral /\ q.heard = n.heard /\ q.owed = n.owed
        /\ q.cmdAge = n.cmdAge /\ q.held = n.held /\ q.setBack = n.setBack
    BY DEF Drive
  <2>2. m = CommandStop(q, o)
    BY <1>2 DEF CommandZero
  <2> HIDE DEF q
  <2>3. NodeInv(q)
    BY <2>1 DEF NodeInv
  <2>4. m \in Drive /\ SameNode(m, q)
    BY <2>1, <2>2, CommandStopFacts
  <2>5. NodeInv(m)
    BY <2>1, <2>3, <2>4, FramesKeepNode
  <2> QED
    BY <2>1, <2>4, <2>5 DEF SameNode
<1>3. ASSUME NEW spin \in SUBSET Wheels, NEW o \in Outcomes(flaky),
             m = CommandSpeeds(n, spin, o)
      PROVE  m \in Drive /\ NodeInv(m) /\ m.lastBlock = n.lastBlock /\ m.stopFault = n.stopFault
  <2> DEFINE s == SendFrames(n, Wheels, spin, o)
             br == IF spin = {} THEN {} ELSE Due(n)
  <2>1. s \in Drive /\ SameNode(s, n)
    <3>1. Wheels \in SUBSET Wheels
      OBVIOUS
    <3> QED
      BY <3>1, SendFramesFacts
  <2>2. br \in SUBSET Debts /\ br \cap {"stop", "overdue"} = {}
    BY <1>1
  <2>3. m = [s EXCEPT !.rolling = TRUE, !.broke = br]
    BY <1>3 DEF CommandSpeeds
  <2> HIDE DEF s, br
  <2>4. m \in Drive
    BY <2>1, <2>2, <2>3 DEF Drive
  <2>5. /\ m.lastBlock = s.lastBlock /\ m.stopFault = s.stopFault
        /\ m.hasTarget = s.hasTarget /\ m.pending = s.pending /\ m.broke = br
        /\ m.needsNeutral = s.needsNeutral /\ m.heard = s.heard /\ m.owed = s.owed
        /\ m.cmdAge = s.cmdAge /\ m.held = s.held /\ m.setBack = s.setBack
    BY <2>1, <2>3 DEF Drive
  <2>6. /\ m.lastBlock = n.lastBlock /\ m.stopFault = n.stopFault
        /\ m.hasTarget = n.hasTarget /\ m.pending = n.pending
        /\ m.needsNeutral = n.needsNeutral /\ m.heard = n.heard /\ m.owed = n.owed
        /\ m.cmdAge = n.cmdAge /\ m.held = n.held /\ m.setBack = n.setBack
    BY <2>1, <2>5 DEF SameNode
  <2>7. NodeInv(m)
    BY <2>2, <2>5, <2>6 DEF NodeInv
  <2> QED
    BY <2>4, <2>6, <2>7
<1>4. \/ \E o \in Outcomes(flaky) : m = CommandZero(n, o)
      \/ \E spin \in SUBSET Wheels, o \in Outcomes(flaky) : m = CommandSpeeds(n, spin, o)
  BY DEF DriveStep
<1> QED
  BY <1>2, <1>3, <1>4

\* The tick after the gate: the invariant holds and no stop fault is dropped.
LEMMA AfterGateFacts ==
    ASSUME NEW n \in Drive, flaky \in BOOLEAN, NodeInv(n), NEW m \in AfterGate(n)
    PROVE  /\ m \in Drive /\ NodeInv(m) /\ m.lastBlock = n.lastBlock
           /\ n.stopFault => m.stopFault
           /\ \/ StartsNone(n, m)
              \/ n.hasTarget /\ n.lastBlock = "none" /\ m.stopFault = n.stopFault
           /\ ~n.hasTarget /\ ~n.pending => StartsNone(n, m) /\ m.frame = n.frame
<1> DEFINE r == IF n.ready /\ n.healthy THEN n ELSE Disarm(n)
<1>1. /\ r \in Drive /\ r.lastBlock = n.lastBlock /\ r.stopFault = n.stopFault
      /\ r.hasTarget = n.hasTarget /\ r.ready = n.ready /\ r.broke = n.broke
      /\ r.pending = n.pending /\ r.owed = n.owed /\ r.cmdAge = n.cmdAge
      /\ r.held = n.held /\ r.setBack = n.setBack
      /\ r.wheel = n.wheel /\ r.frame = n.frame
  BY DisarmFacts
<1>2. /\ ~r.needsNeutral => r.hasTarget /\ r.heard
      /\ "closed" \in r.owed => r.needsNeutral
  <2>1. CASE n.ready /\ n.healthy
    BY <2>1 DEF NodeInv
  <2>2. CASE ~(n.ready /\ n.healthy)
    BY <2>2, DisarmFacts
  <2> QED
    BY <2>1, <2>2
<1>3. AfterGate(n) =
        CASE n.pending -> SafetyStop(n)
          [] ~n.pending /\ (~n.hasTarget \/ ~n.ready \/ n.lastBlock # "none") -> Idle(r)
          [] OTHER -> IF TimedOut(r) \/ ~(n.ready /\ n.healthy)
                      THEN SafetyStop(r) ELSE DriveStep(r)
  BY DEF AfterGate
<1>a. r = n \/ ~(n.ready /\ n.healthy)
  OBVIOUS
<1> HIDE DEF r
<1>b. StartsNone(r, m) => StartsNone(n, m)
  BY <1>1 DEF StartsNone
<1>4. NodeInv(r)
  <2>1. r.lastBlock # "none" => Halted(r)
    BY <1>1 DEF NodeInv, Halted
  <2> QED
    BY <1>1, <1>2, <2>1 DEF NodeInv
<1>5. n.broke \cap {"stop", "overdue"} = {} /\ r.broke \cap {"stop", "overdue"} = {}
  BY <1>1 DEF NodeInv
<1>6. CASE n.pending
  <2>1. m \in SafetyStop(n)
    BY <1>3, <1>6
  <2> QED
    BY <1>5, <1>6, <2>1, SafetyStopFacts
<1>7. CASE ~n.pending /\ (~n.hasTarget \/ ~n.ready \/ n.lastBlock # "none")
  <2>1. m \in Idle(r)
    BY <1>3, <1>7
  <2>2. m \in Drive /\ NodeInv(m) /\ SameNode(m, r) /\ StartsNone(r, m) /\ m.frame = r.frame
    BY <1>1, <1>4, <2>1, IdleFacts
  <2> QED
    BY <1>1, <1>b, <2>2 DEF SameNode
<1>8. CASE ~n.pending /\ n.hasTarget /\ n.ready /\ n.lastBlock = "none"
  <2>1. m \in IF TimedOut(r) \/ ~(n.ready /\ n.healthy) THEN SafetyStop(r) ELSE DriveStep(r)
    BY <1>3, <1>8
  <2>2. CASE TimedOut(r) \/ ~(n.ready /\ n.healthy)
    <3>1. m \in SafetyStop(r)
      BY <2>1, <2>2
    <3>2. /\ m \in Drive /\ NodeInv(m) /\ m.lastBlock = r.lastBlock
          /\ r.stopFault => m.stopFault
          /\ StartsNone(r, m)
      BY <1>1, <1>5, <3>1, SafetyStopFacts
    <3> QED
      BY <1>1, <1>8, <1>b, <3>2
  <2>3. CASE ~(TimedOut(r) \/ ~(n.ready /\ n.healthy))
    <3>1. m \in DriveStep(r)
      BY <2>1, <2>3
    <3>2. m \in Drive /\ NodeInv(m) /\ m.lastBlock = r.lastBlock /\ m.stopFault = r.stopFault
      BY <1>1, <1>4, <1>8, <2>3, <3>1, DriveStepFacts
    <3> QED
      BY <1>1, <1>8, <3>2
  <2> QED
    BY <2>2, <2>3
<1>9. n.pending \in BOOLEAN /\ n.hasTarget \in BOOLEAN /\ n.ready \in BOOLEAN
  BY DEF Drive
<1> QED
  BY <1>6, <1>7, <1>8, <1>9

\* A disarmed node keeps its invariant, whatever its history is charged with.
LEMMA DisarmKeeps ==
    ASSUME NEW n \in Drive, NodeInv(n)
    PROVE  NodeInv(Disarm(n))
<1> DEFINE r == Disarm(n)
<1>1. /\ r.needsNeutral
      /\ r.ready = n.ready /\ r.stopFault = n.stopFault /\ r.lastBlock = n.lastBlock
      /\ r.hasTarget = n.hasTarget /\ r.pending = n.pending /\ r.cmdAge = n.cmdAge
      /\ r.wheel = n.wheel /\ r.frame = n.frame /\ r.broke = n.broke /\ r.owed = n.owed
      /\ r.held = n.held /\ r.setBack = n.setBack
  BY DisarmFacts
<1> HIDE DEF r
<1>2. n.lastBlock # "none" => Halted(r)
  BY <1>1 DEF NodeInv, Halted
<1>3. NodeInv(r)
  BY <1>1, <1>2 DEF NodeInv
<1> QED
  BY <1>3 DEF r

\* The twist that finds the gate closed: as Disarm, and the closure is remembered.
LEMMA ClosedTwistFacts ==
    ASSUME NEW n \in Drive, NodeInv(n)
    PROVE  LET m == [Disarm(n) EXCEPT !.owed = @ \cup {"closed"}] IN
           /\ m \in Drive /\ NodeInv(m) /\ m.lastBlock = n.lastBlock
           /\ m.stopFault = n.stopFault /\ m.wheel = n.wheel
<1> DEFINE r == Disarm(n)
           ow == r.owed \cup {"closed"}
           m == [r EXCEPT !.owed = ow]
<1>1. /\ r \in Drive /\ NodeInv(r) /\ r.needsNeutral /\ r.lastBlock = n.lastBlock
      /\ r.stopFault = n.stopFault /\ r.wheel = n.wheel
  BY DisarmFacts, DisarmKeeps
<1>2. ow \in SUBSET Debts /\ ("stop" \in ow => "stop" \in r.owed)
      /\ ("overdue" \in ow => "overdue" \in r.owed)
  BY <1>1 DEF Drive, Debts
<1> HIDE DEF r, ow
<1>3. m \in Drive
  BY <1>1, <1>2 DEF Drive
<1>4. /\ m.owed = ow /\ m.needsNeutral = r.needsNeutral /\ m.heard = r.heard
      /\ m.ready = r.ready /\ m.stopFault = r.stopFault /\ m.lastBlock = r.lastBlock
      /\ m.hasTarget = r.hasTarget /\ m.pending = r.pending /\ m.cmdAge = r.cmdAge
      /\ m.held = r.held /\ m.setBack = r.setBack
      /\ m.wheel = r.wheel /\ m.frame = r.frame /\ m.broke = r.broke
  BY <1>1 DEF Drive
<1> HIDE DEF m
<1>5. r.lastBlock # "none" => Halted(m)
  BY <1>1, <1>4 DEF NodeInv, Halted
<1>6. NodeInv(m)
  BY <1>1, <1>2, <1>4, <1>5 DEF NodeInv
<1>7. /\ m \in Drive /\ NodeInv(m) /\ m.lastBlock = n.lastBlock
      /\ m.stopFault = n.stopFault /\ m.wheel = n.wheel
  BY <1>1, <1>3, <1>4, <1>6
<1> QED
  BY <1>7 DEF m, ow, r

\* A command that Rearm lets through: armed, with a debt it was told to keep.
LEMMA AcceptFacts ==
    ASSUME NEW n \in Drive, NodeInv(n), n.lastBlock = "none", ~n.stopFault,
           NEW moves \in BOOLEAN, NEW ow \in SUBSET Debts,
           ow \cap Debts = {}
    PROVE  LET m == Accept(n, moves, ow) IN
           /\ m \in Drive /\ NodeInv(m) /\ m.lastBlock = n.lastBlock
           /\ m.stopFault = n.stopFault /\ m.wheel = n.wheel
<1> DEFINE m == Accept(n, moves, ow)
<1>1. 0 \in (-ClockBack)..MaxAge /\ 0 \in 0..MaxAge /\ 0 \in 0..ClockBack
  BY DriveAssumption DEF MaxAge
<1>2. m \in Drive
  <2> DEFINE q == [n EXCEPT !.needsNeutral = FALSE, !.heard = TRUE, !.hasTarget = TRUE]
  <2>1. q \in Drive
    BY DEF Drive
  <2>2. m = [q EXCEPT !.target = moves, !.cmdAge = 0, !.held = 0, !.setBack = 0, !.owed = ow]
    BY DEF Accept, Drive
  <2> HIDE DEF q, m
  <2> QED
    BY <1>1, <2>1, <2>2 DEF Drive
<1>3. /\ m.lastBlock = n.lastBlock /\ m.stopFault = n.stopFault /\ m.broke = n.broke
      /\ m.owed = ow /\ m.hasTarget = TRUE /\ m.heard = TRUE /\ m.wheel = n.wheel
      /\ m.held = 0 /\ m.cmdAge = 0 /\ m.setBack = 0
  BY DEF Accept, Drive
<1> HIDE DEF m
<1>4. NodeInv(m)
  <2>1. m.held <= m.cmdAge + m.setBack
    BY <1>3
  <2>2. "stop" \notin ow /\ "overdue" \notin ow /\ "closed" \notin ow
    BY DEF Debts
  <2> QED
    BY <1>3, <2>1, <2>2 DEF NodeInv
<1>5. /\ m \in Drive /\ NodeInv(m) /\ m.lastBlock = n.lastBlock
      /\ m.stopFault = n.stopFault /\ m.wheel = n.wheel
  BY <1>2, <1>3, <1>4
<1> QED
  BY <1>5 DEF m

\* Rearm::command, while the gate is open.
LEMMA CommandFacts ==
    ASSUME NEW n \in Drive, NodeInv(n), n.lastBlock = "none", ~n.stopFault,
           NEW twist \in Twists, NEW m, m = Command(n, twist)
    PROVE  /\ m \in Drive /\ NodeInv(m) /\ m.lastBlock = n.lastBlock
           /\ m.stopFault = n.stopFault /\ m.wheel = n.wheel
<1>0. n.owed \in SUBSET Debts
  BY DEF Drive
<1>1. CASE ~(n.ready /\ n.healthy)
  <2>1. m = Disarm(n)
    BY <1>1 DEF Command
  <2>2. /\ Disarm(n) \in Drive /\ Disarm(n).lastBlock = n.lastBlock
        /\ Disarm(n).stopFault = n.stopFault /\ Disarm(n).wheel = n.wheel
    BY DisarmFacts
  <2> QED
    BY <2>1, <2>2, DisarmKeeps
<1>2. CASE n.ready /\ n.healthy /\ Expired(n)
  <2>1. m = [n EXCEPT !.needsNeutral = TRUE, !.pending = TRUE]
    BY <1>2 DEF Command
  <2>2. m \in Drive
    BY <2>1 DEF Drive
  <2>3. /\ m.needsNeutral = TRUE /\ m.lastBlock = n.lastBlock /\ m.stopFault = n.stopFault
        /\ m.hasTarget = n.hasTarget /\ m.cmdAge = n.cmdAge /\ m.owed = n.owed
        /\ m.held = n.held /\ m.setBack = n.setBack
        /\ m.broke = n.broke /\ m.wheel = n.wheel
    BY <2>1 DEF Drive
  <2>4. NodeInv(m)
    BY <2>3 DEF NodeInv
  <2> QED
    BY <2>2, <2>3, <2>4
<1>3. CASE n.ready /\ n.healthy /\ ~Expired(n) /\ twist = "invalid"
  <2>1. m = n
    BY <1>3 DEF Command
  <2> QED
    BY <2>1
<1>4. CASE n.ready /\ n.healthy /\ ~Expired(n) /\ twist # "invalid"
  <2>1. m = IF ~n.needsNeutral THEN Accept(n, twist # "zero", Due(n))
            ELSE IF twist = "move" THEN n ELSE Accept(n, FALSE, {})
    BY <1>4 DEF Command
  <2>2. CASE ~n.needsNeutral
    <3>1. /\ "stop" \notin n.owed /\ "overdue" \notin n.owed /\ "closed" \notin n.owed
          /\ n.heard /\ n.held <= n.cmdAge + n.setBack
      BY <2>2 DEF NodeInv
    <3>2. Due(n) \in SUBSET Debts /\ Due(n) \cap Debts = {}
      <4>1. ~Overdue(n)
        BY <1>4, <3>1, NotOverdue DEF Expired
      <4>2. Due(n) = n.owed
        BY <4>1 DEF Due
      <4> QED
        BY <1>0, <3>1, <4>2 DEF Debts
    <3>3. (twist # "zero") \in BOOLEAN
      OBVIOUS
    <3>4. LET k == Accept(n, twist # "zero", Due(n)) IN
          /\ k \in Drive /\ NodeInv(k) /\ k.lastBlock = n.lastBlock
          /\ k.stopFault = n.stopFault /\ k.wheel = n.wheel
      BY <1>0, <3>1, <3>2, <3>3, AcceptFacts
    <3>5. m = Accept(n, twist # "zero", Due(n))
      BY <2>1, <2>2
    <3> QED
      BY <3>4, <3>5
  <2>3. CASE n.needsNeutral /\ twist = "move"
    BY <2>1, <2>3
  <2>4. CASE n.needsNeutral /\ twist # "move"
    <3>1. LET k == Accept(n, FALSE, {}) IN
          /\ k \in Drive /\ NodeInv(k) /\ k.lastBlock = n.lastBlock
          /\ k.stopFault = n.stopFault /\ k.wheel = n.wheel
      BY AcceptFacts
    <3>2. m = Accept(n, FALSE, {})
      BY <2>1, <2>4
    <3> QED
      BY <3>1, <3>2
  <2> QED
    BY <2>2, <2>3, <2>4
<1> QED
  BY <1>1, <1>2, <1>3, <1>4

-----------------------------------------------------------------------------
\* Closing the library leaves no frame to remember and nothing else changed.
LEMMA ClosedFacts ==
    ASSUME NEW n \in Drive, NEW f \in BOOLEAN, NEW o \in Outcomes(f)
    PROVE  /\ Closed(n, o) \in Drive /\ SameNode(Closed(n, o), n)
           /\ \A w \in Wheels : Closed(n, o).frame[w] = "none"
           /\ \A w \in Wheels : ~n.wheel[w] => ~Closed(n, o).wheel[w]
<1> DEFINE s == SendFrames(n, Wheels, {}, o)
           none == [w \in Wheels |-> "none"]
           no == [w \in Wheels |-> FALSE]
<1>1. s \in Drive /\ SameNode(s, n) /\ \A w \in Wheels : ~n.wheel[w] => ~s.wheel[w]
  <2>1. {} \in SUBSET Wheels /\ Wheels \in SUBSET Wheels
    OBVIOUS
  <2> QED
    BY <2>1, SendFramesFacts
<1>2. none \in [Wheels -> Frames] /\ no \in [Wheels -> BOOLEAN]
      /\ \A w \in Wheels : none[w] = "none"
  BY DEF Frames
<1>3. Closed(n, o) = [s EXCEPT !.frame = none, !.recent = no, !.healthy = TRUE]
  BY DEF Closed
<1> HIDE DEF s, none, no
<1>4. Closed(n, o) \in Drive /\ Closed(n, o).frame = none /\ Closed(n, o).wheel = s.wheel
  BY <1>1, <1>2, <1>3 DEF Drive
<1>5. SameNode(Closed(n, o), s)
  BY <1>1, <1>3 DEF Drive, SameNode
<1>6. SameNode(Closed(n, o), n)
  BY <1>1, <1>5 DEF SameNode
<1> QED
  BY <1>1, <1>2, <1>4, <1>6

\* initializeMotor: each wheel got its zero, or has no frame to remember.
LEMMA PrimeFacts ==
    ASSUME NEW n \in Drive, NEW f \in BOOLEAN, NEW o \in Outcomes(f)
    PROVE  /\ Prime(n, o) \in Drive /\ SameNode(Prime(n, o), n)
           /\ \A w \in Wheels : ~Prime(n, o).wheel[w] \/ Prime(n, o).frame[w] = "none"
           /\ \A w \in Wheels : ~n.wheel[w] => ~Prime(n, o).wheel[w]
<1> DEFINE none == [w \in Wheels |-> "none"]
           no == [w \in Wheels |-> FALSE]
           q == [n EXCEPT !.frame = none, !.healthy = TRUE, !.recent = no]
           s == SendFrames(q, Wheels, {}, o)
<1>2. none \in [Wheels -> Frames] /\ no \in [Wheels -> BOOLEAN]
      /\ \A w \in Wheels : none[w] = "none"
  BY DEF Frames
<1>3. Prime(n, o) = s
  BY DEF Prime
<1> HIDE DEF none, no
<1>4. q \in Drive /\ q.frame = none /\ q.wheel = n.wheel
  BY <1>2 DEF Drive
<1>5. SameNode(q, n)
  BY DEF Drive, SameNode
<1> HIDE DEF q
<1>6. /\ s \in Drive /\ SameNode(s, q)
      /\ \A w \in Wheels :
            /\ w \in o.ok => ~s.wheel[w]
            /\ ~q.wheel[w] => ~s.wheel[w]
            /\ s.frame[w] = IF w \in Wheels \cap o.ok
                            THEN IF w \in {} THEN "drive" ELSE "zero" ELSE q.frame[w]
  <2>1. {} \in SUBSET Wheels /\ Wheels \in SUBSET Wheels
    OBVIOUS
  <2>2. q \in Drive
    BY <1>4
  <2>3. /\ SendFrames(q, Wheels, {}, o) \in Drive /\ SameNode(SendFrames(q, Wheels, {}, o), q)
        /\ \A w \in Wheels :
              /\ w \in Wheels /\ w \in o.ok /\ w \notin {}
                     => ~SendFrames(q, Wheels, {}, o).wheel[w]
              /\ ~q.wheel[w] /\ w \notin {} => ~SendFrames(q, Wheels, {}, o).wheel[w]
              /\ SendFrames(q, Wheels, {}, o).frame[w] =
                     IF w \in Wheels \cap o.ok
                     THEN IF w \in {} THEN "drive" ELSE "zero" ELSE q.frame[w]
    BY <2>1, <2>2, SendFramesFacts
  <2> QED
    BY <2>3
<1> HIDE DEF s
<1>7. ASSUME NEW w \in Wheels PROVE ~s.wheel[w] \/ s.frame[w] = "none"
  <2>1. CASE w \in o.ok
    BY <1>6, <2>1
  <2>2. CASE w \notin o.ok
    <3>1. s.frame[w] = q.frame[w]
      BY <1>6, <2>2
    <3> QED
      BY <1>2, <1>4, <3>1
  <2> QED
    BY <2>1, <2>2
<1>8. SameNode(s, n)
  BY <1>5, <1>6 DEF SameNode
<1> QED
  BY <1>3, <1>4, <1>6, <1>7, <1>8

\* shutdownMotorLib: the node is not ready afterwards, the rest is kept.
LEMMA ShutdownFacts ==
    ASSUME NEW n \in Drive, flaky \in BOOLEAN, NodeInv(n), NEW m \in ShutdownMotorLib(n)
    PROVE  /\ m \in Drive /\ NodeInv(m)
           /\ m.lastBlock = n.lastBlock /\ m.stopFault = n.stopFault
           /\ StartsNone(n, m)
<1>1. CASE ~n.ready
  BY <1>1 DEF ShutdownMotorLib, StartsNone
<1>2. CASE n.ready
  <2>1. PICK o \in Outcomes(flaky) :
           m = [Closed(n, o) EXCEPT !.ready = FALSE, !.rolling = FALSE]
    BY <1>2 DEF ShutdownMotorLib
  <2> DEFINE s == Closed(n, o)
  <2>2. s \in Drive /\ SameNode(s, n) /\ StartsNone(n, s)
    BY ClosedFacts DEF StartsNone
  <2>3. m = [s EXCEPT !.ready = FALSE, !.rolling = FALSE]
    BY <2>1
  <2> HIDE DEF s
  <2>4. m \in Drive /\ m.ready = FALSE /\ m.wheel = s.wheel
    BY <2>2, <2>3 DEF Drive
  <2>5. /\ m.lastBlock = s.lastBlock /\ m.stopFault = s.stopFault
        /\ m.hasTarget = s.hasTarget /\ m.pending = s.pending /\ m.needsNeutral = s.needsNeutral
        /\ m.heard = s.heard /\ m.owed = s.owed /\ m.cmdAge = s.cmdAge /\ m.broke = s.broke
        /\ m.held = s.held /\ m.setBack = s.setBack
    BY <2>2, <2>3 DEF Drive
  <2>6. /\ m.lastBlock = n.lastBlock /\ m.stopFault = n.stopFault
        /\ m.hasTarget = n.hasTarget /\ m.pending = n.pending /\ m.needsNeutral = n.needsNeutral
        /\ m.heard = n.heard /\ m.owed = n.owed /\ m.cmdAge = n.cmdAge /\ m.broke = n.broke
        /\ m.held = n.held /\ m.setBack = n.setBack
    BY <2>2, <2>5 DEF SameNode
  <2>7. Halted(m)
    BY <2>4 DEF Halted
  <2>8. NodeInv(m)
    BY <2>6, <2>7 DEF NodeInv
  <2>9. StartsNone(n, m)
    BY <2>2, <2>4 DEF StartsNone
  <2> QED
    BY <2>4, <2>6, <2>8, <2>9
<1> QED
  BY <1>1, <1>2

\* on_configure with both wheels primed: a gate that is closed finds them stopped
\* or never reached.
LEMMA ConfiguredFacts ==
    ASSUME NEW n \in Drive, flaky \in BOOLEAN, NodeInv(n), NEW m \in Configured(n)
    PROVE  /\ m \in Drive /\ NodeInv(m)
           /\ m.lastBlock = n.lastBlock /\ m.stopFault = n.stopFault
           /\ StartsNone(n, m)
<1>1. PICK o \in Outcomes(flaky) :
         m = [Prime(n, o) EXCEPT !.ready = TRUE, !.rolling = FALSE]
  BY DEF Configured
<1> DEFINE s == Prime(n, o)
<1>2. /\ s \in Drive /\ SameNode(s, n)
      /\ \A w \in Wheels : ~s.wheel[w] \/ s.frame[w] = "none"
      /\ \A w \in Wheels : ~n.wheel[w] => ~s.wheel[w]
  BY PrimeFacts
<1>3. m = [s EXCEPT !.ready = TRUE, !.rolling = FALSE]
  BY <1>1
<1> HIDE DEF s
<1>4. m \in Drive /\ m.wheel = s.wheel /\ m.frame = s.frame
  BY <1>2, <1>3 DEF Drive
<1>5. /\ m.lastBlock = s.lastBlock /\ m.stopFault = s.stopFault
      /\ m.hasTarget = s.hasTarget /\ m.pending = s.pending /\ m.needsNeutral = s.needsNeutral
      /\ m.heard = s.heard /\ m.owed = s.owed /\ m.cmdAge = s.cmdAge /\ m.broke = s.broke
      /\ m.held = s.held /\ m.setBack = s.setBack
  BY <1>2, <1>3 DEF Drive
<1>6. /\ m.lastBlock = n.lastBlock /\ m.stopFault = n.stopFault
      /\ m.hasTarget = n.hasTarget /\ m.pending = n.pending /\ m.needsNeutral = n.needsNeutral
      /\ m.heard = n.heard /\ m.owed = n.owed /\ m.cmdAge = n.cmdAge /\ m.broke = n.broke
      /\ m.held = n.held /\ m.setBack = n.setBack
  BY <1>2, <1>5 DEF SameNode
<1>7. Halted(m)
  BY <1>2, <1>4 DEF Halted
<1>8. NodeInv(m)
  BY <1>6, <1>7 DEF NodeInv
<1>9. StartsNone(n, m)
  BY <1>2, <1>4 DEF StartsNone
<1> QED
  BY <1>4, <1>6, <1>8, <1>9

\* on_configure that failed after it had opened the bus.
LEMMA UnconfiguredFacts ==
    ASSUME NEW n \in Drive, NodeInv(n), NEW m \in Unconfigured(n)
    PROVE  /\ m \in Drive /\ NodeInv(m)
           /\ m.lastBlock = n.lastBlock /\ m.stopFault = n.stopFault
           /\ StartsNone(n, m)
<1>1. PICK o \in Outcomes(TRUE) : m = Closed(n, o)
  BY DEF Unconfigured
<1>2. /\ m \in Drive /\ SameNode(m, n) /\ \A w \in Wheels : m.frame[w] = "none"
      /\ \A w \in Wheels : ~n.wheel[w] => ~m.wheel[w]
  BY <1>1, ClosedFacts
<1>3. n.lastBlock # "none" => Halted(m)
  BY <1>2 DEF NodeInv, Halted, SameNode
<1>4. NodeInv(m)
  BY <1>2, <1>3 DEF NodeInv, SameNode
<1> QED
  BY <1>2, <1>4 DEF SameNode, StartsNone

\* on_activate.
LEMMA ResetKeeps ==
    ASSUME NEW n \in Drive, NodeInv(n)
    PROVE  /\ ResetCommandState(n) \in Drive /\ NodeInv(ResetCommandState(n))
           /\ ResetCommandState(n).lastBlock = n.lastBlock
           /\ ResetCommandState(n).stopFault = n.stopFault
           /\ ResetCommandState(n).wheel = n.wheel
<1> DEFINE r == ResetCommandState(n)
<1>1. /\ r \in Drive /\ ~r.hasTarget /\ ~r.pending /\ r.needsNeutral
      /\ r.ready = n.ready /\ r.stopFault = n.stopFault /\ r.lastBlock = n.lastBlock
      /\ r.wheel = n.wheel /\ r.frame = n.frame /\ r.broke = n.broke
  BY ResetFacts
<1> HIDE DEF r
<1>2. r.lastBlock # "none" => Halted(r)
  BY <1>1 DEF NodeInv, Halted
<1>3. NodeInv(r)
  BY <1>1, <1>2 DEF NodeInv
<1> QED
  BY <1>1, <1>3 DEF r

-----------------------------------------------------------------------------
\* A node that has just started, or started again after a crash.
LEMMA NewDriveFacts ==
    ASSUME NEW wheel \in [Wheels -> BOOLEAN]
    PROVE  /\ NewDrive(wheel) \in Drive /\ NodeInv(NewDrive(wheel))
           /\ OpenKnown(NewDrive(wheel), NewEstopMonitor, NewPermissionMonitor)
           /\ NewEstopMonitor \in EstopMonitor /\ NewPermissionMonitor \in PermissionMonitor
           /\ NewDrive(wheel).wheel = wheel /\ ~NewDrive(wheel).ready
<1> DEFINE block == Evaluate(FALSE, NewEstopMonitor, NewPermissionMonitor)
           none == [w \in Wheels |-> "none"]
           no == [w \in Wheels |-> FALSE]
           n == NewDrive(wheel)
<1>1. NewEstopMonitor \in EstopMonitor /\ NewPermissionMonitor \in PermissionMonitor
  BY GateAssumption DEF NewEstopMonitor, EstopMonitor, NewPermissionMonitor, PermissionMonitor
<1>2. block \in Blocks
  BY <1>1, EvaluateType
<1>3. none \in [Wheels -> Frames] /\ no \in [Wheels -> BOOLEAN]
  BY DEF Frames
<1>4. n = [ ready |-> FALSE, stopFault |-> FALSE, stopAge |-> 0, lastBlock |-> block,
            hasTarget |-> FALSE, target |-> FALSE, cmdAge |-> 0, held |-> 0, setBack |-> 0,
            needsNeutral |-> TRUE, heard |-> FALSE, pending |-> FALSE, rolling |-> FALSE,
            owed |-> {"stop"}, broke |-> {}, wheel |-> wheel, frame |-> none,
            recent |-> no, healthy |-> TRUE ]
  BY DEF NewDrive
<1>5. /\ 0 \in 0..StopRetry /\ 0 \in (-ClockBack)..MaxAge /\ 0 \in 0..MaxAge
      /\ 0 \in 0..ClockBack
      /\ {"stop"} \in SUBSET Debts /\ {} \in SUBSET Debts
  BY DriveAssumption DEF Debts, MaxAge
<1>6. OpenKnown(n, NewEstopMonitor, NewPermissionMonitor)
  BY DEF OpenKnown, NewDrive
<1> HIDE DEF block, none, no, n
<1>7. n \in Drive
  BY <1>2, <1>3, <1>4, <1>5 DEF Drive
<1>8. /\ n.ready = FALSE /\ n.hasTarget = FALSE /\ n.pending = FALSE
      /\ n.needsNeutral = TRUE /\ n.broke = {} /\ n.stopFault = FALSE /\ n.wheel = wheel
  BY <1>4
<1>9. Halted(n)
  BY <1>8 DEF Halted
<1>10. NodeInv(n)
  BY <1>8, <1>9 DEF NodeInv
<1> QED
  BY <1>1, <1>6, <1>7, <1>8, <1>10 DEF n

\* The whole tick: the retry, the gate, then idling, stopping or driving.
LEMMA TickFacts ==
    ASSUME TypeOK, NodeInv(d), NEW m, RunControlTick(d, m)
    PROVE  /\ m \in Drive /\ NodeInv(m) /\ OpenKnown(m, estop, perm)
           /\ d.stopFault /\ ~m.stopFault => Zeroed(m)
           /\ \A w \in Wheels : ~d.wheel[w] /\ m.wheel[w] =>
                 ~m.stopFault /\ Evaluate(FALSE, estop, perm) = "none"
<1> DEFINE n == [d EXCEPT !.broke = {}]
<1>1. flaky \in BOOLEAN /\ estop \in EstopMonitor /\ perm \in PermissionMonitor /\ d \in Drive
  BY DEF TypeOK
<1>2. PICK r \in RetryStop(n) :
         \E g \in ApplyGate(r, estop, perm, FALSE) : m \in AfterGate(g)
  BY DEF RunControlTick
<1>3. PICK g \in ApplyGate(r, estop, perm, FALSE) : m \in AfterGate(g)
  BY <1>2
<1>4. /\ n \in Drive /\ n.broke = {} /\ n.lastBlock = d.lastBlock /\ n.stopFault = d.stopFault
      /\ n.hasTarget = d.hasTarget /\ n.pending = d.pending /\ n.needsNeutral = d.needsNeutral
      /\ n.heard = d.heard /\ n.owed = d.owed /\ n.cmdAge = d.cmdAge /\ n.ready = d.ready
      /\ n.held = d.held /\ n.setBack = d.setBack
      /\ n.wheel = d.wheel /\ n.frame = d.frame
  BY <1>1 DEF Drive
<1> HIDE DEF n
<1>5. NodeInv(n)
  <2>1. n.lastBlock # "none" => Halted(n)
    BY <1>4 DEF NodeInv, Halted
  <2> QED
    BY <1>4, <2>1 DEF NodeInv
<1>6. /\ r \in Drive /\ NodeInv(r)
      /\ r.hasTarget = n.hasTarget /\ r.pending = n.pending
      /\ StartsNone(n, r)
      /\ n.stopFault /\ ~r.stopFault => Zeroed(r)
  BY <1>1, <1>2, <1>4, <1>5, RetryStopFacts
<1>7. /\ g \in Drive /\ NodeInv(g) /\ OpenKnown(g, estop, perm)
      /\ r.stopFault => g.stopFault
      /\ StartsNone(r, g)
      /\ Zeroed(r) /\ ~g.stopFault => Zeroed(g)
      /\ ~r.hasTarget /\ ~r.pending => ~g.hasTarget /\ ~g.pending
      /\ g.hasTarget /\ g.lastBlock = "none" => Evaluate(g.stopFault, estop, perm) = "none"
  BY <1>1, <1>3, <1>6, ApplyGateFacts
<1>8. /\ m \in Drive /\ NodeInv(m) /\ m.lastBlock = g.lastBlock
      /\ g.stopFault => m.stopFault
      /\ \/ StartsNone(g, m)
         \/ g.hasTarget /\ g.lastBlock = "none" /\ m.stopFault = g.stopFault
      /\ ~g.hasTarget /\ ~g.pending => StartsNone(g, m) /\ m.frame = g.frame
  BY <1>1, <1>3, <1>7, AfterGateFacts
<1>9. ASSUME d.stopFault, ~m.stopFault PROVE Zeroed(m)
  <2>1. ~r.hasTarget /\ ~r.pending
    BY <1>4, <1>6, <1>9 DEF NodeInv
  <2>2. Zeroed(g) /\ StartsNone(g, m) /\ m.frame = g.frame
    BY <1>4, <1>6, <1>7, <1>8, <1>9, <2>1
  <2> QED
    BY <2>2 DEF Zeroed, StartsNone
<1>10. ASSUME NEW w \in Wheels, ~d.wheel[w], m.wheel[w]
       PROVE  ~m.stopFault /\ Evaluate(FALSE, estop, perm) = "none"
  <2>1. ~g.wheel[w]
    BY <1>4, <1>6, <1>7, <1>10 DEF StartsNone
  <2>2. ~StartsNone(g, m)
    BY <1>10, <2>1 DEF StartsNone
  <2>3. Evaluate(g.stopFault, estop, perm) = "none" /\ m.stopFault = g.stopFault
    BY <1>7, <1>8, <2>2
  <2> QED
    BY <2>3 DEF Evaluate
<1> QED
  BY <1>7, <1>8, <1>9, <1>10, OpenKnownKept

\* A unit of time: the node's clocks move on, and the gate can only close.
LEMMA ElapseFacts ==
    ASSUME TypeOK, NodeInv(d), OpenKnown(d, estop, perm), Elapse
    PROVE  /\ d' \in Drive /\ NodeInv(d') /\ OpenKnown(d', estop', perm')
           /\ d'.wheel = d.wheel /\ d'.stopFault = d.stopFault
<1> DEFINE older(age) == IF d.hasTarget /\ age < MaxAge THEN age + 1 ELSE age
           ca == older(d.cmdAge)
           he == older(d.held)
           sa == IF d.stopFault /\ d.stopAge < StopRetry THEN d.stopAge + 1 ELSE d.stopAge
           no == [w \in Wheels |-> FALSE]
<1>1. /\ d \in Drive /\ estop \in EstopMonitor /\ perm \in PermissionMonitor
      /\ estop' = Older(estop, EstopTimeout) /\ perm' = Older(perm, PermissionLease)
  BY DEF TypeOK, Elapse
<1>2. d' = [d EXCEPT !.cmdAge = ca, !.held = he, !.stopAge = sa, !.recent = no]
  BY DEF Elapse
<1>3. /\ d.cmdAge \in (-ClockBack)..MaxAge /\ d.held \in 0..MaxAge
      /\ d.setBack \in 0..ClockBack /\ d.stopAge \in 0..StopRetry
      /\ MaxAge \in Int /\ ClockBack \in Nat /\ StopRetry \in Nat
  BY <1>1, DriveAssumption DEF Drive, MaxAge
<1>4. ca \in (-ClockBack)..MaxAge /\ he \in 0..MaxAge /\ sa \in 0..StopRetry
  BY <1>3
<1>5. d.hasTarget => he <= ca + d.setBack
  <2>1. d.hasTarget => d.held <= d.cmdAge + d.setBack
    BY DEF NodeInv
  <2> QED
    BY <1>3, <2>1
<1>6. no \in [Wheels -> BOOLEAN]
  OBVIOUS
<1> HIDE DEF ca, he, sa, no
<1>7. d' \in Drive
  BY <1>1, <1>2, <1>4, <1>6 DEF Drive
<1>8. /\ d'.cmdAge = ca /\ d'.held = he /\ d'.setBack = d.setBack /\ d'.owed = d.owed
      /\ d'.lastBlock = d.lastBlock
      /\ d'.stopFault = d.stopFault /\ d'.hasTarget = d.hasTarget /\ d'.pending = d.pending
      /\ d'.needsNeutral = d.needsNeutral /\ d'.heard = d.heard /\ d'.broke = d.broke
      /\ d'.ready = d.ready /\ d'.wheel = d.wheel /\ d'.frame = d.frame
  BY <1>1, <1>2 DEF Drive
<1>9. d'.lastBlock # "none" => Halted(d')
  BY <1>8 DEF NodeInv, Halted
<1>10. NodeInv(d')
  BY <1>5, <1>8, <1>9 DEF NodeInv
<1>11. OpenKnown(d', estop', perm')
  <2>1. d.stopFault \in BOOLEAN
    BY <1>1 DEF Drive
  <2>2. Evaluate(d.stopFault, estop', perm') = "none" => Evaluate(d.stopFault, estop, perm) = "none"
    BY <1>1, <2>1, AgeingCloses
  <2> QED
    BY <1>8, <2>2 DEF OpenKnown
<1> QED
  BY <1>7, <1>8, <1>10, <1>11

\* The clock is set: a command is at most as much older by now() than it really is as
\* the clock was set back.
LEMMA ClockSetFacts ==
    ASSUME TypeOK, NodeInv(d), ClockSet
    PROVE  /\ d' \in Drive /\ NodeInv(d')
           /\ d'.lastBlock = d.lastBlock /\ d'.stopFault = d.stopFault
           /\ d'.wheel = d.wheel
<1> DEFINE ca == d'.cmdAge
           sb == d'.setBack
<1>1. d \in Drive /\ d.hasTarget /\ d.held <= d.cmdAge + d.setBack
  BY DEF TypeOK, ClockSet, NodeInv
<1>2. /\ d.cmdAge \in (-ClockBack)..MaxAge /\ d.held \in 0..MaxAge
      /\ d.setBack \in 0..ClockBack /\ MaxAge \in Int /\ ClockBack \in Nat
  BY <1>1, DriveAssumption DEF Drive, MaxAge
<1>3. /\ d' = [d EXCEPT !.cmdAge = ca, !.setBack = sb]
      /\ \/ d.cmdAge < MaxAge /\ ca = d.cmdAge + 1 /\ sb = d.setBack
         \/ d.setBack < ClockBack /\ ca = d.cmdAge - 1 /\ sb = d.setBack + 1
  <2>1. CASE d.cmdAge < MaxAge /\ d' = [d EXCEPT !.cmdAge = @ + 1]
    BY <1>1, <2>1 DEF Drive
  <2>2. CASE d.setBack < ClockBack /\ d' = [d EXCEPT !.cmdAge = @ - 1, !.setBack = @ + 1]
    BY <1>1, <2>2 DEF Drive
  <2> QED
    BY <2>1, <2>2 DEF ClockSet
<1> HIDE DEF ca, sb
<1>4. /\ ca \in (-ClockBack)..MaxAge /\ sb \in 0..ClockBack
      /\ d.held <= ca + sb
  BY <1>1, <1>2, <1>3
<1>5. d' \in Drive
  BY <1>1, <1>3, <1>4 DEF Drive
<1>6. /\ d'.cmdAge = ca /\ d'.held = d.held /\ d'.setBack = sb /\ d'.owed = d.owed
      /\ d'.lastBlock = d.lastBlock
      /\ d'.stopFault = d.stopFault /\ d'.hasTarget = d.hasTarget /\ d'.pending = d.pending
      /\ d'.needsNeutral = d.needsNeutral /\ d'.heard = d.heard /\ d'.broke = d.broke
      /\ d'.ready = d.ready /\ d'.wheel = d.wheel /\ d'.frame = d.frame
  BY <1>1, <1>3 DEF Drive
<1>7. d'.lastBlock # "none" => Halted(d')
  BY <1>6 DEF NodeInv, Halted
<1>8. NodeInv(d')
  BY <1>4, <1>6, <1>7 DEF NodeInv
<1> QED
  BY <1>5, <1>6, <1>8

\* Clearing a guard trip lets the motors be used again and changes nothing else.
LEMMA ParameterFacts ==
    ASSUME TypeOK, NodeInv(d), ParameterChange
    PROVE  /\ d' \in Drive /\ NodeInv(d')
           /\ d'.lastBlock = d.lastBlock /\ d'.stopFault = d.stopFault
           /\ d'.wheel = d.wheel
<1>1. d \in Drive /\ d' = [d EXCEPT !.healthy = TRUE]
  BY DEF TypeOK, ParameterChange
<1>2. d' \in Drive /\ d'.wheel = d.wheel /\ d'.frame = d.frame
  BY <1>1 DEF Drive
<1>3. SameNode(d', d)
  BY <1>1 DEF Drive, SameNode
<1>4. NodeInv(d')
  BY <1>1, <1>2, <1>3, FramesKeepNode
<1> QED
  BY <1>2, <1>3, <1>4 DEF SameNode

\* Every step keeps the inductive invariant.
LEMMA DriveInvStep == DriveInv /\ [Next]_vars => DriveInv'
<1> SUFFICES ASSUME DriveInv, [Next]_vars PROVE DriveInv'
  OBVIOUS
<1>0. /\ TypeOK /\ NodeInv(d) /\ OpenKnown(d, estop, perm)
      /\ lc \in Lifecycle /\ autoTimer \in BOOLEAN /\ flaky \in BOOLEAN /\ operator \in BOOLEAN
      /\ estop \in EstopMonitor /\ perm \in PermissionMonitor /\ d \in Drive
  BY DEF DriveInv, TypeOK
<1> DEFINE Rest == /\ lc' \in Lifecycle /\ autoTimer' \in BOOLEAN
                   /\ flaky' \in BOOLEAN /\ operator' \in BOOLEAN
                   /\ estop' \in EstopMonitor /\ perm' \in PermissionMonitor
<1>a. ASSUME Rest, d' \in Drive, NodeInv(d'), OpenKnown(d', estop', perm')
      PROVE  DriveInv'
  BY <1>a DEF DriveInv, TypeOK, NodeInv, OpenKnown, Halted
\* Steps that neither open the gate nor clear a stop fault.
<1>b. ASSUME Rest, d' \in Drive, NodeInv(d'), estop' = estop, perm' = perm,
             d'.lastBlock = d.lastBlock, d.stopFault => d'.stopFault
      PROVE  DriveInv'
  <2>1. OpenKnown(d', estop, perm)
    BY <1>0, <1>b, OpenKnownKept
  <2>2. OpenKnown(d', estop', perm')
    BY <1>b, <2>1
  <2> QED
    BY <1>a, <1>b, <2>2
<1>1. CASE TwistCallback
  <2>1. Rest /\ estop' = estop /\ perm' = perm
    BY <1>0, <1>1 DEF TwistCallback
  <2>2. PICK twist \in Twists :
           d' = IF Evaluate(d.stopFault, estop, perm) # "none"
                THEN [Disarm(d) EXCEPT !.owed = @ \cup {"closed"}]
                ELSE IF d.pending THEN d ELSE Command(d, twist)
    BY <1>1 DEF TwistCallback
  <2>3. CASE Evaluate(d.stopFault, estop, perm) # "none"
    <3>1. d' = [Disarm(d) EXCEPT !.owed = @ \cup {"closed"}]
      BY <2>2, <2>3
    <3>2. d' \in Drive /\ NodeInv(d') /\ d'.lastBlock = d.lastBlock /\ d'.stopFault = d.stopFault
      BY <1>0, <3>1, ClosedTwistFacts
    <3> QED
      BY <1>b, <2>1, <3>2
  <2>4. CASE Evaluate(d.stopFault, estop, perm) = "none" /\ d.pending
    <3>1. d' = d
      BY <2>2, <2>4
    <3> QED
      BY <1>0, <1>b, <2>1, <3>1
  <2>5. CASE Evaluate(d.stopFault, estop, perm) = "none" /\ ~d.pending
    <3>1. d' = Command(d, twist) /\ d.lastBlock = "none" /\ ~d.stopFault
      BY <1>0, <2>2, <2>5 DEF OpenKnown, Evaluate
    <3>2. d' \in Drive /\ NodeInv(d') /\ d'.lastBlock = d.lastBlock /\ d'.stopFault = d.stopFault
      BY <1>0, <3>1, CommandFacts
    <3> QED
      BY <1>b, <2>1, <3>2
  <2> QED
    BY <2>3, <2>4, <2>5
<1>2. CASE ControlTick
  <2>1. Rest /\ estop' = estop /\ perm' = perm /\ RunControlTick(d, d')
    BY <1>0, <1>2 DEF ControlTick
  <2>2. d' \in Drive /\ NodeInv(d') /\ OpenKnown(d', estop, perm)
    BY <1>0, <2>1, TickFacts
  <2> QED
    BY <1>a, <2>1, <2>2
<1>3. CASE EstopReceived
  <2>1. PICK active \in BOOLEAN :
           /\ estop' = HeardEstop(active)
           /\ \E n \in IF active /\ ~estop.active /\ d.ready THEN SafetyStop(d) ELSE {d} :
                 d' \in ApplyGate(n, HeardEstop(active), perm, active /\ ~estop.active /\ d.ready)
           /\ UNCHANGED <<lc, autoTimer, perm, flaky, operator>>
    BY <1>3 DEF EstopReceived
  <2> DEFINE sn == active /\ ~estop.active /\ d.ready
             e == HeardEstop(active)
  <2>2. PICK n \in IF sn THEN SafetyStop(d) ELSE {d} : d' \in ApplyGate(n, e, perm, sn)
    BY <2>1
  <2>3. sn \in BOOLEAN
    OBVIOUS
  <2>4. e \in EstopMonitor
    BY GateAssumption DEF HeardEstop, EstopMonitor
  <2>e. estop' = e /\ perm' = perm
    BY <2>1
  <2> HIDE DEF sn, e
  <2>5. n \in Drive /\ NodeInv(n) /\ (sn => ~n.hasTarget /\ ~n.pending /\ Halted(n))
    <3>1. CASE sn
      <4>1. n \in SafetyStop(d)
        BY <2>2, <3>1
      <4>2. d.broke \cap {"stop", "overdue"} = {}
        BY <1>0 DEF NodeInv
      <4> QED
        BY <1>0, <4>1, <4>2, SafetyStopFacts
    <3>2. CASE ~sn
      <4>1. n = d
        BY <2>2, <3>2
      <4> QED
        BY <1>0, <3>2, <4>1
    <3> QED
      BY <3>1, <3>2
  <2>6. d' \in Drive /\ NodeInv(d') /\ OpenKnown(d', e, perm)
    BY <1>0, <2>2, <2>3, <2>4, <2>5, ApplyGateFacts
  <2>7. Rest
    BY <1>0, <2>1, <2>4, <2>e
  <2> QED
    BY <1>a, <2>6, <2>7, <2>e
<1>4. CASE PermissionReceived
  <2>1. PICK allowed \in BOOLEAN :
           /\ perm' = HeardPermission(allowed)
           /\ d' \in ApplyGate(d, estop, HeardPermission(allowed), FALSE)
           /\ UNCHANGED <<lc, autoTimer, estop, flaky, operator>>
    BY <1>4 DEF PermissionReceived
  <2> DEFINE p == HeardPermission(allowed)
  <2>2. p \in PermissionMonitor
    BY GateAssumption DEF HeardPermission, PermissionMonitor
  <2>3. perm' = p /\ estop' = estop /\ d' \in ApplyGate(d, estop, p, FALSE)
    BY <2>1
  <2> HIDE DEF p
  <2>4. d' \in Drive /\ NodeInv(d') /\ OpenKnown(d', estop, p)
    BY <1>0, <2>2, <2>3, ApplyGateFacts
  <2>5. Rest
    BY <1>0, <2>1, <2>2, <2>3
  <2> QED
    BY <1>a, <2>3, <2>4, <2>5
<1>5. CASE Configure
  <2>1. Rest /\ estop' = estop /\ perm' = perm
    BY <1>0, <1>5 DEF Configure, Lifecycle
  <2>2. d' \in Configured(d) \/ d' \in Unconfigured(d)
    BY <1>5 DEF Configure
  <2>3. d' \in Drive /\ NodeInv(d') /\ d'.lastBlock = d.lastBlock /\ d'.stopFault = d.stopFault
    BY <1>0, <2>2, ConfiguredFacts, UnconfiguredFacts
  <2> QED
    BY <1>b, <2>1, <2>3
<1>6. CASE Activate
  <2>1. Rest /\ estop' = estop /\ perm' = perm /\ d' = ResetCommandState(d)
    BY <1>0, <1>6 DEF Activate, Lifecycle
  <2>2. d' \in Drive /\ NodeInv(d') /\ d'.lastBlock = d.lastBlock /\ d'.stopFault = d.stopFault
    BY <1>0, <2>1, ResetKeeps
  <2> QED
    BY <1>b, <2>1, <2>2
<1>7. CASE AutoStartTimer
  <2>1. Rest /\ estop' = estop /\ perm' = perm
    BY <1>0, <1>7 DEF AutoStartTimer, Lifecycle
  <2>2. \/ \E n \in Configured(d) : d' = ResetCommandState(n)
        \/ d' \in Unconfigured(d)
        \/ d' = ResetCommandState(d)
    BY <1>7 DEF AutoStartTimer
  <2>3. CASE \E n \in Configured(d) : d' = ResetCommandState(n)
    <3>1. PICK n \in Configured(d) : d' = ResetCommandState(n)
      BY <2>3
    <3>2. n \in Drive /\ NodeInv(n) /\ n.lastBlock = d.lastBlock /\ n.stopFault = d.stopFault
      BY <1>0, ConfiguredFacts
    <3>3. d' \in Drive /\ NodeInv(d') /\ d'.lastBlock = n.lastBlock /\ d'.stopFault = n.stopFault
      BY <3>1, <3>2, ResetKeeps
    <3> QED
      BY <1>b, <2>1, <3>2, <3>3
  <2>4. CASE d' \in Unconfigured(d)
    <3>1. d' \in Drive /\ NodeInv(d') /\ d'.lastBlock = d.lastBlock /\ d'.stopFault = d.stopFault
      BY <1>0, <2>4, UnconfiguredFacts
    <3> QED
      BY <1>b, <2>1, <3>1
  <2>5. CASE d' = ResetCommandState(d)
    <3>1. d' \in Drive /\ NodeInv(d') /\ d'.lastBlock = d.lastBlock /\ d'.stopFault = d.stopFault
      BY <1>0, <2>5, ResetKeeps
    <3> QED
      BY <1>b, <2>1, <3>1
  <2> QED
    BY <2>2, <2>3, <2>4, <2>5
<1>8. CASE Deactivate
  <2>1. Rest /\ estop' = estop /\ perm' = perm /\ d' \in SafetyStop(d)
    BY <1>0, <1>8 DEF Deactivate, Lifecycle
  <2>2. d.broke \cap {"stop", "overdue"} = {}
    BY <1>0 DEF NodeInv
  <2>3. /\ d' \in Drive /\ NodeInv(d') /\ d'.lastBlock = d.lastBlock
        /\ d.stopFault => d'.stopFault
    BY <1>0, <2>1, <2>2, SafetyStopFacts
  <2> QED
    BY <1>b, <2>1, <2>3
<1>9. CASE Cleanup \/ Shutdown
  <2>1. Rest /\ estop' = estop /\ perm' = perm /\ d' \in ShutdownMotorLib(d)
    BY <1>0, <1>9 DEF Cleanup, Shutdown, Lifecycle
  <2>2. d' \in Drive /\ NodeInv(d') /\ d'.lastBlock = d.lastBlock /\ d'.stopFault = d.stopFault
    BY <1>0, <2>1, ShutdownFacts
  <2> QED
    BY <1>b, <2>1, <2>2
<1>10. CASE TransitionError
  <2>1. Rest /\ estop' = estop /\ perm' = perm
    BY <1>0, <1>10, DriveAssumption DEF TransitionError, Lifecycle
  <2>2. \E n \in Configured(d) \cup {ResetCommandState(d)} \cup SafetyStop(d) :
           d' \in ShutdownMotorLib(n)
    BY <1>10 DEF TransitionError
  <2>3. PICK n \in Configured(d) \cup {ResetCommandState(d)} \cup SafetyStop(d) :
           d' \in ShutdownMotorLib(n)
    BY <2>2
  <2>4. d.broke \cap {"stop", "overdue"} = {}
    BY <1>0 DEF NodeInv
  <2>5. /\ n \in Drive /\ NodeInv(n) /\ n.lastBlock = d.lastBlock
        /\ d.stopFault => n.stopFault
    <3>1. CASE n \in Configured(d)
      BY <1>0, <3>1, ConfiguredFacts
    <3>2. CASE n = ResetCommandState(d)
      BY <1>0, <3>2, ResetKeeps
    <3>3. CASE n \in SafetyStop(d)
      BY <1>0, <2>4, <3>3, SafetyStopFacts
    <3> QED
      BY <3>1, <3>2, <3>3
  <2>6. d' \in Drive /\ NodeInv(d') /\ d'.lastBlock = n.lastBlock /\ d'.stopFault = n.stopFault
    BY <1>0, <2>3, <2>5, ShutdownFacts
  <2> QED
    BY <1>b, <2>1, <2>5, <2>6
<1>11. CASE ParameterChange
  <2>1. Rest /\ estop' = estop /\ perm' = perm
    BY <1>0, <1>11 DEF ParameterChange
  <2>2. d' \in Drive /\ NodeInv(d') /\ d'.lastBlock = d.lastBlock /\ d'.stopFault = d.stopFault
    BY <1>0, <1>11, ParameterFacts
  <2> QED
    BY <1>b, <2>1, <2>2
<1>12. CASE Elapse
  <2>1. Rest
    BY <1>0, <1>12, OlderType DEF Elapse
  <2> QED
    BY <1>0, <1>12, <1>a, <2>1, ElapseFacts
<1>13. CASE Crash
  <2>1. /\ estop' = NewEstopMonitor /\ perm' = NewPermissionMonitor /\ d' = NewDrive(d.wheel)
    BY <1>13 DEF Crash
  <2>2. d.wheel \in [Wheels -> BOOLEAN]
    BY <1>0 DEF Drive
  <2>3. /\ d' \in Drive /\ NodeInv(d') /\ OpenKnown(d', estop', perm')
        /\ estop' \in EstopMonitor /\ perm' \in PermissionMonitor
    BY <2>1, <2>2, NewDriveFacts
  <2>4. Rest
    BY <1>0, <1>13, <2>3, DriveAssumption DEF Crash, Lifecycle
  <2> QED
    BY <1>a, <2>3, <2>4
<1>14. CASE ClockSet
  <2>1. Rest /\ estop' = estop /\ perm' = perm
    BY <1>0, <1>14 DEF ClockSet
  <2>2. d' \in Drive /\ NodeInv(d') /\ d'.lastBlock = d.lastBlock /\ d'.stopFault = d.stopFault
    BY <1>0, <1>14, ClockSetFacts
  <2> QED
    BY <1>b, <2>1, <2>2
<1>15. CASE LinkSettles \/ OperatorDies \/ UNCHANGED vars
  <2>1. Rest /\ d' = d /\ estop' = estop /\ perm' = perm
    BY <1>0, <1>15 DEF LinkSettles, OperatorDies, vars
  <2> QED
    BY <1>0, <1>b, <2>1
<1> QED
  BY <1>1, <1>2, <1>3, <1>4, <1>5, <1>6, <1>7, <1>8, <1>9, <1>10, <1>11, <1>12, <1>13,
     <1>14, <1>15 DEF Next

\* The inductive invariant holds in every reachable state.
THEOREM DriveInvariant == Spec => []DriveInv
<1>1. Init => DriveInv
  <2> SUFFICES ASSUME Init PROVE DriveInv
    OBVIOUS
  <2>1. [w \in Wheels |-> FALSE] \in [Wheels -> BOOLEAN]
    OBVIOUS
  <2>2. /\ d \in Drive /\ NodeInv(d) /\ OpenKnown(d, estop, perm)
        /\ estop \in EstopMonitor /\ perm \in PermissionMonitor
    BY <2>1, NewDriveFacts DEF Init
  <2> QED
    BY <2>2, DriveAssumption DEF Init, DriveInv, TypeOK, Lifecycle
<1> QED
  BY <1>1, DriveInvStep, PTL DEF Spec

\* Every state of the node is well typed, also when frames fail half-way.  Once the gate
\* has been applied closed, the wheels of a ready node stand, or the stop fault is known,
\* or a wheel was never reached since it was set up, and no command is armed.  Once a
\* twist has seen it closed, no twist is taken before a neutral; the command in force is
\* not ended by it.  No speed is sent that a stop has ended, or that has really been in
\* force for longer than the timeout and all that the clock was set back meanwhile.
THEOREM GateIsSafe == Spec => []GateSafety
<1>1. DriveInv => TypeOK /\ ClosedGateDisarms /\ ClosedGateOwesNeutral /\ MotionNeedsNeutral
  BY DEF DriveInv, NodeInv, ClosedGateDisarms, ClosedGateOwesNeutral, MotionNeedsNeutral
<1>2. DriveInv => ClosedGateStops
  BY DEF DriveInv, NodeInv, Halted, ClosedGateStops, Still, Unreached
<1>3. DriveInv => GateSafety
  BY <1>1, <1>2 DEF GateSafety
<1> QED
  BY <1>3, DriveInvariant, PTL

-----------------------------------------------------------------------------
\* A step that starts no wheel and clears no stop fault of a ready node is one
\* the gate need not allow.
LEMMA QuietStep ==
    ASSUME StartsNone(d, d'), d.stopFault => d'.stopFault \/ ~d'.ready
    PROVE  StopFaultEndsStopped /\ WheelStartsInOpenTick
BY DEF StartsNone, StopFaultEndsStopped, WheelStartsInOpenTick

\* No step starts a wheel behind a closed gate or drops a stop fault unsent.
LEMMA ObedientStep ==
    ASSUME DriveInv, [Next]_vars
    PROVE  StopFaultEndsStopped /\ WheelStartsInOpenTick
<1>0. /\ TypeOK /\ NodeInv(d) /\ OpenKnown(d, estop, perm) /\ flaky \in BOOLEAN
      /\ estop \in EstopMonitor /\ perm \in PermissionMonitor /\ d \in Drive
      /\ d.broke \cap {"stop", "overdue"} = {}
  BY DEF DriveInv, TypeOK, NodeInv
<1>s. ASSUME d'.wheel = d.wheel, d'.stopFault = d.stopFault
      PROVE  StopFaultEndsStopped /\ WheelStartsInOpenTick
  <2>1. StartsNone(d, d')
    BY <1>s DEF StartsNone
  <2> QED
    BY <1>s, <2>1, QuietStep
<1>1. CASE TwistCallback
  <2>1. PICK twist \in Twists :
           d' = IF Evaluate(d.stopFault, estop, perm) # "none"
                THEN [Disarm(d) EXCEPT !.owed = @ \cup {"closed"}]
                ELSE IF d.pending THEN d ELSE Command(d, twist)
    BY <1>1 DEF TwistCallback
  <2>2. CASE Evaluate(d.stopFault, estop, perm) # "none"
    BY <1>0, <1>s, <2>1, <2>2, ClosedTwistFacts
  <2>3. CASE Evaluate(d.stopFault, estop, perm) = "none" /\ d.pending
    BY <1>s, <2>1, <2>3
  <2>4. CASE Evaluate(d.stopFault, estop, perm) = "none" /\ ~d.pending
    <3>1. d' = Command(d, twist) /\ d.lastBlock = "none" /\ ~d.stopFault
      BY <1>0, <2>1, <2>4 DEF OpenKnown, Evaluate
    <3>2. d'.stopFault = d.stopFault /\ d'.wheel = d.wheel
      BY <1>0, <3>1, CommandFacts
    <3> QED
      BY <1>s, <3>2
  <2> QED
    BY <2>2, <2>3, <2>4
<1>2. CASE ControlTick
  <2>1. lc = "active" /\ RunControlTick(d, d')
    BY <1>2 DEF ControlTick
  <2>2. /\ d.stopFault /\ ~d'.stopFault => Zeroed(d')
        /\ \A w \in Wheels : ~d.wheel[w] /\ d'.wheel[w] =>
              ~d'.stopFault /\ Evaluate(FALSE, estop, perm) = "none"
    BY <1>0, <2>1, TickFacts
  <2> QED
    BY <2>1, <2>2 DEF Zeroed, StopFaultEndsStopped, WheelStartsInOpenTick
<1>3. CASE EstopReceived
  <2>1. PICK active \in BOOLEAN :
           /\ estop' = HeardEstop(active)
           /\ \E n \in IF active /\ ~estop.active /\ d.ready THEN SafetyStop(d) ELSE {d} :
                 d' \in ApplyGate(n, HeardEstop(active), perm, active /\ ~estop.active /\ d.ready)
    BY <1>3 DEF EstopReceived
  <2> DEFINE sn == active /\ ~estop.active /\ d.ready
             e == HeardEstop(active)
  <2>2. PICK n \in IF sn THEN SafetyStop(d) ELSE {d} : d' \in ApplyGate(n, e, perm, sn)
    BY <2>1
  <2>3. sn \in BOOLEAN /\ e \in EstopMonitor
    BY GateAssumption DEF HeardEstop, EstopMonitor
  <2> HIDE DEF sn, e
  <2>4. /\ n \in Drive /\ NodeInv(n) /\ (sn => ~n.hasTarget /\ ~n.pending /\ Halted(n))
        /\ StartsNone(d, n) /\ (d.stopFault => n.stopFault)
    <3>1. CASE sn
      BY <1>0, <2>2, <3>1, SafetyStopFacts
    <3>2. CASE ~sn
      BY <1>0, <2>2, <3>2 DEF StartsNone
    <3> QED
      BY <3>1, <3>2
  <2>5. StartsNone(n, d') /\ (n.stopFault => d'.stopFault)
    BY <1>0, <2>2, <2>3, <2>4, ApplyGateFacts
  <2>6. StartsNone(d, d')
    BY <2>4, <2>5 DEF StartsNone
  <2> QED
    BY <2>4, <2>5, <2>6, QuietStep
<1>4. CASE PermissionReceived
  <2>1. PICK allowed \in BOOLEAN : d' \in ApplyGate(d, estop, HeardPermission(allowed), FALSE)
    BY <1>4 DEF PermissionReceived
  <2>2. HeardPermission(allowed) \in PermissionMonitor
    BY GateAssumption DEF HeardPermission, PermissionMonitor
  <2>3. StartsNone(d, d') /\ (d.stopFault => d'.stopFault)
    BY <1>0, <2>1, <2>2, ApplyGateFacts
  <2> QED
    BY <2>3, QuietStep
<1>5. CASE Configure
  <2>1. d' \in Configured(d) \/ d' \in Unconfigured(d)
    BY <1>5 DEF Configure
  <2>2. StartsNone(d, d') /\ d'.stopFault = d.stopFault
    BY <1>0, <2>1, ConfiguredFacts, UnconfiguredFacts
  <2> QED
    BY <2>2, QuietStep
<1>6. CASE Activate
  <2>1. d' = ResetCommandState(d)
    BY <1>6 DEF Activate
  <2> QED
    BY <1>0, <1>s, <2>1, ResetKeeps
<1>7. CASE AutoStartTimer
  <2>1. \/ \E n \in Configured(d) : d' = ResetCommandState(n)
        \/ d' \in Unconfigured(d)
        \/ d' = ResetCommandState(d)
    BY <1>7 DEF AutoStartTimer
  <2>2. CASE \E n \in Configured(d) : d' = ResetCommandState(n)
    <3>1. PICK n \in Configured(d) : d' = ResetCommandState(n)
      BY <2>2
    <3>2. n \in Drive /\ NodeInv(n) /\ n.stopFault = d.stopFault /\ StartsNone(d, n)
      BY <1>0, ConfiguredFacts
    <3>3. d'.stopFault = n.stopFault /\ d'.wheel = n.wheel
      BY <3>1, <3>2, ResetKeeps
    <3>4. StartsNone(d, d')
      BY <3>2, <3>3 DEF StartsNone
    <3> QED
      BY <3>2, <3>3, <3>4, QuietStep
  <2>3. CASE d' \in Unconfigured(d)
    <3>1. StartsNone(d, d') /\ d'.stopFault = d.stopFault
      BY <1>0, <2>3, UnconfiguredFacts
    <3> QED
      BY <3>1, QuietStep
  <2>4. CASE d' = ResetCommandState(d)
    BY <1>0, <1>s, <2>4, ResetKeeps
  <2> QED
    BY <2>1, <2>2, <2>3, <2>4
<1>8. CASE Deactivate
  <2>1. d' \in SafetyStop(d)
    BY <1>8 DEF Deactivate
  <2>2. StartsNone(d, d') /\ (d.stopFault => d'.stopFault)
    BY <1>0, <2>1, SafetyStopFacts
  <2> QED
    BY <2>2, QuietStep
<1>9. CASE Cleanup \/ Shutdown
  <2>1. d' \in ShutdownMotorLib(d)
    BY <1>9 DEF Cleanup, Shutdown
  <2>2. StartsNone(d, d') /\ d'.stopFault = d.stopFault
    BY <1>0, <2>1, ShutdownFacts
  <2> QED
    BY <2>2, QuietStep
<1>10. CASE TransitionError
  <2>1. PICK n \in Configured(d) \cup {ResetCommandState(d)} \cup SafetyStop(d) :
           d' \in ShutdownMotorLib(n)
    BY <1>10 DEF TransitionError
  <2>2. /\ n \in Drive /\ NodeInv(n) /\ StartsNone(d, n)
        /\ d.stopFault => n.stopFault
    <3>1. CASE n \in Configured(d)
      BY <1>0, <3>1, ConfiguredFacts
    <3>2. CASE n = ResetCommandState(d)
      BY <1>0, <3>2, ResetKeeps DEF StartsNone
    <3>3. CASE n \in SafetyStop(d)
      BY <1>0, <3>3, SafetyStopFacts
    <3> QED
      BY <3>1, <3>2, <3>3
  <2>3. StartsNone(n, d') /\ d'.stopFault = n.stopFault
    BY <1>0, <2>1, <2>2, ShutdownFacts
  <2>4. StartsNone(d, d')
    BY <2>2, <2>3 DEF StartsNone
  <2> QED
    BY <2>2, <2>3, <2>4, QuietStep
<1>11. CASE ParameterChange
  BY <1>0, <1>11, <1>s, ParameterFacts
<1>12. CASE Elapse
  BY <1>0, <1>12, <1>s, ElapseFacts
<1>13. CASE Crash
  <2>1. d' = NewDrive(d.wheel) /\ d.wheel \in [Wheels -> BOOLEAN]
    BY <1>0, <1>13 DEF Crash, Drive
  <2>2. d'.wheel = d.wheel /\ ~d'.ready
    BY <2>1, NewDriveFacts
  <2>3. StartsNone(d, d')
    BY <2>2 DEF StartsNone
  <2> QED
    BY <2>2, <2>3, QuietStep
<1>14. CASE ClockSet
  BY <1>0, <1>14, <1>s, ClockSetFacts
<1>15. CASE LinkSettles \/ OperatorDies \/ UNCHANGED vars
  <2>1. d' = d
    BY <1>15 DEF LinkSettles, OperatorDies, vars
  <2> QED
    BY <1>s, <2>1
<1> QED
  BY <1>1, <1>2, <1>3, <1>4, <1>5, <1>6, <1>7, <1>8, <1>9, <1>10, <1>11, <1>12, <1>13,
     <1>14, <1>15 DEF Next

\* A wheel that stands starts only in a tick of an active node behind an open gate,
\* and a stop fault ends only with a zero on every wheel, or with the process.
THEOREM WheelsObey == Spec => WheelsObeyTheGate
<1>1. DriveInv /\ [Next]_vars => [StopFaultEndsStopped /\ WheelStartsInOpenTick]_vars
  BY ObedientStep
<1> QED
  BY <1>1, DriveInvariant, PTL DEF Spec, WheelsObeyTheGate
=============================================================================
