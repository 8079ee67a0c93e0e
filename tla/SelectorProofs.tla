--------------------------- MODULE SelectorProofs ---------------------------
(***************************************************************************)
(* Lemmas about the selector both arbiters use: what each of its           *)
(* operations changes, for every choice of the timeouts and every version  *)
(* counter of at least two bits.                                           *)
(***************************************************************************)
EXTENDS SourceSelector, TLAPS

(***************************************************************************)
(* What publishStatus relies on: the same version means the same status.   *)
(***************************************************************************)
Shows(t, s) ==
    t.version = s.version =>
        /\ t.source = s.source /\ t.reason = s.reason
        /\ t.refusal = s.refusal /\ t.locked = s.locked

(* Never is a natural number beyond every timeout, so an age capped at it  *)
(* is as good as the age itself.                                           *)
LEMMA NeverIsLate ==
    /\ Never \in Nat
    /\ Never > Quiet /\ Never > JoyTimeout /\ Never > LabTimeout
BY SelectorAssumption DEF Never, Larger

(* The selector of a new process.                                          *)
LEMMA NewSelectorFacts ==
    /\ NewSelector \in Selector
    /\ NewSelector.source = "joy"
    /\ ~JoyActiveFresh(NewSelector)
BY NeverIsLate, SelectorAssumption
   DEF NewSelector, Selector, Sources, Reasons, Refusals, JoyActiveFresh

(* Up to three increments of version_ in one callback are visible: the     *)
(* counter does not come back to its value.                                *)
LEMMA BumpFacts ==
    ASSUME NEW n \in 0..(Wrap - 1)
    PROVE  /\ Bump(n) \in 0..(Wrap - 1)
           /\ Bump(n) # n
           /\ Bump(Bump(n)) # n
           /\ Bump(Bump(Bump(n))) # n
BY SelectorAssumption DEF Bump

(* switchTo changes the source and the reason, and says so.                *)
LEMMA SwitchToFacts ==
    ASSUME NEW s \in Selector, NEW source \in Sources, NEW reason \in Reasons
    PROVE  /\ SwitchTo(s, source, reason) \in Selector
           /\ SwitchTo(s, source, reason).source = source
           /\ SwitchTo(s, source, reason).version = Bump(s.version)
           /\ SwitchTo(s, source, reason).refusal = s.refusal
           /\ SwitchTo(s, source, reason).locked = s.locked
           /\ JoyActiveFresh(SwitchTo(s, source, reason)) = JoyActiveFresh(s)
           /\ JoyBusy(SwitchTo(s, source, reason)) = JoyBusy(s)
           /\ LabAsking(SwitchTo(s, source, reason)) = LabAsking(s)
BY BumpFacts DEF SwitchTo, Selector, JoyActiveFresh, JoyBusy, LabAsking

(* setLocked changes the lock only, and says so when it changes.           *)
LEMMA SetLockedFacts ==
    ASSUME NEW s \in Selector, NEW locked \in BOOLEAN
    PROVE  /\ SetLocked(s, locked) \in Selector
           /\ SetLocked(s, locked).locked = locked
           /\ SetLocked(s, locked).source = s.source
           /\ SetLocked(s, locked).reason = s.reason
           /\ SetLocked(s, locked).refusal = s.refusal
           /\ SetLocked(s, locked).version = s.version =>
                SetLocked(s, locked).locked = s.locked
           /\ SetLocked(s, locked).version \in {s.version, Bump(s.version)}
           /\ JoyActiveFresh(SetLocked(s, locked)) = JoyActiveFresh(s)
           /\ JoyBusy(SetLocked(s, locked)) = JoyBusy(s)
           /\ LabAsking(SetLocked(s, locked)) = LabAsking(s)
BY BumpFacts DEF SetLocked, Selector, JoyActiveFresh, JoyBusy, LabAsking

(* setRefusal changes the refusal only, and says so when it changes.       *)
LEMMA SetRefusalFacts ==
    ASSUME NEW s \in Selector, NEW refusal \in Refusals
    PROVE  /\ SetRefusal(s, refusal) \in Selector
           /\ SetRefusal(s, refusal).locked = s.locked
           /\ SetRefusal(s, refusal).source = s.source
           /\ SetRefusal(s, refusal).reason = s.reason
           /\ SetRefusal(s, refusal).version = s.version =>
                SetRefusal(s, refusal).refusal = s.refusal
           /\ SetRefusal(s, refusal).version \in {s.version, Bump(s.version)}
           /\ JoyActiveFresh(SetRefusal(s, refusal)) = JoyActiveFresh(s)
           /\ JoyBusy(SetRefusal(s, refusal)) = JoyBusy(s)
           /\ LabAsking(SetRefusal(s, refusal)) = LabAsking(s)
BY BumpFacts DEF SetRefusal, Selector, JoyActiveFresh, JoyBusy, LabAsking

(* The stamps a controller command leaves.                                 *)
LEMMA HeardFacts ==
    ASSUME NEW s \in Selector, NEW active \in BOOLEAN
    PROVE  /\ Heard(s, active) \in Selector
           /\ Heard(s, active).source = s.source
           /\ Heard(s, active).reason = s.reason
           /\ Heard(s, active).refusal = s.refusal
           /\ Heard(s, active).locked = s.locked
           /\ Heard(s, active).version = s.version
           /\ JoyActiveFresh(Heard(s, active)) => active
           /\ ~active /\ JoyBusy(Heard(s, active)) => JoyBusy(s)
           /\ LabAsking(Heard(s, active)) = LabAsking(s)
<1>1. 0 \in 0..Never
  BY NeverIsLate
<1>2. Heard(s, active) \in Selector
  <2>1. CASE active = TRUE
    BY <1>1, <2>1 DEF Heard, Selector
  <2>2. CASE active = FALSE
    BY <1>1, <2>2 DEF Heard, Selector
  <2> QED BY <2>1, <2>2
<1>3. /\ Heard(s, active).source = s.source
      /\ Heard(s, active).reason = s.reason
      /\ Heard(s, active).refusal = s.refusal
      /\ Heard(s, active).locked = s.locked
      /\ Heard(s, active).version = s.version
      /\ LabAsking(Heard(s, active)) = LabAsking(s)
  BY DEF Heard, Selector, LabAsking
<1>4. JoyActiveFresh(Heard(s, active)) => active
  BY DEF Heard, Selector, JoyActiveFresh
<1>5. ~active /\ JoyBusy(Heard(s, active)) => JoyBusy(s)
  BY DEF Heard, Selector, JoyActiveFresh, JoyBusy
<1> QED BY <1>2, <1>3, <1>4, <1>5

(* A controller command: an active one takes the source and locks out a    *)
(* lab that is asking; a neutral one changes neither.                      *)
LEMMA OnJoyFacts ==
    ASSUME NEW s \in Selector, NEW active \in BOOLEAN
    PROVE  /\ OnJoy(s, active) \in Selector
           /\ active => OnJoy(s, active).source = "joy"
           /\ ~active => OnJoy(s, active).source = s.source
           /\ s.locked => OnJoy(s, active).locked
           /\ active /\ LabAsking(s) => OnJoy(s, active).locked
           /\ JoyActiveFresh(OnJoy(s, active)) => active
           /\ ~active /\ JoyBusy(OnJoy(s, active)) => JoyBusy(s)
           /\ LabAsking(OnJoy(s, active)) = LabAsking(s)
           /\ Shows(OnJoy(s, active), s)
<1> DEFINE locks == active /\ (s.source = "lab" \/ LabAsking(s))
           l == IF locks THEN SetLocked(s, TRUE) ELSE s
           h == Heard(l, active)
           r == IF s.source = "lab" /\ active THEN SwitchTo(h, "joy", "controller") ELSE h
<1>1. /\ l \in Selector
      /\ l.source = s.source /\ l.reason = s.reason /\ l.refusal = s.refusal
      /\ l.version = s.version => l.locked = s.locked
      /\ l.version \in {s.version, Bump(s.version)}
      /\ s.locked => l.locked
      /\ locks => l.locked
      /\ JoyBusy(l) = JoyBusy(s) /\ LabAsking(l) = LabAsking(s)
  BY SetLockedFacts DEF Selector
<1> HIDE DEF l
<1>2. /\ h \in Selector
      /\ h.source = l.source /\ h.reason = l.reason /\ h.refusal = l.refusal
      /\ h.version = l.version /\ h.locked = l.locked
      /\ JoyActiveFresh(h) => active
      /\ ~active /\ JoyBusy(h) => JoyBusy(l)
      /\ LabAsking(h) = LabAsking(l)
  BY <1>1, HeardFacts
<1> HIDE DEF h
<1>3. /\ r \in Selector
      /\ s.source = "lab" /\ active => r.source = "joy" /\ r.version = Bump(h.version)
      /\ ~(s.source = "lab" /\ active) => r = h
      /\ r.locked = h.locked
      /\ JoyActiveFresh(r) = JoyActiveFresh(h)
      /\ JoyBusy(r) = JoyBusy(h) /\ LabAsking(r) = LabAsking(h)
  BY <1>2, SwitchToFacts DEF Sources, Reasons
<1>4. s.version \in 0..(Wrap - 1) /\ s.source \in {"joy", "lab"}
  BY DEF Selector, Sources
<1>5. OnJoy(s, active) = r
  BY DEF OnJoy, l, h
<1> HIDE DEF r
<1>6. Shows(r, s)
  BY <1>1, <1>2, <1>3, <1>4, BumpFacts DEF Shows
<1> QED BY <1>1, <1>2, <1>3, <1>4, <1>5, <1>6

(* What a lab command that asked with neutral and permitted leaves behind  *)
(* before its refusal is recorded.                                         *)
LEMMA AppliedFacts ==
    ASSUME NEW s \in Selector, NEW neutral \in BOOLEAN, NEW verdict \in Verdicts
    PROVE  /\ Applied(s, verdict, neutral) \in Selector
           /\ Applied(s, verdict, neutral).refusal = s.refusal
           /\ Applied(s, verdict, neutral).version \in {s.version, Bump(s.version)}
           /\ Shows(Applied(s, verdict, neutral), s)
           /\ verdict # "idle" => Applied(s, verdict, neutral).locked = s.locked
           /\ verdict = "start" => Applied(s, verdict, neutral).source = "lab"
           /\ verdict = "stop" => Applied(s, verdict, neutral).source = "joy"
           /\ verdict = "forward" /\ neutral => Applied(s, verdict, neutral).source = "joy"
           /\ verdict = "forward" /\ ~neutral => Applied(s, verdict, neutral).source = s.source
           /\ verdict \notin {"start", "stop", "forward"} =>
                Applied(s, verdict, neutral).source = s.source
           /\ JoyActiveFresh(Applied(s, verdict, neutral)) = JoyActiveFresh(s)
           /\ JoyBusy(Applied(s, verdict, neutral)) = JoyBusy(s)
           /\ LabAsking(Applied(s, verdict, neutral)) = LabAsking(s)
<1>1. s.version \in 0..(Wrap - 1)
  BY DEF Selector
<1>2. CASE verdict = "stop"
  <2>1. Applied(s, verdict, neutral) = SwitchTo(s, "joy", "not_permitted")
    BY <1>2 DEF Applied
  <2>2. /\ SwitchTo(s, "joy", "not_permitted") \in Selector
        /\ SwitchTo(s, "joy", "not_permitted").source = "joy"
        /\ SwitchTo(s, "joy", "not_permitted").version = Bump(s.version)
        /\ SwitchTo(s, "joy", "not_permitted").refusal = s.refusal
        /\ SwitchTo(s, "joy", "not_permitted").locked = s.locked
        /\ JoyActiveFresh(SwitchTo(s, "joy", "not_permitted")) = JoyActiveFresh(s)
        /\ JoyBusy(SwitchTo(s, "joy", "not_permitted")) = JoyBusy(s)
        /\ LabAsking(SwitchTo(s, "joy", "not_permitted")) = LabAsking(s)
    BY SwitchToFacts DEF Sources, Reasons
  <2>3. Shows(SwitchTo(s, "joy", "not_permitted"), s)
    BY <1>1, <2>2, BumpFacts DEF Shows
  <2> QED BY <1>2, <2>1, <2>2, <2>3
<1>3. CASE verdict = "forward" /\ neutral
  <2>1. Applied(s, verdict, neutral) = SwitchTo(s, "joy", "lab_ended")
    BY <1>3 DEF Applied
  <2>2. /\ SwitchTo(s, "joy", "lab_ended") \in Selector
        /\ SwitchTo(s, "joy", "lab_ended").source = "joy"
        /\ SwitchTo(s, "joy", "lab_ended").version = Bump(s.version)
        /\ SwitchTo(s, "joy", "lab_ended").refusal = s.refusal
        /\ SwitchTo(s, "joy", "lab_ended").locked = s.locked
        /\ JoyActiveFresh(SwitchTo(s, "joy", "lab_ended")) = JoyActiveFresh(s)
        /\ JoyBusy(SwitchTo(s, "joy", "lab_ended")) = JoyBusy(s)
        /\ LabAsking(SwitchTo(s, "joy", "lab_ended")) = LabAsking(s)
    BY SwitchToFacts DEF Sources, Reasons
  <2>3. Shows(SwitchTo(s, "joy", "lab_ended"), s)
    BY <1>1, <2>2, BumpFacts DEF Shows
  <2> QED BY <1>3, <2>1, <2>2, <2>3
<1>4. CASE verdict = "start"
  <2>1. Applied(s, verdict, neutral) = SwitchTo(s, "lab", "lab")
    BY <1>4 DEF Applied
  <2>2. /\ SwitchTo(s, "lab", "lab") \in Selector
        /\ SwitchTo(s, "lab", "lab").source = "lab"
        /\ SwitchTo(s, "lab", "lab").version = Bump(s.version)
        /\ SwitchTo(s, "lab", "lab").refusal = s.refusal
        /\ SwitchTo(s, "lab", "lab").locked = s.locked
        /\ JoyActiveFresh(SwitchTo(s, "lab", "lab")) = JoyActiveFresh(s)
        /\ JoyBusy(SwitchTo(s, "lab", "lab")) = JoyBusy(s)
        /\ LabAsking(SwitchTo(s, "lab", "lab")) = LabAsking(s)
    BY SwitchToFacts DEF Sources, Reasons
  <2>3. Shows(SwitchTo(s, "lab", "lab"), s)
    BY <1>1, <2>2, BumpFacts DEF Shows
  <2> QED BY <1>4, <2>1, <2>2, <2>3
<1>5. CASE verdict = "idle"
  <2>1. Applied(s, verdict, neutral) = SetLocked(s, FALSE)
    BY <1>5 DEF Applied
  <2>2. /\ SetLocked(s, FALSE) \in Selector
        /\ SetLocked(s, FALSE).source = s.source
        /\ SetLocked(s, FALSE).reason = s.reason
        /\ SetLocked(s, FALSE).refusal = s.refusal
        /\ SetLocked(s, FALSE).version = s.version => SetLocked(s, FALSE).locked = s.locked
        /\ SetLocked(s, FALSE).version \in {s.version, Bump(s.version)}
        /\ JoyActiveFresh(SetLocked(s, FALSE)) = JoyActiveFresh(s)
        /\ JoyBusy(SetLocked(s, FALSE)) = JoyBusy(s)
        /\ LabAsking(SetLocked(s, FALSE)) = LabAsking(s)
    BY SetLockedFacts
  <2>3. Shows(SetLocked(s, FALSE), s)
    BY <2>2 DEF Shows
  <2> QED BY <1>5, <2>1, <2>2, <2>3
<1>6. CASE verdict \notin {"stop", "start", "idle"} /\ ~(verdict = "forward" /\ neutral)
  <2>1. Applied(s, verdict, neutral) = s
    BY <1>6 DEF Applied
  <2> QED BY <1>1, <1>6, <2>1 DEF Shows
<1> QED BY <1>2, <1>3, <1>4, <1>5, <1>6

(* The verdict on a lab command, by the selector it met.                   *)
LEMMA VerdictFacts ==
    ASSUME NEW s \in Selector, NEW neutral \in BOOLEAN, NEW permitted \in BOOLEAN
    PROVE  /\ Verdict(s, neutral, permitted) \in Verdicts
           /\ RefusalOf(Verdict(s, neutral, permitted)) \in Refusals
           /\ s.source = "lab" => Verdict(s, neutral, permitted) \in {"forward", "stop"}
           /\ s.source = "joy" => Verdict(s, neutral, permitted) \notin {"forward", "stop"}
           /\ Verdict(s, neutral, permitted) = "start" =>
                /\ s.source = "joy"
                /\ ~neutral /\ permitted /\ ~s.locked /\ ~JoyBusy(s)
           /\ Verdict(s, neutral, permitted) = "idle" => neutral
BY DEF Verdict, Verdicts, RefusalOf, Refusals, Selector, Sources

(* A lab command: it has the drive afterwards only if it is not neutral    *)
(* and had it before, or found the controller idle and itself not locked.  *)
LEMMA OnLabFacts ==
    ASSUME NEW s \in Selector, NEW neutral \in BOOLEAN, NEW permitted \in BOOLEAN
    PROVE  /\ OnLab(s, neutral, permitted) \in Selector
           /\ OnLab(s, neutral, permitted).source = "lab" =>
                ~neutral /\ (s.source = "lab" \/ (~s.locked /\ ~JoyBusy(s)))
           /\ Verdict(s, neutral, permitted) \in {"start", "forward"} /\ ~neutral =>
                OnLab(s, neutral, permitted).source = "lab"
           /\ s.locked /\ ~neutral => OnLab(s, neutral, permitted).locked
           /\ JoyActiveFresh(OnLab(s, neutral, permitted)) = JoyActiveFresh(s)
           /\ JoyBusy(OnLab(s, neutral, permitted)) = JoyBusy(s)
           /\ ~neutral => LabAsking(OnLab(s, neutral, permitted))
           /\ OnLab(s, neutral, permitted).version
                \in {s.version, Bump(s.version), Bump(Bump(s.version))}
           /\ Shows(OnLab(s, neutral, permitted), s)
<1> DEFINE v == Verdict(s, neutral, permitted)
           a == [s EXCEPT !.labAge = 0, !.labNeutral = neutral]
           p == Applied(a, v, neutral)
           r == SetRefusal(p, RefusalOf(v))
<1>1. /\ a \in Selector
      /\ a.source = s.source /\ a.reason = s.reason /\ a.refusal = s.refusal
      /\ a.locked = s.locked /\ a.version = s.version
      /\ JoyActiveFresh(a) = JoyActiveFresh(s) /\ JoyBusy(a) = JoyBusy(s)
      /\ ~neutral => LabAsking(a)
  <2>1. 0 \in 0..Never /\ 0 <= LabTimeout
    BY NeverIsLate, SelectorAssumption
  <2>2. a \in Selector
    BY <2>1 DEF Selector
  <2>3. /\ a.source = s.source /\ a.reason = s.reason /\ a.refusal = s.refusal
        /\ a.locked = s.locked /\ a.version = s.version
        /\ JoyActiveFresh(a) = JoyActiveFresh(s) /\ JoyBusy(a) = JoyBusy(s)
    BY DEF Selector, JoyActiveFresh, JoyBusy
  <2>4. ~neutral => LabAsking(a)
    BY <2>1 DEF Selector, LabAsking
  <2> QED BY <2>2, <2>3, <2>4
<1>2. /\ v \in Verdicts
      /\ RefusalOf(v) \in Refusals
      /\ s.source = "lab" => v \in {"forward", "stop"}
      /\ s.source = "joy" => v \notin {"forward", "stop"}
      /\ v = "start" => ~neutral /\ permitted /\ ~s.locked /\ ~JoyBusy(s)
      /\ v = "idle" => neutral
  BY VerdictFacts
<1>3. OnLab(s, neutral, permitted) = r
  BY DEF OnLab
<1> HIDE DEF v, a
<1>4. /\ p \in Selector
      /\ p.refusal = a.refusal
      /\ p.version \in {a.version, Bump(a.version)}
      /\ Shows(p, a)
      /\ v # "idle" => p.locked = a.locked
      /\ v = "start" => p.source = "lab"
      /\ v = "stop" => p.source = "joy"
      /\ v = "forward" /\ neutral => p.source = "joy"
      /\ v = "forward" /\ ~neutral => p.source = a.source
      /\ v \notin {"start", "stop", "forward"} => p.source = a.source
      /\ JoyActiveFresh(p) = JoyActiveFresh(a)
      /\ JoyBusy(p) = JoyBusy(a)
      /\ LabAsking(p) = LabAsking(a)
  BY <1>1, <1>2, AppliedFacts
<1> HIDE DEF p
<1>5. /\ r \in Selector
      /\ r.locked = p.locked /\ r.source = p.source /\ r.reason = p.reason
      /\ r.version = p.version => r.refusal = p.refusal
      /\ r.version \in {p.version, Bump(p.version)}
      /\ JoyActiveFresh(r) = JoyActiveFresh(p)
      /\ JoyBusy(r) = JoyBusy(p)
      /\ LabAsking(r) = LabAsking(p)
  BY <1>2, <1>4, SetRefusalFacts
<1> HIDE DEF r
<1>6. s.version \in 0..(Wrap - 1) /\ s.source \in {"joy", "lab"}
  BY DEF Selector, Sources
<1>7. Shows(r, s)
  BY <1>1, <1>4, <1>5, <1>6, BumpFacts DEF Shows
<1>8. r.version \in {s.version, Bump(s.version), Bump(Bump(s.version))}
  BY <1>1, <1>4, <1>5
<1>9. r.source = "lab" => ~neutral /\ (s.source = "lab" \/ (~s.locked /\ ~JoyBusy(s)))
  BY <1>1, <1>2, <1>4, <1>5, <1>6
<1>10. v \in {"start", "forward"} /\ ~neutral => r.source = "lab"
  BY <1>1, <1>2, <1>4, <1>5, <1>6
<1> QED BY <1>1, <1>2, <1>3, <1>4, <1>5, <1>7, <1>8, <1>9, <1>10 DEF v

(* A stopped run gives the source back; a refused command changes nothing. *)
LEMMA OnLabSource ==
    ASSUME NEW s \in Selector, NEW neutral \in BOOLEAN, NEW permitted \in BOOLEAN
    PROVE  /\ Verdict(s, neutral, permitted) = "stop" =>
                OnLab(s, neutral, permitted).source = "joy"
           /\ Verdict(s, neutral, permitted) \notin {"start", "stop", "forward"} =>
                OnLab(s, neutral, permitted).source = s.source
<1> DEFINE v == Verdict(s, neutral, permitted)
           a == [s EXCEPT !.labAge = 0, !.labNeutral = neutral]
           p == Applied(a, v, neutral)
<1>1. 0 \in 0..Never
  BY NeverIsLate
<1>2. a \in Selector /\ a.source = s.source
  BY <1>1 DEF Selector
<1>3. v \in Verdicts /\ RefusalOf(v) \in Refusals
  BY VerdictFacts
<1>4. OnLab(s, neutral, permitted) = SetRefusal(p, RefusalOf(v))
  BY DEF OnLab
<1> HIDE DEF v, a
<1>5. /\ p \in Selector
      /\ v = "stop" => p.source = "joy"
      /\ v \notin {"start", "stop", "forward"} => p.source = a.source
  BY <1>2, <1>3, AppliedFacts
<1> HIDE DEF p
<1>6. SetRefusal(p, RefusalOf(v)).source = p.source
  BY <1>3, <1>5, SetRefusalFacts
<1> QED BY <1>2, <1>4, <1>5, <1>6 DEF v

(* The tick: it gives the source to the controller or leaves it, and a     *)
(* lock goes only when the lab is silent.                                  *)
LEMMA OnTickFacts ==
    ASSUME NEW s \in Selector, NEW permitted \in BOOLEAN
    PROVE  /\ OnTick(s, permitted) \in Selector
           /\ TickStops(s, permitted) => OnTick(s, permitted).source = "joy"
           /\ ~TickStops(s, permitted) => OnTick(s, permitted).source = s.source
           /\ ~LabQuiet(s) => OnTick(s, permitted).locked = s.locked
           /\ JoyActiveFresh(OnTick(s, permitted)) = JoyActiveFresh(s)
           /\ JoyBusy(OnTick(s, permitted)) = JoyBusy(s)
           /\ LabAsking(OnTick(s, permitted)) = LabAsking(s)
           /\ Shows(OnTick(s, permitted), s)
<1> DEFINE why == IF LabQuiet(s) THEN "lab_idle" ELSE "not_permitted"
           t == IF TickStops(s, permitted) THEN SwitchTo(s, "joy", why) ELSE s
           r == IF LabQuiet(s) THEN SetLocked(t, FALSE) ELSE t
<1>1. why \in Reasons
  BY DEF Reasons
<1>2. OnTick(s, permitted) = r
  BY DEF OnTick
<1> HIDE DEF why
<1>3. /\ t \in Selector
      /\ TickStops(s, permitted) => t.source = "joy" /\ t.version = Bump(s.version)
      /\ ~TickStops(s, permitted) => t = s
      /\ t.locked = s.locked
      /\ t.refusal = s.refusal
      /\ JoyActiveFresh(t) = JoyActiveFresh(s)
      /\ JoyBusy(t) = JoyBusy(s)
      /\ LabAsking(t) = LabAsking(s)
  BY <1>1, SwitchToFacts DEF Sources
<1> HIDE DEF t
<1>4. /\ r \in Selector
      /\ r.source = t.source /\ r.reason = t.reason /\ r.refusal = t.refusal
      /\ ~LabQuiet(s) => r.locked = t.locked
      /\ r.version = t.version => r.locked = t.locked
      /\ r.version \in {t.version, Bump(t.version)}
      /\ JoyActiveFresh(r) = JoyActiveFresh(t)
      /\ JoyBusy(r) = JoyBusy(t)
      /\ LabAsking(r) = LabAsking(t)
  BY <1>3, SetLockedFacts
<1> HIDE DEF r
<1>5. s.version \in 0..(Wrap - 1)
  BY DEF Selector
<1>6. Shows(r, s)
  BY <1>3, <1>4, <1>5, BumpFacts DEF Shows
<1> QED BY <1>2, <1>3, <1>4, <1>6

(* Time makes no controller busy and no lab ask.                           *)
LEMMA AgedFacts ==
    ASSUME NEW s \in Selector
    PROVE  /\ Aged(s) \in Selector
           /\ Aged(s).source = s.source
           /\ Aged(s).reason = s.reason
           /\ Aged(s).refusal = s.refusal
           /\ Aged(s).locked = s.locked
           /\ Aged(s).version = s.version
           /\ JoyActiveFresh(Aged(s)) => JoyActiveFresh(s)
           /\ JoyBusy(Aged(s)) => JoyBusy(s)
           /\ LabAsking(s) /\ ~LabQuiet(Aged(s)) => LabAsking(Aged(s))
<1>1. \A n \in 0..Never : Older(n) \in 0..Never /\ Older(n) >= n
  BY NeverIsLate DEF Older
<1>2. Aged(s) \in Selector
  BY <1>1 DEF Aged, Selector
<1>3. /\ Aged(s).source = s.source /\ Aged(s).reason = s.reason
      /\ Aged(s).refusal = s.refusal /\ Aged(s).locked = s.locked
      /\ Aged(s).version = s.version
      /\ Aged(s).joyActive = s.joyActive /\ Aged(s).labNeutral = s.labNeutral
      /\ Aged(s).joyAge = Older(s.joyAge)
      /\ Aged(s).joyActiveAge = Older(s.joyActiveAge)
      /\ Aged(s).labAge = Older(s.labAge)
  BY DEF Aged, Selector
<1>4. /\ s.joyAge \in 0..Never /\ s.joyActiveAge \in 0..Never /\ s.labAge \in 0..Never
  BY DEF Selector
<1>5. JoyActiveFresh(Aged(s)) => JoyActiveFresh(s)
  BY <1>1, <1>3, <1>4, SelectorAssumption, NeverIsLate DEF JoyActiveFresh
<1>6. Aged(s).joyActiveAge <= Quiet => s.joyActiveAge <= Quiet
  BY <1>1, <1>3, <1>4, SelectorAssumption, NeverIsLate
<1>7. LabAsking(s) /\ ~LabQuiet(Aged(s)) => LabAsking(Aged(s))
  BY <1>1, <1>2, <1>3, <1>4, SelectorAssumption, NeverIsLate DEF LabAsking, LabQuiet
<1> QED BY <1>2, <1>3, <1>5, <1>6, <1>7 DEF JoyBusy
(* An active command of the controller is in force at once, and only an    *)
(* active one is.                                                          *)
LEMMA OnJoyFresh ==
    ASSUME NEW s \in Selector, NEW active \in BOOLEAN
    PROVE  JoyActiveFresh(OnJoy(s, active)) = active
<1> DEFINE l == IF active /\ (s.source = "lab" \/ LabAsking(s)) THEN SetLocked(s, TRUE) ELSE s
           h == Heard(l, active)
<1>1. l \in Selector
  BY SetLockedFacts
<1>2. OnJoy(s, active) = IF s.source = "lab" /\ active THEN SwitchTo(h, "joy", "controller")
                         ELSE h
  BY DEF OnJoy
<1> HIDE DEF l
<1>3. h \in Selector
  BY <1>1, HeardFacts
<1>4. h.joyAge = 0 /\ h.joyActive = active
  BY <1>1 DEF Heard, Selector
<1>5. JoyActiveFresh(h) = active
  BY <1>4, SelectorAssumption DEF JoyActiveFresh
<1> HIDE DEF h
<1> QED
  BY <1>2, <1>3, <1>5, SwitchToFacts DEF Sources, Reasons

(* A neutral command of the lab ends its asking.                           *)
LEMMA OnLabRests ==
    ASSUME NEW s \in Selector, NEW permitted \in BOOLEAN
    PROVE  ~LabAsking(OnLab(s, TRUE, permitted))
<1> DEFINE v == Verdict(s, TRUE, permitted)
           a == [s EXCEPT !.labAge = 0, !.labNeutral = TRUE]
           p == Applied(a, v, TRUE)
<1>1. 0 \in 0..Never
  BY NeverIsLate
<1>2. a \in Selector /\ a.labNeutral = TRUE
  BY <1>1 DEF Selector
<1>3. v \in Verdicts /\ RefusalOf(v) \in Refusals
  BY VerdictFacts
<1>4. OnLab(s, TRUE, permitted) = SetRefusal(p, RefusalOf(v))
  BY DEF OnLab
<1>5. ~LabAsking(a)
  BY <1>2 DEF LabAsking
<1> HIDE DEF v, a
<1>6. p \in Selector /\ LabAsking(p) = LabAsking(a)
  BY <1>2, <1>3, AppliedFacts
<1> HIDE DEF p
<1> QED
  BY <1>3, <1>4, <1>5, <1>6, SetRefusalFacts

(* Time makes no lab ask.                                                  *)
LEMMA AgedRests ==
    ASSUME NEW s \in Selector
    PROVE  LabAsking(Aged(s)) => LabAsking(s) /\ ~LabQuiet(Aged(s))
<1>1. /\ Aged(s).labNeutral = s.labNeutral /\ Aged(s).labAge = Older(s.labAge)
      /\ s.labAge \in 0..Never
  BY DEF Aged, Selector
<1>2. Older(s.labAge) \in 0..Never /\ Older(s.labAge) >= s.labAge
  BY <1>1, NeverIsLate DEF Older
<1> QED
  BY <1>1, <1>2, SelectorAssumption, NeverIsLate DEF LabAsking, LabQuiet
=============================================================================
