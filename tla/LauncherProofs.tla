--------------------------- MODULE LauncherProofs ---------------------------
(***************************************************************************)
(* Proofs about the launcher arbiter and shot_component's reader behind    *)
(* it, for every choice of the times, the powers, the tilt range and the   *)
(* commands the two sources send.                                          *)
(***************************************************************************)
EXTENDS LauncherChain, SelectorProofs, TLAPS

-----------------------------------------------------------------------------
(* The inductive invariant.                                                *)

Tilts == Int \cup {NoTilt}
Shifts == -MaxShift..MaxShift

ReaderOK ==
    reader \in [age : 0..(InputTimeout + 1), seq : 0..MaxShots, steps : Shifts, tilt : Tilts]

(* A run has the topic and its own tilt; an active controller has both.    *)
RunInv ==
    /\ sel.source = "lab" => topic.source = "lab"
    /\ sel.source = "lab" /\ out.tilt # NoTilt
         => out.tilt \in {ClampTilt(t) : t \in asked}
    /\ ControllerStands

(* The roller has turned at least as long as the arbiter thinks, and the   *)
(* last shot is as old as it thinks.                                       *)
HistoryInv == spin <= spun /\ rest = fireAge

(* What the reader has still to take is what the arbiter counted.          *)
CountInv ==
    /\ out.seq <= topic.cmd.seq
    /\ reborn # "silent" => out.seq = topic.cmd.seq /\ out.steps = topic.cmd.steps
    /\ ~Silent(reader) /\ counted = Nothing => topic.cmd.seq <= reader.seq
    /\ ~Silent(reader) /\ counted # Nothing => counted <= reader.age
    /\ ~Silent(reader) /\ reborn = "no" => reader.steps = out.steps - turned
    /\ out.steps - turned \in Shifts

(* What the topic says of the lab, once this arbiter has spoken.           *)
TopicInv == reborn # "silent" => LabRollsOnlySelected /\ RunTiltIsOwn

LaunchInv == ChainTypeOK /\ ReaderOK /\ RunInv /\ HistoryInv /\ CountInv /\ TopicInv

(* What a callback of the arbiter does, whichever it is.                   *)
ArbiterEffect ==
    /\ TypeOK' /\ RunInv' /\ HistoryInv'
    /\ out'.seq >= out.seq
    /\ LabShotIsReady /\ RunStartsAtRest
    /\ \/ /\ out' = out /\ topic' = topic
          /\ LabRollsOnlySelected => LabRollsOnlySelected'
          /\ RunTiltIsOwn => RunTiltIsOwn'
       \/ /\ topic'.fresh
          /\ topic'.cmd.seq = out'.seq /\ topic'.cmd.steps = out'.steps
          /\ LabRollsOnlySelected' /\ RunTiltIsOwn'

-----------------------------------------------------------------------------
(* Lemmas about the operators.                                             *)

LEMMA CommandFacts ==
    ASSUME NEW m \in JoyCommands \cup LabCommands
    PROVE  /\ m.roller \in 0..10 /\ m.tilt \in Tilts /\ m.steps \in Int /\ m.seq \in Nat
BY FlowAssumption DEF Commands, Powers, Tilts

(* A stream is read from counters that are integers.                       *)
LEMMA StreamFacts ==
    ASSUME NEW commands, commands \subseteq Commands, NEW s \in Stream(commands)
    PROVE  /\ s.age \in 0..(InputTimeout + 1) /\ s.seq \in Nat /\ s.steps \in Int
           /\ s.tilt \in Tilts
           /\ OlderStream(s) \in Stream(commands)
           /\ \A m \in commands : Read(m) \in Stream(commands) /\ StepsOf(s, m) \in Int
           /\ NewStream \in Stream(commands)
<1>1. /\ s.age \in 0..(InputTimeout + 1) /\ s.seq \in Nat /\ s.steps \in Int
      /\ s.tilt \in Tilts
  BY FlowAssumption DEF Stream, Commands, Tilts
<1>2. OlderStream(s) \in Stream(commands)
  <2>1. (IF s.age > InputTimeout THEN s.age ELSE s.age + 1) \in 0..(InputTimeout + 1)
    BY <1>1, FlowAssumption
  <2> QED
    BY <2>1 DEF OlderStream, Stream
<1>3. ASSUME NEW m \in commands PROVE Read(m) \in Stream(commands) /\ StepsOf(s, m) \in Int
  <2>1. m.steps \in Int
    BY DEF Commands
  <2>2. 0 \in 0..(InputTimeout + 1)
    BY FlowAssumption
  <2>3. Read(m) \in Stream(commands)
    BY <2>2 DEF Read, Stream
  <2>4. StepsOf(s, m) \in Int
    BY <1>1, <2>1 DEF StepsOf
  <2> QED
    BY <2>3, <2>4
<1>4. NewStream \in Stream(commands)
  <2>1. InputTimeout + 1 \in 0..(InputTimeout + 1)
    BY FlowAssumption
  <2> QED
    BY <2>1 DEF NewStream, Stream
<1> QED
  BY <1>1, <1>2, <1>3, <1>4

LEMMA BareFacts ==
    ASSUME NEW s \in Selector
    PROVE  /\ Bare(s) \in Selector /\ Bare(s).source = s.source
           /\ JoyActiveFresh(Bare(s)) = JoyActiveFresh(s)
<1>1. 0 \in 0..(Wrap - 1)
  BY SelectorAssumption
<1> QED
  BY <1>1 DEF Bare, Selector, Reasons, Refusals, JoyActiveFresh

LEMMA AgeFacts ==
    ASSUME NEW limit \in Nat, NEW a \in 0..limit
    PROVE  Age(a, limit) \in 0..limit /\ Age(a, limit) >= a /\ Age(a, limit) <= a + 1
BY DEF Age, AtMost

LEMMA ClampFacts ==
    ASSUME NEW t \in Tilts
    PROVE  ClampTilt(t) \in Tilts
BY FlowAssumption DEF ClampTilt, AtMost, AtLeast, Tilts

(* The power the lab gets, and the tilt.                                   *)
LEMMA LabFacts ==
    ASSUME TypeOK, NEW m \in LabCommands, NEW starting \in BOOLEAN
    PROVE  /\ LabPower(m, starting) \in 0..LabMaxPower
           /\ starting \/ Neutral(m) => LabPower(m, starting) = 0
           /\ LabTilt(m, starting) \in Tilts
           /\ \/ LabTilt(m, starting) = NoTilt
              \/ LabTilt(m, starting) = ClampTilt(m.tilt)
              \/ ~starting /\ LabTilt(m, starting) = out.tilt
<1>1. m.roller \in 0..10 /\ m.tilt \in Tilts
  BY CommandFacts
<1>2. LabMaxPower \in 0..10
  BY FlowAssumption DEF Powers
<1>3. out.tilt \in Tilts
  BY DEF TypeOK, Output, Tilts
<1>4. /\ LabPower(m, starting) \in 0..LabMaxPower
      /\ starting \/ Neutral(m) => LabPower(m, starting) = 0
  BY <1>1, <1>2 DEF LabPower, AtMost, Neutral
<1>5. /\ LabTilt(m, starting) \in Tilts
      /\ \/ LabTilt(m, starting) = NoTilt
         \/ LabTilt(m, starting) = ClampTilt(m.tilt)
         \/ ~starting /\ LabTilt(m, starting) = out.tilt
  BY <1>1, <1>3, ClampFacts DEF LabTilt, Tilts
<1> QED
  BY <1>4, <1>5

-----------------------------------------------------------------------------
(* The callbacks of the arbiter.                                           *)

(* The parts of the type invariant one by one.                             *)
LEMMA Types ==
    ASSUME TypeOK
    PROVE  /\ sel \in Selector /\ out \in Output
           /\ joyIn \in Stream(JoyCommands) /\ labIn \in Stream(LabCommands)
           /\ topic \in [fresh : BOOLEAN, source : {"nobody", "joy", "lab"}, cmd : Output]
           /\ fireAge \in 0..FireInterval /\ rest \in 0..FireInterval
           /\ spin \in -1..SpinUp /\ spun \in -1..SpinUp
           /\ asked \subseteq {m.tilt : m \in LabCommands}
           /\ out.tilt \in Tilts /\ out.steps \in Shifts /\ out.seq \in 0..MaxShots
           /\ JoyCommands \subseteq Commands /\ LabCommands \subseteq Commands
BY FlowAssumption DEF TypeOK, Output, Tilts, Shifts

(* A callback that publishes nothing.                                      *)
LEMMA SilenceEffect ==
    ASSUME TypeOK, RunInv, HistoryInv, Silence, asked' = asked,
           sel' \in Selector, sel'.source = sel.source,
           JoyActiveFresh(sel') => JoyActiveFresh(sel),
           joyIn' \in Stream(JoyCommands), labIn' \in Stream(LabCommands)
    PROVE  ArbiterEffect
<1>1. /\ out' = out /\ fireAge' = fireAge /\ spin' = spin /\ topic' = topic /\ spun' = spun
      /\ rest' = rest
  BY DEF Silence
<1>2. TypeOK'
  BY <1>1 DEF TypeOK
<1>3. RunInv' /\ HistoryInv'
  BY <1>1 DEF RunInv, HistoryInv, ControllerStands
<1>4. out.seq >= out.seq /\ ~(out.seq > out.seq)
  BY Types
<1>5. LabShotIsReady /\ RunStartsAtRest
  BY <1>1 DEF LabShotIsReady, RunStartsAtRest
<1>6. /\ LabRollsOnlySelected => LabRollsOnlySelected'
      /\ RunTiltIsOwn => RunTiltIsOwn'
  BY <1>1 DEF LabRollsOnlySelected, RunTiltIsOwn
<1> QED
  BY <1>1, <1>2, <1>3, <1>4, <1>5, <1>6 DEF ArbiterEffect

(* A run that ended without its own stop: the roller is told 0.            *)
LEMMA StopEffect ==
    ASSUME TypeOK, RunInv, HistoryInv, Stop, sel.source = "lab",
           sel' \in Selector, sel'.source = "joy",
           JoyActiveFresh(sel') => JoyActiveFresh(sel),
           joyIn' \in Stream(JoyCommands), labIn' \in Stream(LabCommands),
           asked' \subseteq {m.tilt : m \in LabCommands}
    PROVE  ArbiterEffect
<1>0. /\ out \in Output /\ spin \in -1..SpinUp /\ spun \in -1..SpinUp
      /\ rest \in 0..FireInterval /\ fireAge \in 0..FireInterval /\ out.seq \in 0..MaxShots
  BY Types
<1>1. out' \in Output /\ out'.roller = 0 /\ out'.tilt = NoTilt /\ out'.seq = out.seq
  <2>1. 0 \in 0..LabMaxPower
    BY FlowAssumption DEF Powers
  <2> QED
    BY <1>0, <2>1 DEF Stop, Output
<1>2. ~(out'.roller >= MinFirePower)
  BY <1>1, FlowAssumption DEF Powers
<1>3. /\ topic' = [fresh |-> TRUE, source |-> "lab", cmd |-> out']
      /\ spun' = -1 /\ rest' = rest /\ fireAge' = fireAge /\ spin' = -1
  BY <1>1, <1>2 DEF Stop, Publish, NotSpinning
<1>4. -1 \in -1..SpinUp
  BY FlowAssumption
<1>5. TypeOK'
  BY <1>0, <1>1, <1>3, <1>4 DEF TypeOK
<1>6. ~JoyActiveFresh(sel')
  BY DEF RunInv, ControllerStands
<1>7. RunInv' /\ HistoryInv'
  BY <1>1, <1>3, <1>6 DEF RunInv, HistoryInv, ControllerStands
<1>8. LabShotIsReady /\ RunStartsAtRest /\ out'.seq >= out.seq
  BY <1>0, <1>1, <1>3 DEF LabShotIsReady, RunStartsAtRest
<1>9. LabRollsOnlySelected' /\ RunTiltIsOwn'
  BY <1>1, <1>3 DEF LabRollsOnlySelected, RunTiltIsOwn
<1> QED
  BY <1>3, <1>5, <1>7, <1>8, <1>9 DEF ArbiterEffect

(* onJoy: an active command takes the launcher.                            *)
LEMMA JoyEffect ==
    ASSUME TypeOK, RunInv, HistoryInv, NEW m \in JoyCommands, JoyCallback(m)
    PROVE  ArbiterEffect
<1> DEFINE fired == Fires(joyIn, m)
           moved == StepsOf(joyIn, m)
           active == m.roller > 0 \/ fired \/ moved # 0 \/ Targets(joyIn, m)
<1>0. /\ sel \in Selector /\ out \in Output /\ spin \in -1..SpinUp /\ spun \in -1..SpinUp
      /\ joyIn \in Stream(JoyCommands) /\ labIn \in Stream(LabCommands)
      /\ rest \in 0..FireInterval /\ fireAge \in 0..FireInterval
      /\ out.seq \in 0..MaxShots /\ out.steps \in Shifts
      /\ asked \subseteq {x.tilt : x \in LabCommands} /\ JoyCommands \subseteq Commands
  BY Types
<1>1. /\ joyIn' \in Stream(JoyCommands) /\ moved \in Int
      /\ labIn' \in Stream(LabCommands) /\ asked' = asked
  BY <1>0, StreamFacts DEF JoyCallback
<1>2. active \in BOOLEAN
  OBVIOUS
<1>3. sel' = Bare(OnJoy(sel, active))
  BY DEF JoyCallback
<1>4. IF JoyForwarded(sel, active)
      THEN /\ out' = [ roller |-> m.roller, tilt |-> m.tilt, steps |-> out.steps + moved,
                       seq |-> IF fired THEN out.seq + 1 ELSE out.seq ]
           /\ WithinBounds
           /\ fireAge' = IF fired THEN 0 ELSE fireAge
           /\ spin' = NotSpinning
           /\ Publish("joy", out')
      ELSE Silence
  BY DEF JoyCallback
<1> HIDE DEF active, moved, fired
<1>5. /\ sel' \in Selector
      /\ active => sel'.source = "joy"
      /\ ~active => sel'.source = sel.source
      /\ JoyActiveFresh(sel') => active
  BY <1>0, <1>2, <1>3, OnJoyFacts, BareFacts
<1>6. CASE ~JoyForwarded(sel, active)
  <2>1. ~active /\ Silence
    BY <1>4, <1>6 DEF JoyForwarded
  <2> QED
    BY <1>1, <1>5, <2>1, SilenceEffect
<1>7. CASE JoyForwarded(sel, active)
  <2>1. sel'.source = "joy"
    BY <1>5, <1>7 DEF JoyForwarded
  <2>2. /\ m.roller \in {x.roller : x \in JoyCommands} /\ m.tilt \in Tilts
    BY CommandFacts
  <2>3. /\ out'.roller = m.roller /\ out'.tilt = m.tilt
        /\ out'.seq = IF fired THEN out.seq + 1 ELSE out.seq
        /\ out' = [roller |-> out'.roller, tilt |-> out'.tilt, steps |-> out'.steps,
                   seq |-> out'.seq]
        /\ out'.steps = out.steps + moved
    BY <1>4, <1>7
  <2>4. out'.seq \in 0..MaxShots /\ out'.steps \in -MaxShift..MaxShift /\ out'.seq >= out.seq
    BY <1>0, <1>4, <1>7, <2>3, FlowAssumption DEF WithinBounds
  <2>5. out' \in Output
    BY <2>2, <2>3, <2>4 DEF Output, Tilts
  <2>6. /\ topic' = [fresh |-> TRUE, source |-> "joy", cmd |-> out']
        /\ spun' = -1 /\ spin' = -1
        /\ rest' = IF out'.seq # out.seq THEN 0 ELSE rest
        /\ fireAge' = IF fired THEN 0 ELSE fireAge
    BY <1>4, <1>7 DEF Publish, NotSpinning
  <2>7. rest' = fireAge' /\ rest' \in 0..FireInterval /\ -1 \in -1..SpinUp
    BY <1>0, <2>3, <2>6, FlowAssumption DEF HistoryInv
  <2>8. TypeOK'
    BY <1>0, <1>1, <1>5, <2>5, <2>6, <2>7 DEF TypeOK
  <2>9. RunInv' /\ HistoryInv'
    BY <2>1, <2>6, <2>7 DEF RunInv, HistoryInv, ControllerStands
  <2>10. LabShotIsReady /\ RunStartsAtRest /\ LabRollsOnlySelected' /\ RunTiltIsOwn'
    BY <2>6 DEF LabShotIsReady, RunStartsAtRest, LabRollsOnlySelected, RunTiltIsOwn
  <2> QED
    BY <2>4, <2>6, <2>8, <2>9, <2>10 DEF ArbiterEffect
<1> QED
  BY <1>6, <1>7

(* A command of the lab that is forwarded.                                 *)
LEMMA ForwardEffect ==
    ASSUME TypeOK, RunInv, HistoryInv, NEW m \in LabCommands, NEW starting \in BOOLEAN,
           Forward(m, starting, ~starting /\ Neutral(m)),
           starting \/ sel.source = "lab",
           sel' \in Selector,
           sel'.source = IF ~starting /\ Neutral(m) THEN "joy" ELSE "lab",
           ~JoyActiveFresh(sel'),
           joyIn' \in Stream(JoyCommands), labIn' \in Stream(LabCommands),
           asked' = IF starting THEN {m.tilt} ELSE asked \cup {m.tilt}
    PROVE  ArbiterEffect
<1> DEFINE ended == ~starting /\ Neutral(m)
           power == LabPower(m, starting)
           tilt == LabTilt(m, starting)
           shot == Fires(labIn, m) /\ ShotAllowed(power)
           seq == IF shot THEN out.seq + 1 ELSE out.seq
           sent == [roller |-> power, tilt |-> tilt, steps |-> out.steps, seq |-> seq]
<1>0. /\ out \in Output /\ spin \in -1..SpinUp /\ spun \in -1..SpinUp
      /\ rest \in 0..FireInterval /\ fireAge \in 0..FireInterval
      /\ out.seq \in 0..MaxShots /\ out.steps \in Shifts
      /\ asked \subseteq {x.tilt : x \in LabCommands}
  BY Types
<1>1. /\ out' = IF ended THEN [sent EXCEPT !.tilt = NoTilt] ELSE sent
      /\ WithinBounds
      /\ fireAge' = IF shot THEN 0 ELSE fireAge
      /\ spin' = IF ended THEN NotSpinning ELSE SpinAfter(power)
      /\ Publish("lab", sent)
  BY DEF Forward
<1>2. /\ power \in 0..LabMaxPower /\ (starting \/ Neutral(m) => power = 0)
      /\ tilt \in Tilts
      /\ tilt = NoTilt \/ tilt = ClampTilt(m.tilt) \/ (~starting /\ tilt = out.tilt)
  BY LabFacts
<1>3. shot => /\ SpinAfter(power) # NotSpinning /\ SpinAfter(power) >= SpinUp
              /\ fireAge >= FireInterval
  BY DEF ShotAllowed
<1>4. /\ SpinUp \in Nat /\ FireInterval \in Nat /\ MaxShots \in Nat /\ MaxShift \in Nat
      /\ MinFirePower \in Nat \ {0} /\ LabMaxPower \in Nat
  BY FlowAssumption DEF Powers
<1>5. seq \in Nat /\ seq >= out.seq /\ (seq > out.seq <=> shot) /\ (seq # out.seq <=> shot)
  BY <1>0
<1> HIDE DEF power, tilt, shot, seq
<1>6. /\ sent.roller = power /\ sent.tilt = tilt /\ sent.steps = out.steps /\ sent.seq = seq
      /\ out'.roller = power /\ out'.steps = out.steps /\ out'.seq = seq
      /\ out'.tilt = IF ended THEN NoTilt ELSE tilt
      /\ out' = [roller |-> power, tilt |-> IF ended THEN NoTilt ELSE tilt,
                 steps |-> out.steps, seq |-> seq]
  BY <1>1
<1>7. seq \in 0..MaxShots
  BY <1>1, <1>4, <1>5, <1>6 DEF WithinBounds
<1>8. sent \in Output /\ out' \in Output
  <2>1. NoTilt \in Tilts
    BY DEF Tilts
  <2> HIDE DEF ended
  <2> QED
    BY <1>0, <1>2, <1>6, <1>7, <2>1 DEF Output, Tilts, Shifts
<1>9. /\ topic' = [fresh |-> TRUE, source |-> "lab", cmd |-> sent]
      /\ spun' = IF power >= MinFirePower THEN AtLeast(spun, 0) ELSE NotSpinning
      /\ rest' = IF shot THEN 0 ELSE rest
  BY <1>1, <1>5, <1>6 DEF Publish
<1> HIDE DEF sent
<1>10. /\ SpinAfter(power) \in -1..SpinUp /\ spun' \in -1..SpinUp
       /\ SpinAfter(power) <= spun' /\ NotSpinning = -1 /\ -1 <= spun'
  <2>1. spin <= spun
    BY DEF HistoryInv
  <2> QED
    BY <1>0, <1>4, <1>9, <2>1 DEF SpinAfter, AtLeast, NotSpinning
<1>11. spin' \in -1..SpinUp /\ spin' <= spun'
  BY <1>1, <1>4, <1>10
<1>12. rest' = fireAge' /\ rest' \in 0..FireInterval
  BY <1>0, <1>1, <1>4, <1>9 DEF HistoryInv
<1>13. asked' \subseteq {x.tilt : x \in LabCommands}
  BY <1>0
<1>14. TypeOK'
  BY <1>8, <1>9, <1>10, <1>11, <1>12, <1>13 DEF TypeOK
<1>15. tilt # NoTilt => tilt \in {ClampTilt(t) : t \in asked'}
  <2>1. m.tilt \in asked'
    OBVIOUS
  <2>2. CASE tilt = ClampTilt(m.tilt)
    BY <2>1, <2>2
  <2>3. CASE ~starting /\ tilt = out.tilt /\ tilt # NoTilt
    <3>1. tilt \in {ClampTilt(t) : t \in asked}
      BY <2>3 DEF RunInv
    <3>2. asked \subseteq asked'
      BY <2>3
    <3> QED
      BY <3>1, <3>2
  <2> QED
    BY <1>2, <2>2, <2>3
<1>16. RunInv'
  BY <1>6, <1>9, <1>15 DEF RunInv, ControllerStands
<1>17. HistoryInv'
  BY <1>11, <1>12 DEF HistoryInv
<1>18. LabShotIsReady
  <2> SUFFICES ASSUME out'.seq > out.seq PROVE spun' >= SpinUp /\ rest >= FireInterval
    BY DEF LabShotIsReady
  <2>1. shot
    BY <1>5, <1>6
  <2>2. SpinAfter(power) >= SpinUp /\ fireAge >= FireInterval
    BY <1>3, <2>1
  <2>3. spun' >= SpinUp
    BY <1>4, <1>10, <2>2
  <2> QED
    BY <2>2, <2>3 DEF HistoryInv
<1>19. power > 0 => ~starting /\ ~Neutral(m)
  BY <1>2
<1>20. RunStartsAtRest
  BY <1>6, <1>9, <1>19 DEF RunStartsAtRest, RunInv
<1>21. LabRollsOnlySelected'
  BY <1>6, <1>9, <1>19 DEF LabRollsOnlySelected
<1>22. RunTiltIsOwn'
  BY <1>6, <1>9, <1>15 DEF RunTiltIsOwn
<1>23. /\ out'.seq >= out.seq /\ topic'.fresh
       /\ topic'.cmd.seq = out'.seq /\ topic'.cmd.steps = out'.steps
  BY <1>5, <1>6, <1>9
<1> QED
  BY <1>14, <1>16, <1>17, <1>18, <1>20, <1>21, <1>22, <1>23 DEF ArbiterEffect

(* onLab.                                                                  *)
LEMMA LabEffect ==
    ASSUME TypeOK, RunInv, HistoryInv, NEW m \in LabCommands, NEW permitted \in BOOLEAN,
           LabCallback(m, permitted)
    PROVE  ArbiterEffect
<1> DEFINE neutral == Neutral(m)
           verdict == Verdict(sel, neutral, permitted)
<1>0. /\ sel \in Selector /\ sel.source \in {"joy", "lab"}
      /\ joyIn \in Stream(JoyCommands) /\ labIn \in Stream(LabCommands)
      /\ asked \subseteq {x.tilt : x \in LabCommands} /\ LabCommands \subseteq Commands
  BY Types DEF Selector, Sources
<1>1. /\ labIn' \in Stream(LabCommands) /\ joyIn' \in Stream(JoyCommands)
  BY <1>0, StreamFacts DEF LabCallback
<1>2. sel' = Bare(OnLab(sel, neutral, permitted))
  BY DEF LabCallback
<1>3. /\ asked' = CASE verdict = "start" -> {m.tilt}
                    [] sel.source = "lab" -> asked \cup {m.tilt}
                    [] OTHER -> asked
      /\ CASE verdict = "stop" -> Stop
           [] verdict \in {"forward", "start"} ->
                  Forward(m, verdict = "start", verdict = "forward" /\ neutral)
           [] OTHER -> Silence
  BY DEF LabCallback
<1>4. neutral \in BOOLEAN
  BY DEF Neutral
<1>5. /\ verdict \in Verdicts
      /\ sel.source = "lab" => verdict \in {"forward", "stop"}
      /\ sel.source = "joy" => verdict \notin {"forward", "stop"}
      /\ verdict = "start" => ~neutral /\ ~JoyBusy(sel) /\ sel.source = "joy"
  BY <1>0, <1>4, VerdictFacts
<1>6. /\ OnLab(sel, neutral, permitted) \in Selector
      /\ OnLab(sel, neutral, permitted).source = "lab" => ~neutral
      /\ verdict \in {"start", "forward"} /\ ~neutral
           => OnLab(sel, neutral, permitted).source = "lab"
      /\ JoyActiveFresh(OnLab(sel, neutral, permitted)) = JoyActiveFresh(sel)
  BY <1>0, <1>4, OnLabFacts
<1>7. /\ verdict = "stop" => OnLab(sel, neutral, permitted).source = "joy"
      /\ verdict \notin {"start", "stop", "forward"}
           => OnLab(sel, neutral, permitted).source = sel.source
  BY <1>0, <1>4, OnLabSource
<1> HIDE DEF neutral, verdict
<1>8. /\ sel' \in Selector /\ sel'.source \in {"joy", "lab"}
      /\ JoyActiveFresh(sel') = JoyActiveFresh(sel)
      /\ sel'.source = OnLab(sel, neutral, permitted).source
  BY <1>2, <1>6, BareFacts DEF Selector, Sources
<1>9. sel.source = "lab" => ~JoyActiveFresh(sel)
  BY DEF RunInv, ControllerStands
<1>10. CASE verdict = "stop"
  <2>1. Stop /\ sel.source = "lab" /\ sel'.source = "joy"
    BY <1>0, <1>3, <1>5, <1>7, <1>8, <1>10
  <2>2. asked' = asked \cup {m.tilt}
    BY <1>3, <1>10, <2>1
  <2> QED
    BY <1>0, <1>1, <1>8, <2>1, <2>2, StopEffect
<1>11. CASE verdict \in {"forward", "start"}
  <2> DEFINE starting == verdict = "start"
  <2>1. Forward(m, starting, verdict = "forward" /\ neutral)
    BY <1>3, <1>11
  <2>2. (verdict = "forward" /\ neutral) = (~starting /\ Neutral(m))
    BY <1>11 DEF neutral
  <2>3. starting \/ sel.source = "lab"
    BY <1>0, <1>5, <1>11
  <2>4. ~JoyActiveFresh(sel')
    BY <1>5, <1>8, <1>9, <2>3 DEF JoyBusy
  <2>5. sel'.source = IF ~starting /\ Neutral(m) THEN "joy" ELSE "lab"
    BY <1>5, <1>6, <1>8, <1>11 DEF neutral
  <2>6. asked' = IF starting THEN {m.tilt} ELSE asked \cup {m.tilt}
    <3>1. CASE starting
      BY <1>3, <1>5, <3>1
    <3>2. CASE ~starting
      BY <1>3, <2>3, <3>2
    <3> QED
      BY <3>1, <3>2
  <2>7. Forward(m, starting, ~starting /\ Neutral(m)) /\ starting \in BOOLEAN
    BY <2>1, <2>2
  <2> HIDE DEF starting
  <2> QED
    BY <1>1, <1>8, <2>3, <2>4, <2>5, <2>6, <2>7, ForwardEffect
<1>12. CASE verdict \notin {"stop", "forward", "start"}
  <2>1. Silence /\ sel'.source = sel.source /\ asked' = asked
    BY <1>0, <1>3, <1>5, <1>7, <1>8, <1>12
  <2> QED
    BY <1>1, <1>8, <2>1, SilenceEffect
<1> QED
  BY <1>10, <1>11, <1>12

(* A command of the lab that is not finite.                                *)
LEMMA BrokenEffect ==
    ASSUME TypeOK, RunInv, HistoryInv, NEW permitted \in BOOLEAN, LabBroken(permitted)
    PROVE  ArbiterEffect
<1>0. /\ sel \in Selector /\ joyIn' \in Stream(JoyCommands) /\ labIn' \in Stream(LabCommands)
      /\ asked' = asked /\ asked \subseteq {x.tilt : x \in LabCommands}
  BY Types DEF LabBroken
<1>1. CASE sel.source = "lab"
  <2>1. sel' = Bare(OnLab(sel, TRUE, permitted)) /\ Stop
    BY <1>1 DEF LabBroken
  <2>2. /\ OnLab(sel, TRUE, permitted) \in Selector
        /\ OnLab(sel, TRUE, permitted).source # "lab"
        /\ JoyActiveFresh(OnLab(sel, TRUE, permitted)) = JoyActiveFresh(sel)
    BY <1>0, OnLabFacts
  <2>3. /\ sel' \in Selector /\ sel'.source = "joy"
        /\ JoyActiveFresh(sel') = JoyActiveFresh(sel)
    BY <2>1, <2>2, BareFacts DEF Selector, Sources
  <2> QED
    BY <1>0, <1>1, <2>1, <2>3, StopEffect
<1>2. CASE sel.source # "lab"
  <2>1. sel' = sel /\ Silence
    BY <1>2 DEF LabBroken
  <2> QED
    BY <1>0, <2>1, SilenceEffect
<1> QED
  BY <1>1, <1>2

(* onTick.                                                                 *)
LEMMA TickEffect ==
    ASSUME TypeOK, RunInv, HistoryInv, NEW permitted \in BOOLEAN, TickCallback(permitted)
    PROVE  ArbiterEffect
<1>0. /\ sel \in Selector /\ joyIn' \in Stream(JoyCommands) /\ labIn' \in Stream(LabCommands)
      /\ asked' = asked /\ asked \subseteq {x.tilt : x \in LabCommands}
  BY Types DEF TickCallback
<1>1. /\ sel' = Bare(OnTick(sel, permitted))
      /\ IF TickStops(sel, permitted) THEN Stop ELSE Silence
  BY DEF TickCallback
<1>2. /\ OnTick(sel, permitted) \in Selector
      /\ TickStops(sel, permitted) => OnTick(sel, permitted).source = "joy"
      /\ ~TickStops(sel, permitted) => OnTick(sel, permitted).source = sel.source
      /\ JoyActiveFresh(OnTick(sel, permitted)) = JoyActiveFresh(sel)
  BY <1>0, OnTickFacts
<1>3. /\ sel' \in Selector
      /\ TickStops(sel, permitted) => sel'.source = "joy"
      /\ ~TickStops(sel, permitted) => sel'.source = sel.source
      /\ JoyActiveFresh(sel') = JoyActiveFresh(sel)
  BY <1>1, <1>2, BareFacts
<1>4. CASE TickStops(sel, permitted)
  <2>1. sel.source = "lab"
    BY <1>4 DEF TickStops
  <2> QED
    BY <1>0, <1>1, <1>3, <1>4, <2>1, StopEffect
<1>5. CASE ~TickStops(sel, permitted)
  BY <1>0, <1>1, <1>3, <1>5, SilenceEffect
<1> QED
  BY <1>4, <1>5

(* Any callback of the arbiter.                                            *)
LEMMA CallbackEffect ==
    ASSUME LaunchInv, ArbiterStep
    PROVE  ArbiterEffect
<1>0. TypeOK /\ RunInv /\ HistoryInv
  BY DEF LaunchInv, ChainTypeOK
<1>1. CASE \E m \in JoyCommands : JoyCallback(m)
  BY <1>0, <1>1, JoyEffect
<1>2. ASSUME NEW permitted \in BOOLEAN, NEW m \in LabCommands, LabCallback(m, permitted)
      PROVE  ArbiterEffect
  BY <1>0, <1>2, LabEffect
<1>3. ASSUME NEW permitted \in BOOLEAN, LabBroken(permitted)
      PROVE  ArbiterEffect
  BY <1>0, <1>3, BrokenEffect
<1>4. ASSUME NEW permitted \in BOOLEAN, TickCallback(permitted)
      PROVE  ArbiterEffect
  BY <1>0, <1>4, TickEffect
<1> QED
  BY <1>1, <1>2, <1>3, <1>4 DEF ArbiterStep

-----------------------------------------------------------------------------
(* Each action of the chain keeps the invariant and makes a safe step.     *)

SafeStep == LabShotIsReady /\ RunStartsAtRest /\ ShotWasJustCounted /\ StepsWereCounted

(* The invariant's types, one by one.                                      *)
LEMMA ChainTypes ==
    ASSUME LaunchInv
    PROVE  /\ TypeOK /\ RunInv /\ HistoryInv /\ CountInv /\ TopicInv
           /\ reader.age \in 0..(InputTimeout + 1) /\ reader.seq \in 0..MaxShots
           /\ reader.steps \in Shifts /\ reader.tilt \in Tilts
           /\ counted \in -1..(InputTimeout + 1)
           /\ turned \in -(2 * MaxShift)..(2 * MaxShift)
           /\ reborn \in {"no", "silent", "spoke"}
           /\ topic.cmd.seq \in 0..MaxShots /\ topic.cmd.steps \in Shifts
           /\ topic.cmd.tilt \in Tilts
BY DEF LaunchInv, ChainTypeOK, ReaderOK, TypeOK, Output, Tilts, Shifts

(* A callback counts what it publishes.                                    *)
LEMMA ArbiterStepSafe ==
    ASSUME LaunchInv, ArbiterStep
    PROVE  LaunchInv' /\ SafeStep
<1>1. ArbiterEffect
  BY CallbackEffect
<1>2. /\ counted' = IF out'.seq # out.seq /\ counted = Nothing THEN 0 ELSE counted
      /\ turned' = turned + out'.steps - out.steps
      /\ reborn' = IF reborn = "silent" /\ topic' # topic THEN "spoke" ELSE reborn
      /\ reader' = reader
  BY DEF ArbiterStep
<1>3. /\ counted \in -1..(InputTimeout + 1) /\ reader.age \in 0..(InputTimeout + 1)
      /\ reader.seq \in 0..MaxShots /\ topic.cmd.seq \in 0..MaxShots
      /\ turned \in Int /\ reborn \in {"no", "silent", "spoke"}
      /\ ReaderOK /\ CountInv /\ TopicInv
  BY ChainTypes DEF LaunchInv
<1>4. out.seq \in 0..MaxShots /\ out.steps \in Shifts
  BY ChainTypes, Types
<1>5. TypeOK' /\ RunInv' /\ HistoryInv' /\ LabShotIsReady /\ RunStartsAtRest
  BY <1>1 DEF ArbiterEffect
<1>6. out'.seq \in 0..MaxShots /\ out'.steps \in Shifts
  BY <1>5, FlowAssumption DEF TypeOK, Output, Shifts
<1>7. MaxShots \in Nat /\ MaxShift \in Nat /\ InputTimeout \in Nat
  BY FlowAssumption
<1>8. ~Takes
  <2>1. topic' = topic \/ topic'.fresh
    BY <1>1 DEF ArbiterEffect
  <2> QED
    BY <2>1 DEF Takes
<1>9. ShotWasJustCounted /\ StepsWereCounted
  BY <1>8 DEF ShotWasJustCounted, StepsWereCounted
<1>10. out'.steps - turned' = out.steps - turned
  BY <1>2, <1>3, <1>4, <1>6 DEF Shifts
<1>11. turned' \in -(2 * MaxShift)..(2 * MaxShift)
  <2>1. out.steps - turned \in Shifts
    BY <1>3 DEF CountInv
  <2> QED
    BY <1>2, <1>3, <1>4, <1>6, <1>7, <2>1 DEF Shifts
<1>12. counted' \in -1..(InputTimeout + 1) /\ reborn' \in {"no", "silent", "spoke"}
  BY <1>2, <1>3, <1>7
<1>13. ChainTypeOK'
  BY <1>2, <1>3, <1>5, <1>11, <1>12 DEF ChainTypeOK
<1>14. ReaderOK'
  BY <1>2, <1>3 DEF ReaderOK
<1>15. (Silent(reader))' = Silent(reader)
  BY <1>2 DEF Silent
<1>16. ASSUME out' = out, topic' = topic PROVE CountInv'
  <2>1. counted' = counted /\ turned' = turned /\ reborn' = reborn
    BY <1>2, <1>3, <1>4, <1>10, <1>16 DEF Shifts
  <2> QED
    BY <1>2, <1>3, <1>16, <2>1 DEF CountInv, Silent
<1>17. ASSUME topic'.cmd.seq = out'.seq, topic'.cmd.steps = out'.steps PROVE CountInv'
  <2>1. out'.seq >= out.seq
    BY <1>1 DEF ArbiterEffect
  <2>2. ~Silent(reader) /\ counted' = Nothing => topic'.cmd.seq <= reader.seq
    <3>1. counted' = Nothing => counted = Nothing /\ out'.seq = out.seq
      BY <1>2 DEF Nothing
    <3>2. ~Silent(reader) /\ counted = Nothing => out.seq <= reader.seq
      BY <1>3, <1>4 DEF CountInv
    <3> QED
      BY <1>17, <3>1, <3>2
  <2>3. ~Silent(reader) /\ counted' # Nothing => counted' <= reader.age
    BY <1>2, <1>3 DEF CountInv, Nothing
  <2>4. ~Silent(reader) /\ reborn' = "no" => reader.steps = out'.steps - turned'
    BY <1>2, <1>3, <1>10 DEF CountInv
  <2>5. out'.steps - turned' \in Shifts
    BY <1>3, <1>10 DEF CountInv
  <2>6. out'.seq <= topic'.cmd.seq
    BY <1>6, <1>17
  <2> QED
    BY <1>2, <1>15, <1>17, <2>2, <2>3, <2>4, <2>5, <2>6 DEF CountInv
<1>18. CountInv'
  BY <1>1, <1>16, <1>17 DEF ArbiterEffect
<1>19. TopicInv'
  <2>1. CASE out' = out /\ topic' = topic
    BY <1>1, <1>2, <1>3, <2>1 DEF TopicInv, ArbiterEffect
  <2> QED
    BY <1>1, <2>1 DEF TopicInv, ArbiterEffect
<1> QED
  BY <1>5, <1>9, <1>13, <1>14, <1>18, <1>19 DEF LaunchInv, SafeStep

(* shot_component takes a message: it fires only what was counted and not   *)
(* yet taken.                                                              *)
LEMMA TakeSafe ==
    ASSUME LaunchInv, Take
    PROVE  LaunchInv' /\ SafeStep
<1>0. /\ counted \in -1..(InputTimeout + 1) /\ reader.age \in 0..(InputTimeout + 1)
      /\ reader.seq \in 0..MaxShots /\ reader.steps \in Shifts
      /\ topic.cmd.seq \in 0..MaxShots /\ topic.cmd.steps \in Shifts
      /\ topic.cmd.tilt \in Tilts /\ reborn \in {"no", "silent", "spoke"}
      /\ TypeOK /\ RunInv /\ HistoryInv /\ CountInv /\ TopicInv
  BY ChainTypes
<1>1. /\ topic \in [fresh : BOOLEAN, source : {"nobody", "joy", "lab"}, cmd : Output]
      /\ out.seq \in 0..MaxShots /\ out.steps \in Shifts
  BY <1>0, Types
<1>2. PICK shoots \in BOOLEAN, tilts \in BOOLEAN :
         mech' = Moved(shoots, tilts) /\ reader' = Read(topic.cmd)
  BY DEF Take, Follow
<1>3. /\ topic' = [topic EXCEPT !.fresh = FALSE]
      /\ sel' = sel /\ joyIn' = joyIn /\ labIn' = labIn /\ out' = out
      /\ fireAge' = fireAge /\ spin' = spin /\ spun' = spun /\ rest' = rest /\ asked' = asked
      /\ counted' = Nothing /\ turned' = 0
      /\ reborn' = IF reborn = "silent" THEN reborn ELSE "no"
  BY DEF Take, Answered
<1>4. /\ topic' \in [fresh : BOOLEAN, source : {"nobody", "joy", "lab"}, cmd : Output]
      /\ topic'.source = topic.source /\ topic'.cmd = topic.cmd
  BY <1>1, <1>3
<1>5. TypeOK'
  BY <1>0, <1>3, <1>4 DEF TypeOK
<1>6. RunInv' /\ HistoryInv'
  BY <1>0, <1>3, <1>4 DEF RunInv, HistoryInv, ControllerStands
<1>7. /\ reader'.age = 0 /\ reader'.seq = topic.cmd.seq /\ reader'.steps = topic.cmd.steps
      /\ InputTimeout \in Nat /\ MaxShift \in Nat
  BY <1>2, FlowAssumption DEF Read
<1>8. ReaderOK'
  BY <1>0, <1>2, <1>7 DEF ReaderOK, Read
<1>9. ChainTypeOK'
  BY <1>0, <1>3, <1>5, <1>7 DEF ChainTypeOK, Nothing
<1>10. CountInv'
  <2>1. reborn' = "no" => out.steps = topic.cmd.steps
    BY <1>0, <1>3 DEF CountInv
  <2>2. out.steps - 0 = out.steps
    BY <1>1 DEF Shifts
  <2>3. out'.seq <= topic'.cmd.seq
    BY <1>0, <1>3, <1>4 DEF CountInv
  <2>4. reborn' # "silent" => out'.seq = topic'.cmd.seq /\ out'.steps = topic'.cmd.steps
    BY <1>0, <1>3, <1>4 DEF CountInv
  <2>5. topic'.cmd.seq <= reader'.seq
    BY <1>0, <1>4, <1>7
  <2>6. reborn' = "no" => reader'.steps = out'.steps - turned'
    BY <1>3, <1>7, <2>1, <2>2
  <2>7. out'.steps - turned' \in Shifts
    BY <1>1, <1>3, <2>2
  <2> QED
    BY <1>3, <2>3, <2>4, <2>5, <2>6, <2>7 DEF CountInv
<1>11. TopicInv'
  BY <1>0, <1>3, <1>4 DEF TopicInv, LabRollsOnlySelected, RunTiltIsOwn
<1>12. LabShotIsReady /\ RunStartsAtRest
  BY <1>1, <1>3, <1>4 DEF LabShotIsReady, RunStartsAtRest
<1>13. ShotWasJustCounted
  <2> SUFFICES ASSUME mech'.shot PROVE counted \in 0..InputTimeout
    BY DEF ShotWasJustCounted
  <2>1. Fires(reader, topic.cmd)
    BY <1>2 DEF Moved
  <2>2. ~Silent(reader) /\ topic.cmd.seq > reader.seq
    BY <2>1 DEF Fires, Baseline
  <2>3. counted # Nothing
    BY <1>0, <2>2 DEF CountInv
  <2>4. counted <= reader.age /\ reader.age <= InputTimeout
    BY <1>0, <1>7, <2>2, <2>3 DEF CountInv, Silent
  <2> QED
    BY <1>0, <1>7, <2>3, <2>4 DEF Nothing
<1>14. StepsWereCounted
  <2> SUFFICES ASSUME mech'.steps # 0, reborn = "no" PROVE mech'.steps = turned
    BY DEF StepsWereCounted
  <2>1. mech'.steps = StepsOf(reader, topic.cmd)
    BY <1>2 DEF Moved
  <2>2. ~Silent(reader) /\ mech'.steps = topic.cmd.steps - reader.steps
    BY <2>1 DEF StepsOf, Baseline
  <2>3. reader.steps = out.steps - turned /\ topic.cmd.steps = out.steps
    BY <1>0, <2>2 DEF CountInv
  <2>4. turned \in Int /\ out.steps \in Int
    BY <1>1, ChainTypes DEF Shifts
  <2> QED
    BY <2>2, <2>3, <2>4
<1> QED
  BY <1>6, <1>8, <1>9, <1>10, <1>11, <1>12, <1>13, <1>14 DEF LaunchInv, SafeStep

(* Time passes.                                                            *)
LEMMA ElapseSafe ==
    ASSUME LaunchInv, ChainElapse
    PROVE  LaunchInv' /\ SafeStep
<1>0. /\ counted \in -1..(InputTimeout + 1) /\ reader.age \in 0..(InputTimeout + 1)
      /\ ReaderOK /\ turned \in -(2 * MaxShift)..(2 * MaxShift)
      /\ reborn \in {"no", "silent", "spoke"}
      /\ TypeOK /\ RunInv /\ HistoryInv /\ CountInv /\ TopicInv
  BY ChainTypes DEF LaunchInv
<1>1. /\ sel \in Selector
      /\ joyIn \in Stream(JoyCommands) /\ labIn \in Stream(LabCommands)
      /\ fireAge \in 0..FireInterval /\ rest \in 0..FireInterval
      /\ spin \in -1..SpinUp /\ spun \in -1..SpinUp /\ out.seq \in 0..MaxShots
      /\ JoyCommands \subseteq Commands /\ LabCommands \subseteq Commands
  BY <1>0, Types
<1>2. /\ sel' = Aged(sel) /\ joyIn' = OlderStream(joyIn) /\ labIn' = OlderStream(labIn)
      /\ fireAge' = Age(fireAge, FireInterval) /\ rest' = Age(rest, FireInterval)
      /\ spin' = IF spin = NotSpinning THEN spin ELSE Age(spin, SpinUp)
      /\ spun' = IF spun = NotSpinning THEN spun ELSE Age(spun, SpinUp)
      /\ out' = out /\ topic' = topic /\ asked' = asked
      /\ reader' = OlderStream(reader)
      /\ counted' = IF counted = Nothing THEN counted ELSE Age(counted, InputTimeout + 1)
      /\ turned' = turned /\ reborn' = reborn
  BY DEF ChainElapse, Elapse
<1>3. InputTimeout \in Nat /\ FireInterval \in Nat /\ SpinUp \in Nat
  BY FlowAssumption
<1>4. /\ sel' \in Selector /\ sel'.source = sel.source
      /\ JoyActiveFresh(sel') => JoyActiveFresh(sel)
  BY <1>1, <1>2, AgedFacts
<1>5. joyIn' \in Stream(JoyCommands) /\ labIn' \in Stream(LabCommands)
  BY <1>1, <1>2, StreamFacts
<1>6. fireAge' \in 0..FireInterval /\ rest' = fireAge'
  BY <1>0, <1>1, <1>2, <1>3, AgeFacts DEF HistoryInv
<1>7. spin' \in -1..SpinUp /\ spun' \in -1..SpinUp /\ spin' <= spun'
  BY <1>0, <1>1, <1>2, <1>3 DEF HistoryInv, Age, AtMost, NotSpinning
<1>8. TypeOK'
  BY <1>0, <1>2, <1>4, <1>5, <1>6, <1>7 DEF TypeOK
<1>9. RunInv' /\ HistoryInv'
  BY <1>0, <1>2, <1>4, <1>6, <1>7 DEF RunInv, HistoryInv, ControllerStands
<1>10. /\ reader'.age = IF reader.age > InputTimeout THEN reader.age ELSE reader.age + 1
       /\ reader'.seq = reader.seq /\ reader'.steps = reader.steps
       /\ reader' \in [age : 0..(InputTimeout + 1), seq : 0..MaxShots, steps : Shifts,
                       tilt : Tilts]
  <2>1. (IF reader.age > InputTimeout THEN reader.age ELSE reader.age + 1)
           \in 0..(InputTimeout + 1)
    BY <1>0, <1>3
  <2> QED
    BY <1>0, <1>2, <2>1 DEF OlderStream, ReaderOK
<1>11. counted' \in -1..(InputTimeout + 1)
  BY <1>0, <1>2, <1>3 DEF Age, AtMost, Nothing
<1>12. ChainTypeOK' /\ ReaderOK'
  BY <1>0, <1>2, <1>8, <1>10, <1>11 DEF ChainTypeOK, ReaderOK
<1>13. ~Silent(reader') => ~Silent(reader) /\ reader'.age = reader.age + 1
  BY <1>0, <1>3, <1>10 DEF Silent
<1>14. CountInv'
  <2>1. ~Silent(reader') /\ counted' # Nothing => counted' <= reader'.age
    <3>1. counted' # Nothing => counted # Nothing /\ counted' <= counted + 1
      BY <1>0, <1>2, <1>3 DEF Age, AtMost, Nothing
    <3>2. ~Silent(reader) /\ counted # Nothing => counted <= reader.age
      BY <1>0 DEF CountInv
    <3> QED
      BY <1>0, <1>11, <1>13, <3>1, <3>2
  <2>2. counted' = Nothing => counted = Nothing
    BY <1>0, <1>2, <1>3 DEF Age, AtMost, Nothing
  <2> QED
    BY <1>0, <1>2, <1>10, <1>13, <2>1, <2>2 DEF CountInv
<1>15. TopicInv'
  BY <1>0, <1>2, <1>4 DEF TopicInv, LabRollsOnlySelected, RunTiltIsOwn
<1>16. SafeStep
  BY <1>1, <1>2 DEF SafeStep, LabShotIsReady, RunStartsAtRest, ShotWasJustCounted,
                    StepsWereCounted, Takes
<1> QED
  BY <1>9, <1>12, <1>14, <1>15, <1>16 DEF LaunchInv

LEMMA NewStreamOK ==
    /\ NewStream \in [age : 0..(InputTimeout + 1), seq : 0..MaxShots, steps : Shifts,
                      tilt : Tilts]
    /\ Silent(NewStream)
<1>1. /\ InputTimeout + 1 \in 0..(InputTimeout + 1) /\ 0 \in 0..MaxShots /\ 0 \in Shifts
      /\ NoTilt \in Tilts /\ InputTimeout + 1 > InputTimeout
  BY FlowAssumption DEF Shifts, Tilts
<1> QED
  BY <1>1 DEF NewStream, Silent

(* A new arbiter: the message it finds out is its predecessor's.           *)
LEMMA ArbiterRestartsSafe ==
    ASSUME LaunchInv, ArbiterRestarts
    PROVE  LaunchInv' /\ SafeStep
<1>0. /\ counted \in -1..(InputTimeout + 1) /\ ReaderOK
      /\ topic.cmd.seq \in 0..MaxShots /\ reader.seq \in 0..MaxShots
      /\ reader.age \in 0..(InputTimeout + 1)
      /\ TypeOK /\ RunInv /\ HistoryInv /\ CountInv /\ TopicInv
  BY ChainTypes DEF LaunchInv
<1>1. /\ topic \in [fresh : BOOLEAN, source : {"nobody", "joy", "lab"}, cmd : Output]
      /\ spun \in -1..SpinUp /\ JoyCommands \subseteq Commands /\ LabCommands \subseteq Commands
  BY <1>0, Types
<1>2. /\ sel' = NewSelector /\ joyIn' = NewStream /\ labIn' = NewStream
      /\ out' = [roller |-> 0, tilt |-> NoTilt, steps |-> 0, seq |-> 0]
      /\ fireAge' = FireInterval /\ spin' = -1 /\ rest' = FireInterval
      /\ reborn' = "silent" /\ turned' = 0 /\ asked' = {}
      /\ topic' = topic /\ spun' = spun /\ reader' = reader /\ mech' = mech
      /\ counted' = counted
  BY DEF ArbiterRestarts, NotSpinning
<1>3. /\ 0 \in 0..LabMaxPower /\ 0 \in -MaxShift..MaxShift /\ 0 \in 0..MaxShots
      /\ FireInterval \in 0..FireInterval /\ -1 \in -1..SpinUp
      /\ 0 \in -(2 * MaxShift)..(2 * MaxShift) /\ 0 - 0 \in Shifts
  BY FlowAssumption DEF Powers, Shifts
<1>4. out' \in Output
  BY <1>2, <1>3 DEF Output
<1>5. NewStream \in Stream(JoyCommands) /\ NewStream \in Stream(LabCommands)
  <2>1. InputTimeout + 1 \in 0..(InputTimeout + 1)
    BY FlowAssumption
  <2> QED
    BY <2>1 DEF NewStream, Stream
<1>6. TypeOK'
  BY <1>1, <1>2, <1>3, <1>4, <1>5, NewSelectorFacts DEF TypeOK
<1>7. RunInv' /\ HistoryInv'
  <2>1. sel'.source = "joy" /\ ~JoyActiveFresh(sel')
    BY <1>2, NewSelectorFacts
  <2>2. -1 <= spun
    BY <1>1
  <2> QED
    BY <1>2, <2>1, <2>2 DEF RunInv, HistoryInv, ControllerStands
<1>8. ChainTypeOK' /\ ReaderOK'
  BY <1>0, <1>2, <1>3, <1>6 DEF ChainTypeOK, ReaderOK
<1>9. CountInv'
  <2>1. out'.seq = 0 /\ out'.steps = 0 /\ 0 <= topic.cmd.seq
    BY <1>0, <1>2
  <2> QED
    BY <1>0, <1>2, <1>3, <2>1 DEF CountInv, Silent
<1>10. TopicInv'
  BY <1>2 DEF TopicInv
<1>11. SafeStep
  BY <1>2 DEF SafeStep, LabShotIsReady, RunStartsAtRest, ShotWasJustCounted,
              StepsWereCounted, Takes
<1> QED
  BY <1>7, <1>8, <1>9, <1>10, <1>11 DEF LaunchInv

(* A new reader does nothing and has heard nothing.                        *)
LEMMA ReaderRestartsSafe ==
    ASSUME LaunchInv, ReaderRestarts
    PROVE  LaunchInv' /\ SafeStep
<1>0. /\ reborn \in {"no", "silent", "spoke"}
      /\ TypeOK /\ RunInv /\ HistoryInv /\ CountInv /\ TopicInv
  BY ChainTypes
<1>1. /\ topic \in [fresh : BOOLEAN, source : {"nobody", "joy", "lab"}, cmd : Output]
      /\ out.seq \in 0..MaxShots /\ out.steps \in Shifts
      /\ InputTimeout \in Nat /\ MaxShift \in Nat
  BY <1>0, Types, FlowAssumption
<1>2. /\ reader' = NewStream /\ mech'.shot = FALSE /\ mech'.steps = 0
      /\ sel' = sel /\ joyIn' = joyIn /\ labIn' = labIn /\ out' = out
      /\ fireAge' = fireAge /\ spin' = spin /\ spun' = spun /\ rest' = rest /\ asked' = asked
      /\ counted' = -1 /\ turned' = 0
      /\ reborn' = IF reborn = "silent" THEN reborn ELSE "no"
  BY DEF ReaderRestarts, Answered, Idle, Nothing
<1>3. PICK kept \in BOOLEAN : topic' = [topic EXCEPT !.fresh = kept /\ @]
  BY DEF ReaderRestarts
<1>4. /\ topic'.source = topic.source /\ topic'.cmd = topic.cmd
      /\ topic' \in [fresh : BOOLEAN, source : {"nobody", "joy", "lab"}, cmd : Output]
  BY <1>1, <1>3
<1>5. TypeOK'
  BY <1>0, <1>2, <1>4 DEF TypeOK
<1>6. RunInv' /\ HistoryInv'
  BY <1>0, <1>2, <1>4 DEF RunInv, HistoryInv, ControllerStands
<1>7. ReaderOK' /\ Silent(reader')
  BY <1>2, NewStreamOK DEF ReaderOK
<1>8. ChainTypeOK'
  <2>1. reader'.age \in 0..(InputTimeout + 1) /\ reader'.seq \in 0..MaxShots
    BY <1>7 DEF ReaderOK
  <2>2. /\ counted' \in -1..(InputTimeout + 1)
        /\ turned' \in -(2 * MaxShift)..(2 * MaxShift)
        /\ reborn' \in {"no", "silent", "spoke"}
    BY <1>0, <1>1, <1>2
  <2> QED
    BY <1>5, <2>1, <2>2 DEF ChainTypeOK
<1>9. CountInv'
  <2>1. out.steps - 0 \in Shifts
    BY <1>1 DEF Shifts
  <2>2. reborn' # "silent" => reborn # "silent"
    BY <1>2
  <2> QED
    BY <1>0, <1>2, <1>4, <1>7, <2>1, <2>2 DEF CountInv
<1>10. TopicInv'
  BY <1>0, <1>2, <1>4 DEF TopicInv, LabRollsOnlySelected, RunTiltIsOwn
<1>11. SafeStep
  BY <1>1, <1>2, <1>4 DEF SafeStep, LabShotIsReady, RunStartsAtRest, ShotWasJustCounted,
                          StepsWereCounted
<1> QED
  BY <1>6, <1>7, <1>8, <1>9, <1>10, <1>11 DEF LaunchInv

-----------------------------------------------------------------------------
LEMMA LaunchInvInit == ChainInit => LaunchInv
<1> SUFFICES ASSUME ChainInit PROVE LaunchInv
  OBVIOUS
<1>1. /\ sel = NewSelector /\ joyIn = NewStream /\ labIn = NewStream
      /\ out = [roller |-> 0, tilt |-> NoTilt, steps |-> 0, seq |-> 0]
      /\ fireAge = FireInterval /\ spin = -1 /\ rest = FireInterval /\ spun = -1
      /\ asked = {} /\ reader = NewStream
      /\ topic = [fresh |-> FALSE, source |-> "nobody", cmd |-> out]
      /\ reborn = "no" /\ turned = 0 /\ counted = -1
  BY DEF ChainInit, Init, NotSpinning, Nothing
<1>2. /\ 0 \in 0..LabMaxPower /\ 0 \in -MaxShift..MaxShift /\ 0 \in 0..MaxShots
      /\ FireInterval \in 0..FireInterval /\ -1 \in -1..SpinUp
      /\ 0 \in -(2 * MaxShift)..(2 * MaxShift) /\ 0 - 0 \in Shifts
      /\ -1 \in -1..(InputTimeout + 1)
  BY FlowAssumption DEF Powers, Shifts
<1>3. out \in Output
  BY <1>1, <1>2 DEF Output
<1>4. NewStream \in Stream(JoyCommands) /\ NewStream \in Stream(LabCommands)
  <2>1. InputTimeout + 1 \in 0..(InputTimeout + 1)
    BY FlowAssumption
  <2> QED
    BY <2>1 DEF NewStream, Stream
<1>5. TypeOK
  BY <1>1, <1>2, <1>3, <1>4, NewSelectorFacts DEF TypeOK
<1>6. sel.source = "joy" /\ ~JoyActiveFresh(sel)
  BY <1>1, NewSelectorFacts
<1>7. RunInv /\ HistoryInv /\ TopicInv
  BY <1>1, <1>6 DEF RunInv, HistoryInv, ControllerStands, TopicInv, LabRollsOnlySelected,
                    RunTiltIsOwn
<1>8. ReaderOK /\ Silent(reader)
  BY <1>1, NewStreamOK DEF ReaderOK
<1>9. ChainTypeOK
  BY <1>1, <1>2, <1>5, <1>8 DEF ChainTypeOK, ReaderOK
<1>10. CountInv
  BY <1>1, <1>2, <1>8 DEF CountInv
<1> QED
  BY <1>7, <1>8, <1>9, <1>10 DEF LaunchInv

LEMMA StepSafe ==
    ASSUME LaunchInv, [ChainNext]_chainVars
    PROVE  LaunchInv' /\ [SafeStep]_chainVars
<1>1. CASE ArbiterStep
  BY <1>1, ArbiterStepSafe
<1>2. CASE Take
  BY <1>2, TakeSafe
<1>3. CASE ChainElapse
  BY <1>3, ElapseSafe
<1>4. CASE ArbiterRestarts
  BY <1>4, ArbiterRestartsSafe
<1>5. CASE ReaderRestarts
  BY <1>5, ReaderRestartsSafe
<1>6. CASE UNCHANGED chainVars
  <2>1. LaunchInv'
    BY <1>6 DEF LaunchInv, ChainTypeOK, TypeOK, ReaderOK, RunInv, HistoryInv, CountInv,
                TopicInv, ControllerStands, LabRollsOnlySelected, RunTiltIsOwn, chainVars
  <2> QED
    BY <1>6, <2>1
<1> QED
  BY <1>1, <1>2, <1>3, <1>4, <1>5, <1>6 DEF ChainNext

(* The inductive invariant of the launcher arbiter and shot_component's    *)
(* reader.                                                                 *)
THEOREM LaunchInvariant == ChainSpec => []LaunchInv
<1>1. LaunchInv /\ [ChainNext]_chainVars => LaunchInv'
  BY StepSafe
<1> QED
  BY LaunchInvInit, <1>1, PTL DEF ChainSpec

(* Once an arbiter has spoken, whatever was overwritten, restarted or      *)
(* interleaved, the lab's roller power and tilt on /launcher_command are   *)
(* those of the run the selector gives the launcher to, and no lab command *)
(* lies over a fresh active command of the controller.                     *)
THEOREM LauncherIsSafe == ChainSpec => []LauncherSafety
<1>1. LaunchInv => LauncherSafety
  BY DEF LaunchInv, TopicInv, RunInv, LauncherSafety
<1> QED
  BY LaunchInvariant, <1>1, PTL

(* A disc is fired only for a shot that was counted, once, at most          *)
(* input_timeout_sec ago, with the roller spun up and the interval over if *)
(* the lab asked; the tilt turns by the counted steps; a lab run starts    *)
(* from a resting roller.                                                  *)
THEOREM LauncherKeepsCount == ChainSpec => LauncherSteps
<1>1. LaunchInv /\ [ChainNext]_chainVars => [SafeStep]_chainVars
  BY StepSafe
<1>2. ChainSpec => [][SafeStep]_chainVars
  BY LaunchInvariant, <1>1, PTL DEF ChainSpec
<1> QED
  BY <1>2 DEF LauncherSteps, SafeStep
=============================================================================
