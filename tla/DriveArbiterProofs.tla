------------------------- MODULE DriveArbiterProofs -------------------------
(***************************************************************************)
(* Proofs about DriveArbiter: its invariants hold for every choice of the  *)
(* timeouts, the thresholds and the twists the two inputs send.            *)
(***************************************************************************)
EXTENDS DriveArbiter, SelectorProofs, TLAPS

(***************************************************************************)
(* The inductive invariant.  A lab that has the drive was not neutral, an  *)
(* overridden run is still asking, and the status was sent for the present *)
(* version.                                                                *)
(***************************************************************************)
ArbiterInv ==
    /\ TypeOK
    /\ LabMotionIsSelected
    /\ ControllerExcludesLab
    /\ ControllerCommandStands
    /\ OverrideHolds
    /\ overridden => LabAsking(sel)
    /\ StatusIsCurrent
    /\ sentVersion = sel.version

-----------------------------------------------------------------------------
(* The steps.                                                              *)

(* publishStatus keeps the last status true of the selector.               *)
LEMMA StatusKept ==
    ASSUME TypeOK, StatusIsCurrent, sentVersion = sel.version,
           NEW s \in Selector, Shows(s, sel), NEW force \in BOOLEAN,
           PublishStatus(s, force)
    PROVE  /\ sel' = s
           /\ StatusIsCurrent'
           /\ sentVersion' = sel'.version
           /\ sentVersion' \in 0..(Wrap - 1)
           /\ status' \in [ active_source : Sources, switch_reason : Reasons,
                            lab_permitted : BOOLEAN, lab_locked : BOOLEAN,
                            lab_refusal : Refusals ]
<1>1. sel' = s
  BY DEF PublishStatus
<1>2. Permitted \in BOOLEAN
  BY DEF Permitted
<1>3. CASE force \/ sentVersion # s.version \/ status.lab_permitted # Permitted
  <2>1. status' = StatusOf(s, Permitted) /\ sentVersion' = s.version
    BY <1>3 DEF PublishStatus
  <2> QED BY <1>1, <1>2, <2>1 DEF StatusIsCurrent, StatusOf, Selector
<1>4. CASE ~(force \/ sentVersion # s.version \/ status.lab_permitted # Permitted)
  <2>1. status' = status /\ sentVersion' = sentVersion /\ s.version = sel.version
    BY <1>4 DEF PublishStatus
  <2>2. /\ s.source = sel.source /\ s.reason = sel.reason
        /\ s.refusal = sel.refusal /\ s.locked = sel.locked
    BY <2>1 DEF Shows
  <2> QED BY <1>1, <2>1, <2>2 DEF StatusIsCurrent, StatusOf, TypeOK
<1> QED BY <1>3, <1>4, <1>1

(* The initial state.                                                      *)
LEMMA InitEstablishes == Init => ArbiterInv
<1> SUFFICES ASSUME Init PROVE ArbiterInv
  OBVIOUS
<1>1. NewSelector \in Selector
  BY NewSelectorFacts
<1>2. TypeOK
  <2>1. 0 \in 0..(Lease + 1) /\ 0 \in 0..(Wrap - 1)
    BY ArbiterAssumption, SelectorAssumption
  <2>2. perm \in [heard : {"nothing", "allowed", "denied"}, age : 0..(Lease + 1)]
    BY <2>1 DEF Init
  <2>3. out \in [by : {"nobody", "joy", "lab"}, twist : Int]
    BY DEF Init, Publication
  <2>4. status \in [ active_source : Sources, switch_reason : Reasons, lab_permitted : BOOLEAN,
                     lab_locked : BOOLEAN, lab_refusal : Refusals ]
    BY DEF Init, StatusOf, NewSelector, Sources, Reasons, Refusals
  <2>5. sel \in Selector /\ sentVersion \in 0..(Wrap - 1) /\ joyTwist \in Int
    BY <1>1, <2>1 DEF Init
  <2>6. overridden \in BOOLEAN /\ labAlive \in BOOLEAN /\ teacher \in BOOLEAN
    BY DEF Init
  <2> QED BY <2>2, <2>3, <2>4, <2>5, <2>6 DEF TypeOK
<1> QED
  BY <1>2 DEF Init, ArbiterInv, LabMotionIsSelected, LabMoves, ControllerExcludesLab,
          ControllerCommandStands, OverrideHolds, StatusIsCurrent, StatusOf, NewSelector,
          JoyActiveFresh, Publication

(* Clamping a twist gives a twist.                                         *)
LEMMA ClampFacts ==
    ASSUME NEW v \in Int
    PROVE  Clamp(v) \in Int
BY ArbiterAssumption DEF Clamp

(* A controller command.                                                   *)
LEMMA JoyPreserves ==
    ASSUME ArbiterInv, NEW v \in JoyTwists, JoyCallback(v)
    PROVE  ArbiterInv'
<1> DEFINE a == Active(v)
           s == OnJoy(sel, a)
<1>1. v \in Int /\ a \in BOOLEAN
  BY ArbiterAssumption DEF Active
<1>2. sel \in Selector
  BY DEF ArbiterInv, TypeOK
<1>3. /\ s \in Selector
      /\ a => s.source = "joy"
      /\ ~a => s.source = sel.source
      /\ sel.locked => s.locked
      /\ a /\ LabAsking(sel) => s.locked
      /\ JoyActiveFresh(s) => a
      /\ ~a /\ JoyBusy(s) => JoyBusy(sel)
      /\ LabAsking(s) = LabAsking(sel)
      /\ Shows(s, sel)
  BY <1>1, <1>2, OnJoyFacts
<1>4. PublishStatus(s, FALSE) /\ joyTwist' = v
  BY DEF JoyCallback
<1>5. overridden' = (overridden \/ (a /\ LabAsking(sel)))
  BY DEF JoyCallback
<1>6. out' = IF JoyForwarded(sel, a) THEN Publication("joy", v) ELSE out
  BY DEF JoyCallback
<1> HIDE DEF s, a
<1>7. /\ sel' = s
      /\ StatusIsCurrent'
      /\ sentVersion' = sel'.version
      /\ sentVersion' \in 0..(Wrap - 1)
      /\ status' \in [ active_source : Sources, switch_reason : Reasons,
                       lab_permitted : BOOLEAN, lab_locked : BOOLEAN,
                       lab_refusal : Refusals ]
  BY <1>3, <1>4, StatusKept DEF ArbiterInv
<1>8. TypeOK'
  <2>1. out' \in [by : {"nobody", "joy", "lab"}, twist : Int]
    BY <1>1, <1>6 DEF ArbiterInv, TypeOK, Publication
  <2>2. overridden' \in BOOLEAN
    BY <1>5
  <2> QED BY <1>1, <1>3, <1>4, <1>7, <2>1, <2>2 DEF ArbiterInv, TypeOK, JoyCallback
<1>9. LabMotionIsSelected'
  BY <1>3, <1>6, <1>7
     DEF ArbiterInv, LabMotionIsSelected, LabMoves, JoyForwarded, Publication
<1>10. ControllerExcludesLab'
  BY <1>1, <1>3, <1>7 DEF ArbiterInv, ControllerExcludesLab
<1>11. ControllerCommandStands'
  <2> SUFFICES ASSUME JoyActiveFresh(s) PROVE out' = Publication("joy", joyTwist')
    BY <1>7 DEF ControllerCommandStands
  <2> QED BY <1>3, <1>4, <1>6 DEF JoyForwarded
<1>12. overridden' => s.source = "joy" /\ s.locked /\ LabAsking(s)
  <2>1. CASE a
    BY <1>3, <1>5, <2>1 DEF ArbiterInv, OverrideHolds
  <2>2. CASE ~a
    BY <1>3, <1>5, <2>2 DEF ArbiterInv, OverrideHolds
  <2> QED BY <2>1, <2>2
<1>13. OverrideHolds' /\ (overridden => LabAsking(sel))'
  BY <1>7, <1>12 DEF OverrideHolds
<1> QED BY <1>7, <1>8, <1>9, <1>10, <1>11, <1>13 DEF ArbiterInv

(* A finite lab command.                                                   *)
LEMMA LabPreserves ==
    ASSUME ArbiterInv, NEW v \in LabTwists, LabCallback(v)
    PROVE  ArbiterInv'
<1> DEFINE n == Clamp(v) = 0
           w == Verdict(sel, n, Permitted)
           s == OnLab(sel, n, Permitted)
<1>1. /\ Clamp(v) \in Int /\ n \in BOOLEAN /\ Permitted \in BOOLEAN
  BY ArbiterAssumption, ClampFacts DEF Permitted
<1>2. sel \in Selector /\ sel.source \in {"joy", "lab"}
  BY DEF ArbiterInv, TypeOK, Selector, Sources
<1>3. /\ s \in Selector
      /\ s.source = "lab" => ~n /\ (sel.source = "lab" \/ (~sel.locked /\ ~JoyBusy(sel)))
      /\ w \in {"start", "forward"} /\ ~n => s.source = "lab"
      /\ sel.locked /\ ~n => s.locked
      /\ JoyActiveFresh(s) = JoyActiveFresh(sel)
      /\ JoyBusy(s) = JoyBusy(sel)
      /\ ~n => LabAsking(s)
      /\ Shows(s, sel)
  BY <1>1, <1>2, OnLabFacts
<1>4. /\ sel.source = "lab" => w \in {"forward", "stop"}
      /\ sel.source = "joy" => w \notin {"forward", "stop"}
      /\ w = "start" => ~JoyBusy(sel)
  BY <1>1, <1>2, VerdictFacts
<1>5. PublishStatus(s, FALSE) /\ overridden' = (overridden /\ ~n)
  BY DEF LabCallback
<1>6. out' = IF w \in {"forward", "start"} THEN Publication("lab", Clamp(v))
             ELSE IF w = "stop" \/ StartupNeutral(v) THEN Publication("lab", 0)
             ELSE out
  BY DEF LabCallback
<1>7. UNCHANGED <<perm, joyTwist, labAlive, teacher>>
  BY DEF LabCallback
<1>8. Clamp(v) # 0 <=> ~n
  OBVIOUS
<1> HIDE DEF s, w, n
<1>9. /\ sel' = s
      /\ StatusIsCurrent'
      /\ sentVersion' = sel'.version
      /\ sentVersion' \in 0..(Wrap - 1)
      /\ status' \in [ active_source : Sources, switch_reason : Reasons,
                       lab_permitted : BOOLEAN, lab_locked : BOOLEAN,
                       lab_refusal : Refusals ]
  BY <1>3, <1>5, StatusKept DEF ArbiterInv
<1>10. out' \in [by : {"nobody", "joy", "lab"}, twist : Int]
  BY <1>1, <1>6 DEF ArbiterInv, TypeOK, Publication
<1>11. TypeOK'
  BY <1>3, <1>5, <1>7, <1>9, <1>10 DEF ArbiterInv, TypeOK
<1>12. LabMotionIsSelected'
  <2>1. CASE w \in {"forward", "start"}
    BY <1>3, <1>6, <1>8, <1>9, <2>1 DEF LabMotionIsSelected, LabMoves, Publication
  <2>2. CASE w \notin {"forward", "start"} /\ (w = "stop" \/ StartupNeutral(v))
    BY <1>6, <2>2 DEF LabMotionIsSelected, LabMoves, Publication
  <2>3. CASE w \notin {"forward", "start", "stop"} /\ ~StartupNeutral(v)
    <3>1. out' = out /\ sel.source = "joy"
      BY <1>2, <1>4, <1>6, <2>3
    <3> QED BY <3>1 DEF ArbiterInv, LabMotionIsSelected, LabMoves
  <2> QED BY <2>1, <2>2, <2>3
<1>13. ControllerExcludesLab'
  BY <1>3, <1>9 DEF ArbiterInv, ControllerExcludesLab
<1>14. ControllerCommandStands'
  <2> SUFFICES ASSUME JoyActiveFresh(s) PROVE out' = Publication("joy", joyTwist')
    BY <1>9 DEF ControllerCommandStands
  <2>1. JoyActiveFresh(sel) /\ JoyBusy(sel)
    BY <1>3 DEF JoyBusy
  <2>2. sel.source = "joy"
    BY <1>2, <2>1 DEF ArbiterInv, ControllerExcludesLab
  <2>3. w \notin {"forward", "start", "stop"} /\ ~StartupNeutral(v)
    BY <1>4, <2>1, <2>2 DEF StartupNeutral
  <2> QED BY <1>6, <1>7, <2>1, <2>3 DEF ArbiterInv, ControllerCommandStands
<1>15. overridden' => s.source = "joy" /\ s.locked /\ LabAsking(s)
  <2> SUFFICES ASSUME overridden, ~n PROVE s.source = "joy" /\ s.locked /\ LabAsking(s)
    BY <1>5 DEF ArbiterInv, TypeOK
  <2>1. sel.source = "joy" /\ sel.locked
    BY DEF ArbiterInv, OverrideHolds
  <2>2. s.source \in {"joy", "lab"}
    BY <1>3 DEF Selector, Sources
  <2> QED BY <1>3, <2>1, <2>2
<1>16. OverrideHolds' /\ (overridden => LabAsking(sel))'
  BY <1>9, <1>15 DEF OverrideHolds
<1> QED BY <1>9, <1>11, <1>12, <1>13, <1>14, <1>16 DEF ArbiterInv

(* A lab command that is not finite.                                       *)
LEMMA InvalidPreserves ==
    ASSUME ArbiterInv, LabInvalid
    PROVE  ArbiterInv'
<1> DEFINE t == IF sel.source = "lab" THEN OnLab(sel, TRUE, Permitted) ELSE sel
           s == SetRefusal(t, "invalid")
<1>1. Permitted \in BOOLEAN
  BY DEF Permitted
<1>2. /\ sel \in Selector /\ sel.source \in {"joy", "lab"}
      /\ sel.version \in 0..(Wrap - 1)
  BY DEF ArbiterInv, TypeOK, Selector, Sources
<1>3. /\ t \in Selector
      /\ t.source = "joy"
      /\ sel.source = "joy" => t = sel
      /\ JoyActiveFresh(t) = JoyActiveFresh(sel)
      /\ t.version \in {sel.version, Bump(sel.version), Bump(Bump(sel.version))}
      /\ Shows(t, sel)
  <2>1. CASE sel.source = "lab"
    <3>1. /\ OnLab(sel, TRUE, Permitted) \in Selector
          /\ OnLab(sel, TRUE, Permitted).source # "lab"
          /\ JoyActiveFresh(OnLab(sel, TRUE, Permitted)) = JoyActiveFresh(sel)
          /\ OnLab(sel, TRUE, Permitted).version
               \in {sel.version, Bump(sel.version), Bump(Bump(sel.version))}
          /\ Shows(OnLab(sel, TRUE, Permitted), sel)
      BY <1>1, <1>2, OnLabFacts
    <3>2. OnLab(sel, TRUE, Permitted).source = "joy"
      BY <3>1 DEF Selector, Sources
    <3> QED BY <2>1, <3>1, <3>2
  <2>2. CASE sel.source = "joy"
    BY <1>2, <2>2 DEF Shows
  <2> QED BY <1>2, <2>1, <2>2
<1>4. PublishStatus(s, FALSE)
  BY DEF LabInvalid
<1>5. out' = IF sel.source = "lab" THEN Publication("lab", 0) ELSE out
  BY DEF LabInvalid
<1>6. UNCHANGED <<perm, joyTwist, overridden, labAlive, teacher>>
  BY DEF LabInvalid
<1> HIDE DEF t
<1>7. /\ s \in Selector
      /\ s.locked = t.locked /\ s.source = t.source /\ s.reason = t.reason
      /\ s.version = t.version => s.refusal = t.refusal
      /\ s.version \in {t.version, Bump(t.version)}
      /\ JoyActiveFresh(s) = JoyActiveFresh(t)
      /\ LabAsking(s) = LabAsking(t)
  BY <1>3, SetRefusalFacts DEF Refusals
<1> HIDE DEF s
<1>8. Shows(s, sel)
  BY <1>2, <1>3, <1>7, BumpFacts DEF Shows
<1>9. /\ sel' = s
      /\ StatusIsCurrent'
      /\ sentVersion' = sel'.version
      /\ sentVersion' \in 0..(Wrap - 1)
      /\ status' \in [ active_source : Sources, switch_reason : Reasons,
                       lab_permitted : BOOLEAN, lab_locked : BOOLEAN,
                       lab_refusal : Refusals ]
  BY <1>4, <1>7, <1>8, StatusKept DEF ArbiterInv
<1>10. out' \in [by : {"nobody", "joy", "lab"}, twist : Int]
  BY <1>5 DEF ArbiterInv, TypeOK, Publication
<1>11. TypeOK'
  BY <1>6, <1>7, <1>9, <1>10 DEF ArbiterInv, TypeOK
<1>12. LabMotionIsSelected'
  BY <1>2, <1>5 DEF ArbiterInv, LabMotionIsSelected, LabMoves, Publication
<1>13. ControllerExcludesLab'
  BY <1>3, <1>7, <1>9 DEF ControllerExcludesLab
<1>14. ControllerCommandStands'
  <2> SUFFICES ASSUME JoyActiveFresh(s) PROVE out' = Publication("joy", joyTwist')
    BY <1>9 DEF ControllerCommandStands
  <2>1. JoyActiveFresh(sel) /\ sel.source # "lab"
    BY <1>3, <1>7 DEF ArbiterInv, ControllerExcludesLab, JoyBusy
  <2> QED BY <1>5, <1>6, <2>1 DEF ArbiterInv, ControllerCommandStands
<1>15. overridden => s.source = "joy" /\ s.locked /\ LabAsking(s)
  BY <1>2, <1>3, <1>7 DEF ArbiterInv, OverrideHolds
<1>16. OverrideHolds' /\ (overridden => LabAsking(sel))'
  BY <1>6, <1>9, <1>15 DEF OverrideHolds
<1> QED BY <1>9, <1>11, <1>12, <1>13, <1>14, <1>16 DEF ArbiterInv

(* The tick timer.                                                         *)
LEMMA TickPreserves ==
    ASSUME ArbiterInv, TickCallback
    PROVE  ArbiterInv'
<1> DEFINE s == OnTick(sel, Permitted)
<1>1. Permitted \in BOOLEAN
  BY DEF Permitted
<1>2. sel \in Selector
  BY DEF ArbiterInv, TypeOK
<1>3. /\ s \in Selector
      /\ TickStops(sel, Permitted) => s.source = "joy"
      /\ ~TickStops(sel, Permitted) => s.source = sel.source
      /\ ~LabQuiet(sel) => s.locked = sel.locked
      /\ JoyActiveFresh(s) = JoyActiveFresh(sel)
      /\ JoyBusy(s) = JoyBusy(sel)
      /\ LabAsking(s) = LabAsking(sel)
      /\ Shows(s, sel)
  BY <1>1, <1>2, OnTickFacts
<1>4. PublishStatus(s, FALSE)
  BY DEF TickCallback
<1>5. out' = IF TickStops(sel, Permitted) THEN Publication("lab", 0) ELSE out
  BY DEF TickCallback
<1>6. UNCHANGED <<perm, joyTwist, overridden, labAlive, teacher>>
  BY DEF TickCallback
<1> HIDE DEF s
<1>7. /\ sel' = s
      /\ StatusIsCurrent'
      /\ sentVersion' = sel'.version
      /\ sentVersion' \in 0..(Wrap - 1)
      /\ status' \in [ active_source : Sources, switch_reason : Reasons,
                       lab_permitted : BOOLEAN, lab_locked : BOOLEAN,
                       lab_refusal : Refusals ]
  BY <1>3, <1>4, StatusKept DEF ArbiterInv
<1>8. out' \in [by : {"nobody", "joy", "lab"}, twist : Int]
  BY <1>5 DEF ArbiterInv, TypeOK, Publication
<1>9. TypeOK'
  BY <1>3, <1>6, <1>7, <1>8 DEF ArbiterInv, TypeOK
<1>10. LabMotionIsSelected'
  <2>1. CASE TickStops(sel, Permitted)
    BY <1>5, <2>1 DEF LabMotionIsSelected, LabMoves, Publication
  <2>2. CASE ~TickStops(sel, Permitted)
    BY <1>3, <1>5, <1>7, <2>2 DEF ArbiterInv, LabMotionIsSelected, LabMoves
  <2> QED BY <2>1, <2>2
<1>11. ControllerExcludesLab'
  BY <1>3, <1>7 DEF ArbiterInv, ControllerExcludesLab, TickStops
<1>12. ControllerCommandStands'
  <2> SUFFICES ASSUME JoyActiveFresh(s) PROVE out' = Publication("joy", joyTwist')
    BY <1>7 DEF ControllerCommandStands
  <2>1. JoyActiveFresh(sel) /\ sel.source # "lab"
    BY <1>3 DEF ArbiterInv, ControllerExcludesLab, JoyBusy
  <2> QED BY <1>5, <1>6, <2>1 DEF ArbiterInv, ControllerCommandStands, TickStops
<1>13. overridden => s.source = "joy" /\ s.locked /\ LabAsking(s)
  <2> SUFFICES ASSUME overridden PROVE s.source = "joy" /\ s.locked /\ LabAsking(s)
    OBVIOUS
  <2>1. sel.source = "joy" /\ sel.locked /\ LabAsking(sel)
    BY DEF ArbiterInv, OverrideHolds
  <2>2. sel.labAge \in Int /\ LabTimeout \in Int
    BY <1>2, NeverIsLate, SelectorAssumption DEF Selector
  <2>3. ~LabQuiet(sel)
    BY <2>1, <2>2 DEF LabAsking, LabQuiet
  <2> QED BY <1>3, <2>1, <2>3 DEF TickStops
<1>14. OverrideHolds' /\ (overridden => LabAsking(sel))'
  BY <1>6, <1>7, <1>13 DEF OverrideHolds
<1> QED BY <1>7, <1>9, <1>10, <1>11, <1>12, <1>14 DEF ArbiterInv

(* The status timer.                                                       *)
LEMMA StatusTimerPreserves ==
    ASSUME ArbiterInv, StatusTimer
    PROVE  ArbiterInv'
<1>1. sel \in Selector /\ Shows(sel, sel)
  BY DEF ArbiterInv, TypeOK, Shows
<1>2. PublishStatus(sel, TRUE) /\ UNCHANGED <<out, perm, joyTwist, overridden, labAlive, teacher>>
  BY DEF StatusTimer
<1>3. /\ sel' = sel
      /\ StatusIsCurrent'
      /\ sentVersion' = sel'.version
      /\ sentVersion' \in 0..(Wrap - 1)
      /\ status' \in [ active_source : Sources, switch_reason : Reasons,
                       lab_permitted : BOOLEAN, lab_locked : BOOLEAN,
                       lab_refusal : Refusals ]
  BY <1>1, <1>2, StatusKept DEF ArbiterInv
<1> QED BY <1>1, <1>2, <1>3
        DEF ArbiterInv, TypeOK, LabMotionIsSelected, LabMoves, ControllerExcludesLab,
            ControllerCommandStands, OverrideHolds

(* A permission message, and the two peers that may die.                   *)
LEMMA PeersPreserve ==
    ASSUME ArbiterInv,
           \/ \E heard \in {"allowed", "denied"} : PermissionReceived(heard)
           \/ LabDies \/ TeacherDies \/ UNCHANGED vars
    PROVE  ArbiterInv'
<1>1. UNCHANGED <<sel, out, status, sentVersion, joyTwist, overridden>>
  BY DEF PermissionReceived, LabDies, TeacherDies, vars
<1>2. perm' \in [heard : {"nothing", "allowed", "denied"}, age : 0..(Lease + 1)]
  <2>1. 0 \in 0..(Lease + 1)
    BY ArbiterAssumption
  <2> QED BY <2>1 DEF ArbiterInv, TypeOK, PermissionReceived, Told, LabDies, TeacherDies, vars
<1>3. labAlive' \in BOOLEAN /\ teacher' \in BOOLEAN
  BY DEF ArbiterInv, TypeOK, PermissionReceived, LabDies, TeacherDies, vars
<1> QED BY <1>1, <1>2, <1>3
        DEF ArbiterInv, TypeOK, LabMotionIsSelected, LabMoves, ControllerExcludesLab,
            ControllerCommandStands, OverrideHolds, StatusIsCurrent

(* Time passes.                                                            *)
LEMMA ElapsePreserves ==
    ASSUME ArbiterInv, Elapse
    PROVE  ArbiterInv'
<1> DEFINE s == Aged(sel)
<1>1. sel \in Selector
  BY DEF ArbiterInv, TypeOK
<1>2. /\ s \in Selector
      /\ s.source = sel.source /\ s.reason = sel.reason
      /\ s.refusal = sel.refusal /\ s.locked = sel.locked /\ s.version = sel.version
      /\ JoyActiveFresh(s) => JoyActiveFresh(sel)
      /\ JoyBusy(s) => JoyBusy(sel)
      /\ LabAsking(sel) /\ ~LabQuiet(s) => LabAsking(s)
  BY <1>1, AgedFacts
<1>3. sel' = s /\ overridden' = (overridden /\ ~LabQuiet(s))
  BY DEF Elapse
<1>4. UNCHANGED <<out, status, sentVersion, joyTwist, labAlive, teacher>>
  BY DEF Elapse
<1> HIDE DEF s
<1>5. perm' \in [heard : {"nothing", "allowed", "denied"}, age : 0..(Lease + 1)]
  <2>1. perm.age \in 0..(Lease + 1)
    BY DEF ArbiterInv, TypeOK
  <2>2. (IF perm.age > Lease THEN perm.age ELSE perm.age + 1) \in 0..(Lease + 1)
    BY <2>1, ArbiterAssumption
  <2> QED BY <2>2 DEF ArbiterInv, TypeOK, Elapse
<1>6. TypeOK'
  BY <1>2, <1>3, <1>4, <1>5 DEF ArbiterInv, TypeOK
<1>7. LabMotionIsSelected' /\ ControllerExcludesLab' /\ ControllerCommandStands'
  BY <1>2, <1>3, <1>4
     DEF ArbiterInv, LabMotionIsSelected, LabMoves, ControllerExcludesLab, ControllerCommandStands
<1>8. overridden' => s.source = "joy" /\ s.locked /\ LabAsking(s)
  BY <1>2, <1>3 DEF ArbiterInv, OverrideHolds
<1>9. OverrideHolds' /\ (overridden => LabAsking(sel))'
  BY <1>3, <1>8 DEF OverrideHolds
<1>10. StatusIsCurrent' /\ sentVersion' = sel'.version
  BY <1>2, <1>3, <1>4 DEF ArbiterInv, StatusIsCurrent, StatusOf
<1> QED BY <1>6, <1>7, <1>9, <1>10 DEF ArbiterInv

(* Every step keeps the inductive invariant.                               *)
LEMMA NextPreserves == ArbiterInv /\ [Next]_vars => ArbiterInv'
<1> SUFFICES ASSUME ArbiterInv, [Next]_vars PROVE ArbiterInv'
  OBVIOUS
<1>1. CASE \E v \in JoyTwists : JoyCallback(v)
  BY <1>1, JoyPreserves
<1>2. CASE \E v \in LabTwists : LabCallback(v)
  BY <1>2, LabPreserves
<1>3. CASE LabInvalid
  BY <1>3, InvalidPreserves
<1>4. CASE TickCallback
  BY <1>4, TickPreserves
<1>5. CASE StatusTimer
  BY <1>5, StatusTimerPreserves
<1>6. CASE Elapse
  BY <1>6, ElapsePreserves
<1>7. CASE \/ \E heard \in {"allowed", "denied"} : PermissionReceived(heard)
           \/ LabDies \/ TeacherDies \/ UNCHANGED vars
  BY <1>7, PeersPreserve
<1> QED BY <1>1, <1>2, <1>3, <1>4, <1>5, <1>6, <1>7 DEF Next

(* The inductive invariant holds in every reachable state.                 *)
LEMMA ArbiterInvariant == Spec => []ArbiterInv
BY InitEstablishes, NextPreserves, PTL DEF Spec

-----------------------------------------------------------------------------
(* The theorems.                                                           *)

(* Every variable of the drive arbiter keeps its type.                     *)
THEOREM TypeCorrect == Spec => []TypeOK
<1>1. ArbiterInv => TypeOK
  BY DEF ArbiterInv
<1> QED BY <1>1, ArbiterInvariant, PTL

(* The wheels move for the lab only while the lab is the selected source,  *)
(* however a run of joyCallback, labCallback and tickCallback ends it.     *)
THEOREM LabMotionSelected == Spec => []LabMotionIsSelected
<1>1. ArbiterInv => LabMotionIsSelected
  BY DEF ArbiterInv
<1> QED BY <1>1, ArbiterInvariant, PTL

(* The controller always wins: the lab never has the drive while the        *)
(* controller is busy, and what an active controller sent stands as the    *)
(* last published twist.                                                   *)
THEOREM ControllerWins == Spec => [](ControllerExcludesLab /\ ControllerCommandStands)
<1>1. ArbiterInv => ControllerExcludesLab /\ ControllerCommandStands
  BY DEF ArbiterInv
<1> QED BY <1>1, ArbiterInvariant, PTL

(* A lab run the controller interrupted stays locked out until it ends.    *)
THEOREM OverrideKept == Spec => []OverrideHolds
<1>1. ArbiterInv => OverrideHolds
  BY DEF ArbiterInv
<1> QED BY <1>1, ArbiterInvariant, PTL

(* publishStatus never leaves a stale status behind, for every width of    *)
(* the version counter above two bits.                                     *)
THEOREM StatusCurrent == Spec => []StatusIsCurrent
<1>1. ArbiterInv => StatusIsCurrent
  BY DEF ArbiterInv
<1> QED BY <1>1, ArbiterInvariant, PTL

(* Everything the run drive_arbiter checks of a state, for every set of    *)
(* twists, every timeout and every width of the version counter.           *)
THEOREM ArbiterIsSafe == Spec => []ArbiterSafety
<1>1. ArbiterInv => ArbiterSafety
  BY DEF ArbiterInv, ArbiterSafety
<1> QED BY <1>1, ArbiterInvariant, PTL
-----------------------------------------------------------------------------
(* The arbiter implements DriveTenure.                                     *)

(* What a step of the promise may look like.                               *)
Promised == Tenure!TenureNext \/ UNCHANGED <<sel.source, Mover, LabRun, JoyActiveFresh(sel), Permitted>>

(* What the invariant says of the promise's state.                         *)
LEMMA TenureFacts ==
    ASSUME ArbiterInv
    PROVE  /\ sel \in Selector /\ sel.source \in {"joy", "lab"}
           /\ Permitted \in BOOLEAN /\ overridden \in BOOLEAN
           /\ JoyActiveFresh(sel) \in BOOLEAN /\ LabAsking(sel) \in BOOLEAN
           /\ LabRun = "none" <=> ~LabAsking(sel)
           /\ LabRun = "barred" <=> overridden
           /\ overridden => sel.source = "joy" /\ sel.locked /\ LabAsking(sel)
           /\ sel.source = "lab" => ~JoyActiveFresh(sel)
BY DEF ArbiterInv, TypeOK, Selector, Sources, Permitted, JoyActiveFresh, LabAsking, LabRun,
       OverrideHolds, ControllerExcludesLab, JoyBusy

(* A controller command steers, overrides, or changes nothing.             *)
LEMMA JoyPromised ==
    ASSUME ArbiterInv, NEW v \in JoyTwists, JoyCallback(v)
    PROVE  Promised
<1> DEFINE a == Active(v)
           s == OnJoy(sel, a)
<1>1. v \in Int /\ a \in BOOLEAN /\ (a => v # 0)
  BY ArbiterAssumption DEF Active, Magnitude
<1>2. /\ a => s.source = "joy"
      /\ ~a => s.source = sel.source
      /\ LabAsking(s) = LabAsking(sel)
      /\ JoyActiveFresh(s) = a
  BY <1>1, TenureFacts, OnJoyFacts, OnJoyFresh
<1>3. /\ sel' = s /\ perm' = perm
      /\ out' = IF JoyForwarded(sel, a) THEN Publication("joy", v) ELSE out
      /\ overridden' = (overridden \/ (a /\ LabAsking(sel)))
  BY DEF JoyCallback, PublishStatus
<1> HIDE DEF s, a
<1>4. Permitted' = Permitted
  BY <1>3 DEF Permitted
<1>5. CASE a
  <2>1. Mover' = "joy"
    BY <1>1, <1>3, <1>5 DEF JoyForwarded, Publication, Mover
  <2>2. LabRun' = IF LabRun = "none" THEN "none" ELSE "barred"
    BY <1>2, <1>3, <1>5, TenureFacts DEF LabRun
  <2> QED
    BY <1>2, <1>3, <1>4, <1>5, <2>1, <2>2 DEF Promised, Tenure!TenureNext, Tenure!Override
<1>6. CASE ~a /\ sel.source = "joy"
  <2>1. Mover' \in {"joy", "still"}
    BY <1>3, <1>6 DEF JoyForwarded, Publication, Mover
  <2>2. LabRun' = LabRun
    BY <1>2, <1>3, <1>6, TenureFacts DEF LabRun
  <2> QED
    BY <1>2, <1>3, <1>4, <1>6, <2>1, <2>2 DEF Promised, Tenure!TenureNext, Tenure!Steer
<1>7. CASE ~a /\ sel.source = "lab"
  <2>1. out' = out /\ JoyActiveFresh(sel) = FALSE
    BY <1>3, <1>7, TenureFacts DEF JoyForwarded
  <2>2. LabRun' = LabRun /\ Mover' = Mover
    BY <1>2, <1>3, <1>7, <2>1, TenureFacts DEF LabRun, Mover
  <2>3. sel'.source = sel.source /\ JoyActiveFresh(sel)' = JoyActiveFresh(sel)
    BY <1>1, <1>2, <1>3, <1>7, <2>1
  <2> QED
    BY <1>4, <2>2, <2>3 DEF Promised
<1> QED
  BY <1>1, <1>5, <1>6, <1>7, TenureFacts

(* The end of a run, however it comes: the wheels stop in the callback.    *)
LEMMA EndPromised ==
    ASSUME ArbiterInv, sel.source = "lab", sel'.source = "joy", out' = Publication("lab", 0),
           JoyActiveFresh(sel)' = JoyActiveFresh(sel), perm' = perm,
           ~overridden', LabAsking(sel)' => ~Permitted
    PROVE  Promised
<1>1. Mover' = "still" /\ Permitted' = Permitted
  BY DEF Mover, Publication, Permitted
<1>2. LabRun' = "none" \/ (LabRun' = "asking" /\ ~Permitted)
  BY DEF LabRun
<1> QED
  BY <1>1, <1>2 DEF Promised, Tenure!TenureNext, Tenure!LabEnds

(* A lab command starts, drives, ends, asks in vain or rests.              *)
LEMMA LabPromised ==
    ASSUME ArbiterInv, NEW v \in LabTwists, LabCallback(v)
    PROVE  Promised
<1> DEFINE n == Clamp(v) = 0
           w == Verdict(sel, n, Permitted)
           s == OnLab(sel, n, Permitted)
<1>0. /\ sel \in Selector /\ sel.source \in {"joy", "lab"} /\ Permitted \in BOOLEAN
      /\ Clamp(v) \in Int /\ n \in BOOLEAN
  BY ArbiterAssumption, ClampFacts, TenureFacts
<1>1. /\ w = "forward" => sel.source = "lab" /\ Permitted
      /\ w = "stop" => sel.source = "lab" /\ ~Permitted
      /\ w = "start" => sel.source = "joy" /\ Permitted /\ ~n /\ ~sel.locked /\ ~JoyBusy(sel)
      /\ w \notin {"forward", "stop"} => sel.source = "joy"
  BY <1>0 DEF Verdict
<1>2. /\ s \in Selector
      /\ s.source = "lab" => ~n
      /\ w \in {"start", "forward"} /\ ~n => s.source = "lab"
      /\ w = "stop" => s.source = "joy"
      /\ w \notin {"start", "stop", "forward"} => s.source = sel.source
      /\ JoyActiveFresh(s) = JoyActiveFresh(sel)
      /\ ~n => LabAsking(s)
  <2>1. /\ s \in Selector
        /\ s.source = "lab" => ~n
        /\ w \in {"start", "forward"} /\ ~n => s.source = "lab"
        /\ JoyActiveFresh(s) = JoyActiveFresh(sel)
        /\ ~n => LabAsking(s)
    BY <1>0, OnLabFacts
  <2>2. /\ w = "stop" => s.source = "joy"
        /\ w \notin {"start", "stop", "forward"} => s.source = sel.source
    BY <1>0, OnLabSource
  <2> QED
    BY <2>1, <2>2
<1>3. n => ~LabAsking(s)
  <2>1. CASE n = TRUE
    BY <1>0, <2>1, OnLabRests
  <2> QED
    BY <1>0, <2>1
<1>4. s.source \in {"joy", "lab"}
  BY <1>2 DEF Selector, Sources
<1>5. /\ sel' = s /\ perm' = perm /\ overridden' = (overridden /\ ~n)
      /\ out' = IF w \in {"forward", "start"} THEN Publication("lab", Clamp(v))
                ELSE IF w = "stop" \/ StartupNeutral(v) THEN Publication("lab", 0)
                ELSE out
  BY DEF LabCallback, PublishStatus
<1>6. StartupNeutral(v) => n /\ Permitted /\ ~JoyActiveFresh(sel)
  BY DEF StartupNeutral, JoyBusy
<1>7. Clamp(v) # 0 <=> ~n
  OBVIOUS
<1> HIDE DEF n, w, s
<1>8. Permitted' = Permitted /\ JoyActiveFresh(sel)' = JoyActiveFresh(sel)
  BY <1>2, <1>5 DEF Permitted
<1>9. CASE w = "start"
  <2>1. /\ sel.source = "joy" /\ Permitted /\ ~n /\ ~sel.locked /\ ~JoyActiveFresh(sel)
        /\ sel'.source = "lab"
    BY <1>1, <1>2, <1>5, <1>9 DEF JoyBusy
  <2>2. LabRun # "barred" /\ LabRun' = "asking"
    BY <1>0, <1>2, <1>5, <2>1, TenureFacts DEF LabRun
  <2>3. Mover' = "lab"
    BY <1>5, <1>7, <1>9, <2>1 DEF Mover, Publication
  <2> QED
    BY <1>8, <2>1, <2>2, <2>3 DEF Promised, Tenure!TenureNext, Tenure!LabStarts
<1>10. CASE w = "forward" /\ ~n
  <2>1. sel.source = "lab" /\ Permitted /\ sel'.source = "lab"
    BY <1>1, <1>2, <1>5, <1>10
  <2>2. LabRun' = "asking"
    BY <1>0, <1>2, <1>5, <1>10, <2>1, TenureFacts DEF LabRun
  <2>3. Mover' = "lab"
    BY <1>5, <1>7, <1>10 DEF Mover, Publication
  <2> QED
    BY <1>8, <2>1, <2>2, <2>3 DEF Promised, Tenure!TenureNext, Tenure!LabDrives
<1>11. CASE w = "stop" \/ (w = "forward" /\ n)
  <2>1. sel.source = "lab" /\ sel'.source = "joy" /\ ~overridden'
    BY <1>1, <1>2, <1>4, <1>5, <1>11, TenureFacts
  <2>2. out' = Publication("lab", 0)
    BY <1>5, <1>7, <1>11
  <2>3. LabAsking(sel)' => ~Permitted
    BY <1>1, <1>3, <1>5, <1>11
  <2> QED
    BY <1>5, <1>8, <2>1, <2>2, <2>3, EndPromised
<1>12. CASE w \notin {"start", "forward", "stop"} /\ n
  <2>1. sel.source = "joy" /\ sel'.source = "joy"
    BY <1>1, <1>2, <1>5, <1>12
  <2>2. LabRun' = "none"
    BY <1>3, <1>5, <1>12 DEF LabRun
  <2>3. Mover' = Mover \/ (Mover' = "still" /\ Permitted /\ ~JoyActiveFresh(sel))
    BY <1>5, <1>6, <1>12 DEF Mover, Publication
  <2> QED
    BY <1>8, <2>1, <2>2, <2>3 DEF Promised, Tenure!TenureNext, Tenure!LabRests
<1>13. CASE w \notin {"start", "forward", "stop"} /\ ~n
  <2>1. sel.source = "joy" /\ sel'.source = "joy" /\ out' = out
    BY <1>1, <1>2, <1>5, <1>6, <1>13
  <2>2. LabRun' = IF LabRun = "barred" THEN "barred" ELSE "asking"
    BY <1>2, <1>5, <1>13, TenureFacts DEF LabRun
  <2>3. Mover' = Mover
    BY <2>1 DEF Mover
  <2> QED
    BY <1>8, <2>1, <2>2, <2>3 DEF Promised, Tenure!TenureNext, Tenure!LabAsksInVain
<1> QED
  BY <1>0, <1>9, <1>10, <1>11, <1>12, <1>13

(* A command that is not finite ends a run or changes nothing.             *)
LEMMA InvalidPromised ==
    ASSUME ArbiterInv, LabInvalid
    PROVE  Promised
<1> DEFINE l == OnLab(sel, TRUE, Permitted)
           t == IF sel.source = "lab" THEN l ELSE sel
           s == SetRefusal(t, "invalid")
<1>1. sel \in Selector /\ Permitted \in BOOLEAN
  BY TenureFacts
<1>2. /\ l \in Selector /\ l.source # "lab" /\ JoyActiveFresh(l) = JoyActiveFresh(sel)
      /\ ~LabAsking(l)
  BY <1>1, OnLabFacts, OnLabRests
<1>3. l.source = "joy"
  BY <1>2 DEF Selector, Sources
<1>4. /\ sel' = s /\ perm' = perm /\ overridden' = overridden
      /\ out' = IF sel.source = "lab" THEN Publication("lab", 0) ELSE out
  BY DEF LabInvalid, PublishStatus
<1> HIDE DEF l
<1>5. t \in Selector
  BY <1>1, <1>2
<1> HIDE DEF t
<1>6. s.source = t.source /\ JoyActiveFresh(s) = JoyActiveFresh(t) /\ LabAsking(s) = LabAsking(t)
  BY <1>5, SetRefusalFacts DEF Refusals
<1> HIDE DEF s
<1>7. CASE sel.source = "lab"
  <2>1. t = l
    BY <1>7 DEF t
  <2> QED
    BY <1>2, <1>3, <1>4, <1>6, <1>7, <2>1, TenureFacts, EndPromised
<1>8. CASE sel.source = "joy"
  <2>1. t = sel
    BY <1>8 DEF t
  <2>2. Mover' = Mover /\ LabRun' = LabRun /\ Permitted' = Permitted
    BY <1>4, <1>6, <1>8, <2>1 DEF Mover, LabRun, Permitted
  <2> QED
    BY <1>4, <1>6, <2>1, <2>2 DEF Promised
<1> QED
  BY <1>7, <1>8, TenureFacts

(* The tick ends a run or changes nothing.                                 *)
LEMMA TickPromised ==
    ASSUME ArbiterInv, TickCallback
    PROVE  Promised
<1> DEFINE s == OnTick(sel, Permitted)
<1>1. sel \in Selector /\ Permitted \in BOOLEAN
  BY TenureFacts
<1>2. /\ TickStops(sel, Permitted) => s.source = "joy"
      /\ ~TickStops(sel, Permitted) => s.source = sel.source
      /\ JoyActiveFresh(s) = JoyActiveFresh(sel)
      /\ LabAsking(s) = LabAsking(sel)
  BY <1>1, OnTickFacts
<1>3. /\ sel' = s /\ perm' = perm /\ overridden' = overridden
      /\ out' = IF TickStops(sel, Permitted) THEN Publication("lab", 0) ELSE out
  BY DEF TickCallback, PublishStatus
<1> HIDE DEF s
<1>4. CASE TickStops(sel, Permitted)
  <2>1. sel.source = "lab" /\ (LabQuiet(sel) \/ ~Permitted)
    BY <1>4 DEF TickStops
  <2>2. LabQuiet(sel) => ~LabAsking(sel)
    BY <1>1, NeverIsLate, SelectorAssumption DEF LabQuiet, LabAsking, Selector
  <2> QED
    BY <1>2, <1>3, <1>4, <2>1, <2>2, TenureFacts, EndPromised
<1>5. CASE ~TickStops(sel, Permitted)
  <2>1. Mover' = Mover /\ LabRun' = LabRun /\ Permitted' = Permitted
    BY <1>2, <1>3, <1>5 DEF Mover, LabRun, Permitted
  <2> QED
    BY <1>2, <1>3, <1>5, <2>1 DEF Promised
<1> QED
  BY <1>4, <1>5

(* Time ends a run or the permission, or changes nothing.                  *)
LEMMA ElapsePromised ==
    ASSUME ArbiterInv, Elapse
    PROVE  Promised
<1> DEFINE s == Aged(sel)
<1>1. /\ s.source = sel.source
      /\ JoyActiveFresh(s) => JoyActiveFresh(sel)
      /\ LabAsking(s) => LabAsking(sel) /\ ~LabQuiet(s)
      /\ LabAsking(sel) /\ ~LabQuiet(s) => LabAsking(s)
  BY TenureFacts, AgedFacts, AgedRests
<1>2. sel' = s /\ overridden' = (overridden /\ ~LabQuiet(s)) /\ out' = out
  BY DEF Elapse
<1>3. Permitted' => Permitted
  <2>1. perm.age \in 0..(Lease + 1)
    BY DEF ArbiterInv, TypeOK
  <2>2. perm'.heard = perm.heard /\ perm'.age >= perm.age
    BY <2>1, ArbiterAssumption DEF Elapse, ArbiterInv, TypeOK
  <2>3. perm'.age \in Int /\ Lease \in Int
    BY <2>1, ArbiterAssumption DEF Elapse, ArbiterInv, TypeOK
  <2> QED
    BY <2>1, <2>2, <2>3 DEF Permitted
<1> HIDE DEF s
<1>4. LabRun' \in {LabRun, "none"}
  BY <1>1, <1>2, TenureFacts DEF LabRun
<1>5. Mover' = Mover
  BY <1>2 DEF Mover
<1> QED
  BY <1>1, <1>2, <1>3, <1>4, <1>5 DEF Promised, Tenure!TenureNext, Tenure!TimePasses

(* A permission message changes the permission; the rest changes nothing.   *)
LEMMA PeersPromised ==
    ASSUME ArbiterInv,
           \/ \E heard \in {"allowed", "denied"} : PermissionReceived(heard)
           \/ StatusTimer \/ LabDies \/ TeacherDies \/ UNCHANGED vars
    PROVE  Promised
<1>1. UNCHANGED <<sel, out, overridden>>
  BY DEF PermissionReceived, StatusTimer, PublishStatus, LabDies, TeacherDies, vars
<1>2. Mover' = Mover /\ LabRun' = LabRun /\ sel'.source = sel.source
      /\ JoyActiveFresh(sel)' = JoyActiveFresh(sel)
  BY <1>1 DEF Mover, LabRun
<1>3. Permitted' \in BOOLEAN
  BY DEF Permitted
<1> QED
  BY <1>2, <1>3 DEF Promised, Tenure!TenureNext, Tenure!TeacherDecides

(* Every step of the arbiter is a step of the promise or a stutter.        *)
LEMMA TenureStep == ArbiterInv /\ [Next]_vars => [Tenure!TenureNext]_(Tenure!tenureVars)
<1> SUFFICES ASSUME ArbiterInv, [Next]_vars PROVE Promised
  BY DEF Promised, Tenure!tenureVars
<1>1. CASE \E v \in JoyTwists : JoyCallback(v)
  BY <1>1, JoyPromised
<1>2. CASE \E v \in LabTwists : LabCallback(v)
  BY <1>2, LabPromised
<1>3. CASE LabInvalid
  BY <1>3, InvalidPromised
<1>4. CASE TickCallback
  BY <1>4, TickPromised
<1>5. CASE Elapse
  BY <1>5, ElapsePromised
<1>6. CASE \/ \E heard \in {"allowed", "denied"} : PermissionReceived(heard)
           \/ StatusTimer \/ LabDies \/ TeacherDies \/ UNCHANGED vars
  BY <1>6, PeersPromised
<1> QED
  BY <1>1, <1>2, <1>3, <1>4, <1>5, <1>6 DEF Next

(* The arbiter starts as the promise does.                                 *)
LEMMA TenureStart == Init => Tenure!TenureInit
<1> SUFFICES ASSUME Init PROVE Tenure!TenureInit
  OBVIOUS
<1>1. sel.source = "joy" /\ ~JoyActiveFresh(sel)
  BY NewSelectorFacts DEF Init
<1>2. LabRun = "none"
  BY DEF Init, NewSelector, LabAsking, LabRun
<1>3. Mover = "still" /\ ~Permitted
  BY DEF Init, Publication, Mover, Permitted
<1> QED
  BY <1>1, <1>2, <1>3 DEF Tenure!TenureInit

(* drive_arbiter_component.cpp implements DriveTenure for every choice of  *)
(* the timeouts, the lease, the thresholds and the twists: the drive        *)
(* changes hands only as the promise says.                                 *)
THEOREM ArbiterHandsOver == Spec => HandsOver
BY TenureStart, TenureStep, ArbiterInvariant, PTL DEF Spec, HandsOver, Tenure!TenureSpec
=============================================================================
