--------------------------- MODULE LabDriveProofs ---------------------------
(***************************************************************************)
(* Proofs about LabDrive, for any pages, sessions and bounds on the wire.  *)
(***************************************************************************)
EXTENDS LabDrive, SequenceTheorems, TLAPS

-----------------------------------------------------------------------------
(* The inductive invariant.                                                  *)

\* A session being greeted has asked nothing.
JoinedInv == \A c \in greeting : c \notin bridge.needsNeutral

\* The news of who drives is the newest of what waits for a page, or the page has it.
NewsFor(c, p) ==
    /\ slot[c] # <<>> => slot[c][1].owner # c
    /\ slot[c] = <<>> /\ toPage[c] # <<>> => toPage[c][Len(toPage[c])].owner # c
    /\ slot[c] = <<>> /\ toPage[c] = <<>> => run[p] \notin Started

NewsInv ==
    \A p \in Pages :
      client[p] \in joined /\ bridge.owner # client[p] /\ ~unsent => NewsFor(client[p], p)

\* A session that never drove, or has given a neutral since, has neither a speed on the way
\* nor a page that would send one, or that anything on its way would let send one, as long
\* as the bridge knows it.
NoSpeed(c) == \A n \in DOMAIN toBridge[c] : toBridge[c][n] # "go"

NotNamed(c, p) ==
    /\ run[p] \notin Started
    /\ \A n \in DOMAIN toPage[c] : toPage[c][n].owner # c
    /\ slot[c] # <<>> => slot[c][1].owner # c

AtRest(c) == NoSpeed(c) /\ \A p \in Pages : client[p] = c => NotNamed(c, p)

Asleep(c) == bridge.owner # c /\ c \notin bridge.needsNeutral

RestInv == \A c \in joined : Asleep(c) => AtRest(c)

DrivingInv == TypeOK /\ PagesAreApart /\ JoinedInv /\ NewsInv /\ RestInv

-----------------------------------------------------------------------------
(* Helpers.                                                                  *)

(* What End makes of a session that drives.                                *)
LEMMA EndFacts ==
    ASSUME NEW b \in Bridge, b.owner # Nobody, NEW by \in Clients \cup {Nobody}
    PROVE  /\ End(b, by) \in Bridge
           /\ End(b, by).owner = Nobody
           /\ End(b, by).blocked = b.blocked
           /\ End(b, by).needsNeutral = b.needsNeutral \cup {b.owner}
BY DEF End, Bridge

(* What a drive_state says.                                                *)
LEMMA StateFacts ==
    ASSUME NEW b \in Bridge, NEW refused \in BOOLEAN
    PROVE  /\ StateOf(b, refused) \in State
           /\ StateOf(b, refused).owner = b.owner
BY DEF StateOf, State, Bridge

\* The newest drive_state that waits for c says who drives now.
Told(c) == \E m \in State : slot'[c] = <<m>> /\ m.owner = bridge'.owner

\* Slots hold one state at most.
Slots == {s \in [Clients -> Seq(State)] : \A c \in Clients : Len(s[c]) <= 1}

(* What _send_drive_state leaves in the slots.                             *)
LEMMA SendFacts ==
    ASSUME NEW slots \in Slots, NEW to, SendDriveState(slots, to), bridge' \in Bridge
    PROVE  /\ slot' \in Slots /\ unsent' = FALSE
           /\ \A c \in Clients : slot'[c] = slots[c] \/ Told(c)
           /\ \A c \in Clients \cap to : unsent \/ Changed => Told(c)
<1> DEFINE m == StateOf(bridge', FALSE)
<1>1. m \in State /\ m.owner = bridge'.owner
  BY StateFacts
<1>3. slot' = IF unsent \/ Changed
              THEN [c \in Clients |-> IF c \in to THEN <<m>> ELSE slots[c]] ELSE slots
  BY DEF SendDriveState, Offered
<1> HIDE DEF m
<1>2. <<m>> \in Seq(State) /\ Len(<<m>>) <= 1
  BY <1>1
<1>4. slots \in [Clients -> Seq(State)] /\ \A c \in Clients : Len(slots[c]) <= 1
  BY DEF Slots
<1>5. slot' \in [Clients -> Seq(State)]
  BY <1>2, <1>3, <1>4
<1>6. \A c \in Clients : slot'[c] = <<m>> \/ slot'[c] = slots[c]
  BY <1>3, <1>4
<1>7. \A c \in Clients : Len(slot'[c]) <= 1
  BY <1>2, <1>4, <1>6
<1>8. slot' \in Slots
  BY <1>5, <1>7 DEF Slots
<1> QED
  BY <1>1, <1>3, <1>4, <1>8 DEF SendDriveState, Told

(* Appending a frame.                                                      *)
LEMMA SentFacts ==
    ASSUME NEW c \in Clients, NEW kind \in Frame, toBridge \in [Clients -> Seq(Frame)]
    PROVE  /\ Sent(c, kind) \in [Clients -> Seq(Frame)]
           /\ \A d \in Clients : d # c => Sent(c, kind)[d] = toBridge[d]
           /\ NoSpeed(c) /\ kind # "go" =>
                \A n \in DOMAIN Sent(c, kind)[c] : Sent(c, kind)[c][n] # "go"
<1>1. /\ Sent(c, kind) \in [Clients -> Seq(Frame)]
      /\ Sent(c, kind)[c] = Append(toBridge[c], kind)
      /\ \A d \in Clients : d # c => Sent(c, kind)[d] = toBridge[d]
  BY DEF Sent
<1>2. /\ DOMAIN Append(toBridge[c], kind) = 1..(Len(toBridge[c]) + 1)
      /\ DOMAIN toBridge[c] = 1..Len(toBridge[c])
      /\ \A n \in 1..Len(toBridge[c]) : Append(toBridge[c], kind)[n] = toBridge[c][n]
      /\ Append(toBridge[c], kind)[Len(toBridge[c]) + 1] = kind
      /\ Len(toBridge[c]) \in Nat
  OBVIOUS
<1> QED
  BY <1>1, <1>2 DEF NoSpeed

(* A frame that is read leaves no other behind than those that were there. *)
LEMMA ReadFacts ==
    ASSUME NEW S, NEW s \in Seq(S), s # <<>>
    PROVE  /\ Tail(s) \in Seq(S) /\ Head(s) \in S /\ Head(s) = s[1]
           /\ 1 \in DOMAIN s
           /\ \A n \in DOMAIN Tail(s) : n + 1 \in DOMAIN s /\ Tail(s)[n] = s[n + 1]
           /\ Tail(s) # <<>> => Tail(s)[Len(Tail(s))] = s[Len(s)]
           /\ Tail(s) = <<>> => Head(s) = s[Len(s)]
<1>1. s \in [1..Len(s) -> S] /\ Len(s) \in Nat /\ Len(s) > 0
  BY EmptySeq
<1>2. /\ Head(s) = s[1] /\ Tail(s) \in Seq(S) /\ Len(Tail(s)) = Len(s) - 1
      /\ \A n \in 1..Len(Tail(s)) : Tail(s)[n] = s[n + 1]
  BY HeadTailProperties
<1>3. DOMAIN Tail(s) = 1..Len(Tail(s)) /\ DOMAIN s = 1..Len(s)
  BY <1>1, <1>2
<1>4. Tail(s) # <<>> <=> Len(Tail(s)) # 0
  BY <1>2, EmptySeq
<1> QED
  BY <1>1, <1>2, <1>3, <1>4

(* A sequence of one element behind another sequence.                      *)
LEMMA OneAppended ==
    ASSUME NEW S, NEW s \in Seq(S), NEW t \in Seq(S), t # <<>>, Len(t) <= 1
    PROVE  /\ s \o t \in Seq(S) /\ s \o t # <<>> /\ (s \o t)[Len(s \o t)] = t[1]
           /\ \A n \in DOMAIN (s \o t) : \/ n \in DOMAIN s /\ (s \o t)[n] = s[n]
                                         \/ (s \o t)[n] = t[1]
<1>1. Len(t) = 1
  <2>1. Len(t) \in Nat /\ Len(t) # 0
    BY EmptySeq, LenProperties
  <2>2. Len(t) <= 1
    OBVIOUS
  <2>3. \A n \in Nat : n # 0 /\ n <= 1 => n = 1
    OBVIOUS
  <2> QED
    BY <2>1, <2>2, <2>3
<1>2. /\ s \o t \in Seq(S) /\ Len(s \o t) = Len(s) + 1 /\ Len(s) \in Nat
      /\ \A n \in 1..Len(s) + 1 : (s \o t)[n] = IF n <= Len(s) THEN s[n] ELSE t[n - Len(s)]
  BY <1>1, ConcatProperties, LenProperties
<1>3. DOMAIN (s \o t) = 1..Len(s) + 1 /\ DOMAIN s = 1..Len(s)
  BY <1>2, LenProperties
<1>4. s \o t # <<>>
  BY <1>2, EmptySeq
<1> QED
  BY <1>2, <1>3, <1>4

(* The types, as the proofs below use them.                                *)
LEMMA TypeFacts ==
    ASSUME DrivingInv
    PROVE  /\ client \in [Pages -> Clients \cup {Nobody}]
           /\ run \in [Pages -> Runs] /\ allows \in [Pages -> BOOLEAN]
           /\ toBridge \in [Clients -> Seq(Frame)] /\ toPage \in [Clients -> Seq(State)]
           /\ slot \in Slots
           /\ joined \subseteq Clients /\ greeting \subseteq joined
           /\ bridge \in Bridge /\ unsent \in BOOLEAN
           /\ Connected \subseteq joined /\ Connected \subseteq Clients
           /\ bridge.owner \in Clients \cup {Nobody} /\ bridge.blocked \in BOOLEAN
           /\ bridge.needsNeutral \subseteq Clients
BY DEF DrivingInv, TypeOK, Connected, Slots, Bridge

-----------------------------------------------------------------------------
(* The pages.                                                                *)

\* What a page's own action does to its session c: it sends no speed unless it drives.
PageEffect(p) ==
    /\ client[p] \in Clients
    /\ run' \in [Pages -> Runs] /\ allows' \in [Pages -> BOOLEAN]
    /\ \A q \in Pages : q # p => run'[q] = run[q]
    /\ run'[p] \in Started => run[p] \in Started
    /\ toBridge' \in [Clients -> Seq(Frame)]
    /\ \A d \in Clients : d # client[p] => toBridge'[d] = toBridge[d]
    /\ NoSpeed(client[p]) /\ run[p] # "driving" => NoSpeed(client[p])'
    /\ UNCHANGED <<client, toPage, slot, bridgeVars>>

LEMMA PageActions ==
    ASSUME DrivingInv, NEW p \in Pages,
           StartRun(p) \/ NeutralTick(p) \/ Settled(p) \/ DriveTick(p) \/ EndRun(p)
    PROVE  PageEffect(p)
<1>1. /\ client \in [Pages -> Clients \cup {Nobody}] /\ run \in [Pages -> Runs]
      /\ allows \in [Pages -> BOOLEAN] /\ toBridge \in [Clients -> Seq(Frame)]
  BY TypeFacts
<1>2. client[p] \in Clients
  BY <1>1 DEF DrivingInv, PagesAreApart, StartRun, Ready, NeutralTick, Settled, DriveTick, EndRun
<1>3. \A kind \in Frame : toBridge' = Sent(client[p], kind) =>
        /\ toBridge' \in [Clients -> Seq(Frame)]
        /\ \A d \in Clients : d # client[p] => toBridge'[d] = toBridge[d]
        /\ NoSpeed(client[p]) /\ kind # "go" =>
             \A n \in DOMAIN toBridge'[client[p]] : toBridge'[client[p]][n] # "go"
  BY <1>1, <1>2, SentFacts
<1>4. UNCHANGED client
  BY DEF StartRun, NeutralTick, Settled, DriveTick, EndRun, pageVars
<1>5. NoSpeed(client[p])' <=>
        \A n \in DOMAIN toBridge'[client[p]] : toBridge'[client[p]][n] # "go"
  BY <1>4 DEF NoSpeed
<1>6. CASE StartRun(p)
  BY <1>1, <1>2, <1>3, <1>5, <1>6
     DEF StartRun, Ready, PageEffect, Frame, Commands, Runs, Started, bridgeVars
<1>7. CASE NeutralTick(p)
  BY <1>1, <1>2, <1>3, <1>5, <1>7
     DEF NeutralTick, PageEffect, Frame, Commands, pageVars, bridgeVars
<1>8. CASE Settled(p)
  BY <1>1, <1>2, <1>8 DEF Settled, PageEffect, Runs, Started, NoSpeed, wireVars, bridgeVars
<1>9. CASE DriveTick(p)
  BY <1>1, <1>2, <1>3, <1>5, <1>9
     DEF DriveTick, PageEffect, Frame, Commands, pageVars, bridgeVars
<1>10. CASE EndRun(p)
  BY <1>1, <1>2, <1>3, <1>5, <1>10
     DEF EndRun, Finish, PageEffect, Frame, Stops, Runs, Started, bridgeVars
<1> QED
  BY <1>6, <1>7, <1>8, <1>9, <1>10

LEMMA StopBarActs ==
    ASSUME DrivingInv, NEW p \in Pages, StopBar(p)
    PROVE  PageEffect(p)
<1> DEFINE c == client[p]
           stops == IF run[p] = "none" THEN <<"stopAll">> ELSE <<"stopAll", "stopMine">>
<1>1. /\ client \in [Pages -> Clients \cup {Nobody}] /\ run \in [Pages -> Runs]
      /\ allows \in [Pages -> BOOLEAN] /\ toBridge \in [Clients -> Seq(Frame)]
  BY TypeFacts
<1>2. c \in Clients
  BY <1>1 DEF StopBar
<1>3. /\ toBridge' = [toBridge EXCEPT ![c] = @ \o stops]
      /\ run' = [run EXCEPT ![p] = "none"]
      /\ UNCHANGED <<client, allows, toPage, slot, bridgeVars>>
  BY DEF StopBar
<1>4. stops \in Seq(Frame) /\ \A n \in 1..Len(stops) : stops[n] # "go"
  <2>1. <<"stopAll">> \in Seq(Frame) /\ <<"stopAll", "stopMine">> \in Seq(Frame)
    BY DEF Frame, Stops
  <2> QED
    BY <2>1
<1> HIDE DEF stops
<1>5. /\ toBridge[c] \o stops \in Seq(Frame)
      /\ \A n \in DOMAIN (toBridge[c] \o stops) :
            \/ n \in DOMAIN toBridge[c] /\ (toBridge[c] \o stops)[n] = toBridge[c][n]
            \/ (toBridge[c] \o stops)[n] # "go"
  BY <1>1, <1>2, <1>4, ConcatProperties
<1>6. toBridge'[c] = toBridge[c] \o stops /\ toBridge' \in [Clients -> Seq(Frame)]
      /\ \A d \in Clients : d # c => toBridge'[d] = toBridge[d]
  BY <1>1, <1>2, <1>3, <1>5
<1>7. NoSpeed(c) => NoSpeed(c)'
  BY <1>3, <1>5, <1>6 DEF NoSpeed
<1> QED
  BY <1>1, <1>2, <1>3, <1>6, <1>7 DEF PageEffect, Runs, Started

(* A page's own action keeps the invariant.                                *)
LEMMA PageKeeps ==
    ASSUME DrivingInv, NEW p \in Pages, PageEffect(p)
    PROVE  DrivingInv'
<1>1. UNCHANGED <<client, toPage, slot, joined, greeting, bridge, unsent>>
  BY DEF PageEffect, bridgeVars
<1>2. TypeOK'
  BY <1>1 DEF DrivingInv, TypeOK, PageEffect
<1>3. \A q \in Pages : run'[q] \in Started => run[q] \in Started
  BY DEF PageEffect
<1>4. PagesAreApart'
  <2>1. \A q \in Pages : run'[q] # "none" => client[q] # Nobody
    BY LabDriveAssumption DEF PageEffect, DrivingInv, PagesAreApart
  <2> QED
    BY <1>1, <2>1 DEF DrivingInv, PagesAreApart
<1>5. JoinedInv'
  BY <1>1 DEF DrivingInv, JoinedInv
<1>6. NewsInv'
  BY <1>1, <1>3 DEF DrivingInv, NewsInv, NewsFor
<1>7. RestInv'
  <2> SUFFICES ASSUME NEW c \in joined, Asleep(c) PROVE AtRest(c)'
    BY <1>1 DEF RestInv, Asleep
  <2>1. AtRest(c) /\ c \in Clients
    BY TypeFacts DEF DrivingInv, RestInv
  <2>2. \A q \in Pages : client'[q] = c => NotNamed(c, q)'
    BY <1>1, <1>3, <2>1 DEF AtRest, NotNamed
  <2>3. NoSpeed(c)'
    BY <2>1 DEF AtRest, NotNamed, NoSpeed, PageEffect, Started
  <2> QED
    BY <2>2, <2>3 DEF AtRest
<1> QED
  BY <1>2, <1>4, <1>5, <1>6, <1>7 DEF DrivingInv

(* A drive_state that arrives is news for its page alone.                   *)
LEMMA DriveStateKeeps ==
    ASSUME DrivingInv, NEW p \in Pages, OnDriveState(p)
    PROVE  DrivingInv'
<1> DEFINE c == client[p]
           m == Head(toPage[c])
<1>1. /\ client \in [Pages -> Clients \cup {Nobody}] /\ run \in [Pages -> Runs]
      /\ allows \in [Pages -> BOOLEAN] /\ toBridge \in [Clients -> Seq(Frame)]
      /\ toPage \in [Clients -> Seq(State)]
  BY TypeFacts
<1>2. c \in Clients /\ toPage[c] # <<>> /\ toPage[c] \in Seq(State)
  BY <1>1 DEF OnDriveState
<1>3. /\ toPage' = [toPage EXCEPT ![c] = Tail(toPage[c])]
      /\ allows' = [allows EXCEPT ![p] = Allows(m, c)]
      /\ Heard(p, m)
      /\ UNCHANGED <<client, slot, joined, greeting, bridge, unsent>>
  BY <1>2 DEF OnDriveState, bridgeVars
<1>4. /\ m \in State /\ m = toPage[c][1] /\ 1 \in DOMAIN toPage[c]
      /\ Tail(toPage[c]) \in Seq(State)
      /\ \A n \in DOMAIN Tail(toPage[c]) :
            n + 1 \in DOMAIN toPage[c] /\ Tail(toPage[c])[n] = toPage[c][n + 1]
      /\ Tail(toPage[c]) # <<>> => Tail(toPage[c])[Len(Tail(toPage[c]))] = toPage[c][Len(toPage[c])]
      /\ Tail(toPage[c]) = <<>> => m = toPage[c][Len(toPage[c])]
  BY <1>2, ReadFacts
<1>5. /\ toPage' \in [Clients -> Seq(State)] /\ toPage'[c] = Tail(toPage[c])
      /\ \A d \in Clients : d # c => toPage'[d] = toPage[d]
  BY <1>1, <1>2, <1>3, <1>4
<1> HIDE DEF m
<1>6. /\ run' \in [Pages -> Runs] /\ \A q \in Pages : q # p => run'[q] = run[q]
      /\ run'[p] # "none" => run[p] # "none"
      /\ run'[p] \in Started => m.owner = c
  BY <1>1, <1>3 DEF Heard, Finish, Runs, Started
<1>7. /\ toBridge' \in [Clients -> Seq(Frame)]
      /\ \A d \in Clients : NoSpeed(d) => NoSpeed(d)'
  <2>1. CASE toBridge' = Sent(c, "stopMine")
    <3>1. /\ toBridge' \in [Clients -> Seq(Frame)]
          /\ \A d \in Clients : d # c => toBridge'[d] = toBridge[d]
          /\ NoSpeed(c) => \A n \in DOMAIN toBridge'[c] : toBridge'[c][n] # "go"
      BY <1>1, <1>2, <2>1, SentFacts DEF Frame, Stops
    <3> QED
      BY <1>3, <3>1 DEF NoSpeed
  <2>2. CASE toBridge' = toBridge
    BY <1>1, <2>2 DEF NoSpeed
  <2> QED
    BY <1>3, <2>1, <2>2 DEF Heard, Finish
<1>8. TypeOK'
  <2>1. allows' \in [Pages -> BOOLEAN]
    BY <1>1, <1>3 DEF Allows
  <2> QED
    BY <1>3, <1>5, <1>6, <1>7, <2>1 DEF DrivingInv, TypeOK
<1>9. PagesAreApart'
  BY <1>3, <1>6 DEF DrivingInv, PagesAreApart
<1>10. JoinedInv'
  BY <1>3 DEF DrivingInv, JoinedInv
<1>11. \A q \in Pages : client[q] = c => q = p
  BY <1>2, LabDriveAssumption DEF DrivingInv, PagesAreApart
<1>12. NewsInv'
  <2> SUFFICES ASSUME NEW q \in Pages, client[q] \in joined, bridge.owner # client[q], ~unsent
               PROVE  NewsFor(client[q], q)'
    BY <1>3 DEF NewsInv
  <2>1. NewsFor(client[q], q)
    BY DEF DrivingInv, NewsInv
  <2>2. CASE q = p
    <3>1. NewsFor(c, p)
      BY <2>1, <2>2
    <3>2. slot[c] = <<>> /\ Tail(toPage[c]) = <<>> => run'[p] \notin Started
      BY <1>2, <1>4, <1>6, <3>1 DEF NewsFor
    <3> QED
      BY <1>2, <1>3, <1>4, <1>5, <2>2, <3>1, <3>2 DEF NewsFor
  <2>3. CASE q # p
    <3>1. client[q] \in Clients /\ client[q] # c
      BY <1>11, <2>3, TypeFacts
    <3> QED
      BY <1>1, <1>3, <1>5, <1>6, <2>1, <2>3, <3>1 DEF NewsFor
  <2> QED
    BY <2>2, <2>3
<1>13. RestInv'
  <2> SUFFICES ASSUME NEW d \in joined, Asleep(d) PROVE AtRest(d)'
    BY <1>3 DEF RestInv, Asleep
  <2>1. AtRest(d) /\ d \in Clients
    BY TypeFacts DEF DrivingInv, RestInv
  <2>2. ASSUME NEW q \in Pages, client[q] = d PROVE NotNamed(d, q)'
    <3>1. NotNamed(d, q)
      BY <2>1, <2>2 DEF AtRest
    <3>2. CASE d = c
      <4>1. q = p /\ m.owner # c
        BY <1>4, <1>11, <2>2, <3>1, <3>2 DEF NotNamed
      <4> QED
        BY <1>3, <1>4, <1>5, <1>6, <3>1, <3>2, <4>1 DEF NotNamed
    <3>3. CASE d # c
      BY <1>3, <1>5, <1>6, <2>2, <3>1, <3>3 DEF NotNamed
    <3> QED
      BY <3>2, <3>3
  <2> QED
    BY <1>3, <1>7, <2>1, <2>2 DEF AtRest
<1> QED
  BY <1>8, <1>9, <1>10, <1>12, <1>13 DEF DrivingInv

(* A new session knows nothing of the runs before it.                      *)
LEMMA OpenLinkKeeps ==
    ASSUME DrivingInv, NEW p \in Pages, OpenLink(p)
    PROVE  DrivingInv'
<1>1. PICK c \in Free :
        /\ client[p] = Nobody
        /\ client' = [client EXCEPT ![p] = c]
        /\ joined' = joined \cup {c} /\ greeting' = greeting \cup {c}
        /\ toPage' = [toPage EXCEPT ![c] = <<StateOf(bridge, FALSE)>>]
        /\ slot' = [slot EXCEPT ![c] = <<>>]
        /\ NewSession(c)
        /\ UNCHANGED <<run, allows, toBridge, unsent>>
  BY DEF OpenLink
<1> DEFINE m == StateOf(bridge, FALSE)
<1>2. /\ client \in [Pages -> Clients \cup {Nobody}] /\ toPage \in [Clients -> Seq(State)]
      /\ slot \in Slots /\ bridge \in Bridge /\ joined \subseteq Clients
      /\ greeting \subseteq joined
      /\ toBridge \in [Clients -> Seq(Frame)]
  BY TypeFacts
<1>3. c \in Clients /\ c \notin joined /\ toBridge[c] = <<>> /\ c # Nobody
      /\ \A q \in Pages : client[q] # c
  BY <1>2, LabDriveAssumption DEF Free
<1>4. bridge.owner # c /\ bridge.owner \in Clients \cup {Nobody}
  BY <1>2, <1>3 DEF DrivingInv, PagesAreApart, Bridge
<1>15. m \in State /\ m.owner = bridge.owner
  BY <1>2, StateFacts
<1>16. toPage' = [toPage EXCEPT ![c] = <<m>>]
  BY <1>1
<1> HIDE DEF m
<1>5. m \in State /\ m.owner = bridge.owner /\ <<m>> \in Seq(State)
  BY <1>15
<1>6. /\ bridge' \in Bridge /\ bridge'.owner = bridge.owner /\ bridge'.blocked = bridge.blocked
      /\ bridge'.needsNeutral = bridge.needsNeutral \ {c}
  BY <1>1, <1>2 DEF NewSession, Bridge
<1>7. /\ client' \in [Pages -> Clients \cup {Nobody}] /\ client'[p] = c
      /\ \A q \in Pages : q # p => client'[q] = client[q]
      /\ toPage' \in [Clients -> Seq(State)] /\ toPage'[c] = <<m>>
      /\ \A d \in Clients : d # c => toPage'[d] = toPage[d]
  BY <1>1, <1>2, <1>3, <1>5, <1>16
<1>8. /\ slot' \in [Clients -> Seq(State)] /\ slot'[c] = <<>>
      /\ \A d \in Clients : d # c => slot'[d] = slot[d]
  BY <1>1, <1>2, <1>3 DEF Slots
<1>9. TypeOK'
  <2>1. \A d \in Clients : Len(slot'[d]) <= 1
    BY <1>2, <1>8 DEF Slots
  <2> QED
    BY <1>1, <1>2, <1>3, <1>6, <1>7, <1>8, <2>1 DEF DrivingInv, TypeOK
<1>10. run[p] = "none"
  BY <1>1 DEF DrivingInv, PagesAreApart
<1>11. PagesAreApart'
  <2>1. \A q, r \in Pages : client'[q] = client'[r] /\ client'[q] # Nobody => q = r
    BY <1>3, <1>7 DEF DrivingInv, PagesAreApart
  <2>2. \A q \in Pages : run[q] # "none" => client'[q] # Nobody
    BY <1>7, <1>10 DEF DrivingInv, PagesAreApart
  <2>3. bridge.owner # Nobody => bridge.owner \in joined' \ greeting'
    BY <1>1, <1>4 DEF DrivingInv, PagesAreApart
  <2> QED
    BY <1>1, <1>6, <2>1, <2>2, <2>3 DEF DrivingInv, PagesAreApart
<1>12. JoinedInv'
  BY <1>1, <1>6 DEF DrivingInv, JoinedInv
<1>13. NewsInv'
  <2> SUFFICES ASSUME NEW q \in Pages, client'[q] \in joined', bridge.owner # client'[q], ~unsent
               PROVE  NewsFor(client[q], q)'
    BY <1>1, <1>6 DEF NewsInv
  <2>1. CASE q = p
    <3>1. <<m>> # <<>> /\ <<m>>[Len(<<m>>)] = m
      BY <1>5
    <3> QED
      BY <1>4, <1>5, <1>7, <1>8, <2>1, <3>1 DEF NewsFor
  <2>2. CASE q # p
    <3>1. /\ client[q] \in Clients /\ client[q] # c /\ client'[q] = client[q]
          /\ client[q] \in joined
      BY <1>1, <1>2, <1>3, <1>7, <2>2
    <3>2. NewsFor(client[q], q)
      BY <2>2, <3>1 DEF DrivingInv, NewsInv
    <3> QED
      BY <1>1, <1>7, <1>8, <3>1, <3>2 DEF NewsFor
  <2> QED
    BY <2>1, <2>2
<1>14. RestInv'
  <2> SUFFICES ASSUME NEW d \in joined', bridge.owner # d, d \notin bridge'.needsNeutral
               PROVE  AtRest(d)'
    BY <1>6 DEF RestInv, Asleep
  <2>1. CASE d = c
    <3>1. NoSpeed(c)'
      BY <1>1, <1>3 DEF NoSpeed
    <3>2. \A q \in Pages : client'[q] = c => q = p
      BY <1>3, <1>7
    <3>3. \A n \in DOMAIN <<m>> : <<m>>[n].owner # c
      BY <1>4, <1>5
    <3>4. NotNamed(c, p)'
      BY <1>1, <1>7, <1>8, <1>10, <3>3 DEF NotNamed, Started
    <3> QED
      BY <2>1, <3>1, <3>2, <3>4 DEF AtRest
  <2>2. CASE d # c
    <3>1. AtRest(d) /\ d \in Clients
      BY <1>1, <1>2, <1>6, <2>2 DEF DrivingInv, RestInv, Asleep
    <3>2. \A q \in Pages : client'[q] = d => client[q] = d
      BY <1>7, <2>2
    <3> QED
      BY <1>1, <1>7, <1>8, <2>2, <3>1, <3>2 DEF AtRest, NotNamed, NoSpeed
  <2> QED
    BY <2>1, <2>2
<1> QED
  BY <1>9, <1>11, <1>12, <1>13, <1>14 DEF DrivingInv

(* A page that loses its link is nobody's.                                 *)
LEMMA LoseLinkKeeps ==
    ASSUME DrivingInv, NEW p \in Pages, LoseLink(p)
    PROVE  DrivingInv'
<1> DEFINE c == client[p]
<1>1. /\ client \in [Pages -> Clients \cup {Nobody}] /\ run \in [Pages -> Runs]
      /\ allows \in [Pages -> BOOLEAN] /\ toPage \in [Clients -> Seq(State)]
      /\ slot \in [Clients -> Seq(State)] /\ \A d \in Clients : Len(slot[d]) <= 1
  BY TypeFacts DEF Slots
<1>2. /\ c \in Clients
      /\ client' = [client EXCEPT ![p] = Nobody] /\ run' = [run EXCEPT ![p] = "none"]
      /\ allows' = [allows EXCEPT ![p] = FALSE]
      /\ toPage' = [toPage EXCEPT ![c] = <<>>] /\ slot' = [slot EXCEPT ![c] = <<>>]
      /\ toBridge' = IF c \in joined THEN toBridge ELSE [toBridge EXCEPT ![c] = <<>>]
      /\ UNCHANGED <<joined, greeting, bridge, unsent>>
  BY <1>1 DEF LoseLink, bridgeVars
<1>11. /\ toBridge' \in [Clients -> Seq(Frame)]
       /\ \A d \in joined : toBridge'[d] = toBridge[d]
       /\ joined \subseteq Clients
  <2>1. toBridge \in [Clients -> Seq(Frame)] /\ joined \subseteq Clients /\ <<>> \in Seq(Frame)
    BY TypeFacts
  <2> QED
    BY <1>2, <2>1
<1>3. /\ client' \in [Pages -> Clients \cup {Nobody}] /\ client'[p] = Nobody
      /\ run' \in [Pages -> Runs] /\ run'[p] = "none" /\ allows' \in [Pages -> BOOLEAN]
      /\ \A q \in Pages : q # p => client'[q] = client[q] /\ run'[q] = run[q]
      /\ toPage' \in [Clients -> Seq(State)] /\ slot' \in [Clients -> Seq(State)]
      /\ \A d \in Clients : d # c => toPage'[d] = toPage[d] /\ slot'[d] = slot[d]
  BY <1>1, <1>2 DEF Runs
<1>4. \A d \in Clients : Len(slot'[d]) <= 1
  <2>1. slot'[c] = <<>> /\ Len(<<>>) <= 1
    BY <1>1, <1>2
  <2> QED
    BY <1>1, <1>3, <2>1
<1>5. TypeOK'
  BY <1>2, <1>3, <1>4, <1>11 DEF DrivingInv, TypeOK
<1>6. \A q \in Pages : q # p => client[q] # c
  BY <1>2, LabDriveAssumption DEF DrivingInv, PagesAreApart
<1>7. PagesAreApart'
  BY <1>2, <1>3 DEF DrivingInv, PagesAreApart
<1>8. JoinedInv'
  BY <1>2 DEF DrivingInv, JoinedInv
<1>9. NewsInv'
  <2> SUFFICES ASSUME NEW q \in Pages, client'[q] \in joined, bridge.owner # client'[q], ~unsent
               PROVE  NewsFor(client[q], q)'
    BY <1>2 DEF NewsInv
  <2>1. q # p /\ client'[q] = client[q] /\ client[q] # c /\ client[q] \in Clients
    BY <1>3, <1>6, <1>11, LabDriveAssumption
  <2>2. NewsFor(client[q], q)
    BY <2>1 DEF DrivingInv, NewsInv
  <2> QED
    BY <1>3, <2>1, <2>2 DEF NewsFor
<1>10. RestInv'
  <2> SUFFICES ASSUME NEW d \in joined, Asleep(d) PROVE AtRest(d)'
    BY <1>2 DEF RestInv, Asleep
  <2>1. AtRest(d)
    BY DEF DrivingInv, RestInv
  <2>2. ASSUME NEW q \in Pages, client'[q] = d PROVE NotNamed(d, q)'
    <3>1. q # p /\ client[q] = d /\ d # c /\ d \in Clients
      BY <1>3, <1>6, <1>11, <2>2, LabDriveAssumption
    <3> QED
      BY <1>3, <2>1, <3>1 DEF AtRest, NotNamed
  <2> QED
    BY <1>11, <2>1, <2>2 DEF AtRest, NoSpeed
<1> QED
  BY <1>5, <1>7, <1>8, <1>9, <1>10 DEF DrivingInv

-----------------------------------------------------------------------------
(* The server's tasks.                                                       *)

(* What is thrown away with the greeting says nothing the greeting does not. *)
LEMMA GreetedKeeps ==
    ASSUME DrivingInv, NEW c \in Clients, Greeted(c)
    PROVE  DrivingInv'
<1>1. /\ c \in greeting /\ greeting' = greeting \ {c}
      /\ slot' = [slot EXCEPT ![c] = <<>>]
      /\ UNCHANGED <<client, run, allows, toBridge, toPage, joined, bridge, unsent>>
  BY DEF Greeted, pageVars
<1>2. /\ slot \in [Clients -> Seq(State)] /\ \A d \in Clients : Len(slot[d]) <= 1
      /\ toPage \in [Clients -> Seq(State)]
      /\ client \in [Pages -> Clients \cup {Nobody}]
  BY TypeFacts DEF Slots
<1>3. /\ slot' \in [Clients -> Seq(State)] /\ slot'[c] = <<>>
      /\ \A d \in Clients : d # c => slot'[d] = slot[d]
      /\ \A d \in Clients : Len(slot'[d]) <= 1
  <2>1. <<>> \in Seq(State) /\ Len(<<>>) <= 1
    OBVIOUS
  <2> QED
    BY <1>1, <1>2, <2>1
<1>4. AtRest(c)
  <2>1. c \in joined /\ c # Nobody
    BY <1>1, TypeFacts, LabDriveAssumption
  <2> QED
    BY <1>1, <2>1 DEF DrivingInv, RestInv, Asleep, JoinedInv, PagesAreApart
<1>5. TypeOK'
  BY <1>1, <1>3 DEF DrivingInv, TypeOK
<1>6. PagesAreApart'
  BY <1>1 DEF DrivingInv, PagesAreApart
<1>7. JoinedInv'
  BY <1>1 DEF DrivingInv, JoinedInv
<1>8. NewsInv'
  <2> SUFFICES ASSUME NEW q \in Pages, client[q] \in joined, bridge.owner # client[q], ~unsent
               PROVE  NewsFor(client[q], q)'
    BY <1>1 DEF NewsInv
  <2>1. CASE client[q] = c
    <3>1. toPage[c] # <<>> => Len(toPage[c]) \in DOMAIN toPage[c]
      BY <1>2, EmptySeq, LenProperties
    <3> QED
      BY <1>1, <1>3, <1>4, <2>1, <3>1 DEF AtRest, NotNamed, NewsFor
  <2>2. CASE client[q] # c
    <3>1. client[q] \in Clients /\ NewsFor(client[q], q)
      BY TypeFacts DEF DrivingInv, NewsInv
    <3> QED
      BY <1>1, <1>3, <2>2, <3>1 DEF NewsFor
  <2> QED
    BY <2>1, <2>2
<1>9. RestInv'
  <2>1. \A d \in Clients : AtRest(d) => AtRest(d)'
    BY <1>1, <1>3 DEF AtRest, NotNamed, NoSpeed
  <2> QED
    BY <1>1, <2>1, TypeFacts DEF DrivingInv, RestInv, Asleep
<1> QED
  BY <1>5, <1>6, <1>7, <1>8, <1>9 DEF DrivingInv

(* The newest state stays the newest on the wire.                          *)
LEMMA TransmitKeeps ==
    ASSUME DrivingInv, NEW c \in Clients, Transmit(c)
    PROVE  DrivingInv'
<1> DEFINE sent == toPage[c] \o slot[c]
<1>1. /\ slot[c] # <<>>
      /\ toPage' = [toPage EXCEPT ![c] = sent] /\ slot' = [slot EXCEPT ![c] = <<>>]
      /\ UNCHANGED <<client, run, allows, toBridge, joined, greeting, bridge, unsent>>
  BY DEF Transmit, pageVars, bridgeVars
<1>2. /\ slot \in [Clients -> Seq(State)] /\ \A d \in Clients : Len(slot[d]) <= 1
      /\ toPage \in [Clients -> Seq(State)]
      /\ client \in [Pages -> Clients \cup {Nobody}]
  BY TypeFacts DEF Slots
<1>3. slot[c] \in Seq(State) /\ toPage[c] \in Seq(State) /\ Len(slot[c]) <= 1
  BY <1>2
<1>4. /\ sent \in Seq(State) /\ sent # <<>> /\ sent[Len(sent)] = slot[c][1]
      /\ \A n \in DOMAIN sent : \/ n \in DOMAIN toPage[c] /\ sent[n] = toPage[c][n]
                                \/ sent[n] = slot[c][1]
  <2> DEFINE s == toPage[c]
             t == slot[c]
  <2>1. t # <<>> /\ t \in Seq(State) /\ s \in Seq(State) /\ Len(t) <= 1
    BY <1>1, <1>3
  <2>2. sent = s \o t
    OBVIOUS
  <2> HIDE DEF s, t, sent
  <2>3. /\ s \o t \in Seq(State) /\ s \o t # <<>> /\ (s \o t)[Len(s \o t)] = t[1]
        /\ \A n \in DOMAIN (s \o t) : \/ n \in DOMAIN s /\ (s \o t)[n] = s[n]
                                      \/ (s \o t)[n] = t[1]
    BY <2>1, OneAppended
  <2> QED
    BY <2>2, <2>3 DEF s, t
<1> HIDE DEF sent
<1>5. /\ slot' \in [Clients -> Seq(State)] /\ slot'[c] = <<>>
      /\ toPage' \in [Clients -> Seq(State)] /\ toPage'[c] = sent
      /\ \A d \in Clients : d # c => slot'[d] = slot[d] /\ toPage'[d] = toPage[d]
      /\ \A d \in Clients : Len(slot'[d]) <= 1
  <2>1. <<>> \in Seq(State) /\ Len(<<>>) <= 1
    OBVIOUS
  <2> QED
    BY <1>1, <1>2, <1>4, <2>1
<1>6. TypeOK'
  BY <1>1, <1>5 DEF DrivingInv, TypeOK
<1>7. PagesAreApart'
  BY <1>1 DEF DrivingInv, PagesAreApart
<1>8. JoinedInv'
  BY <1>1 DEF DrivingInv, JoinedInv
<1>9. NewsInv'
  <2> SUFFICES ASSUME NEW q \in Pages, client[q] \in joined, bridge.owner # client[q], ~unsent
               PROVE  NewsFor(client[q], q)'
    BY <1>1 DEF NewsInv
  <2>1. NewsFor(client[q], q) /\ client[q] \in Clients
    BY TypeFacts DEF DrivingInv, NewsInv
  <2>2. CASE client[q] = c
    BY <1>1, <1>4, <1>5, <2>1, <2>2 DEF NewsFor
  <2>3. CASE client[q] # c
    BY <1>1, <1>5, <2>1, <2>3 DEF NewsFor
  <2> QED
    BY <2>2, <2>3
<1>10. RestInv'
  <2>1. \A q \in Pages : \A d \in Clients : NotNamed(d, q) => NotNamed(d, q)'
    BY <1>1, <1>4, <1>5 DEF NotNamed
  <2>2. \A d \in Clients : AtRest(d) => AtRest(d)'
    BY <1>1, <2>1 DEF AtRest, NoSpeed
  <2> QED
    BY <1>1, <2>2, TypeFacts DEF DrivingInv, RestInv, Asleep
<1> QED
  BY <1>6, <1>7, <1>8, <1>9, <1>10 DEF DrivingInv

-----------------------------------------------------------------------------
(* The bridge.                                                               *)

\* What waits for a page is replaced by news alone, and no news is kept from it.
SlotEffect ==
    /\ slot' \in Slots /\ unsent' \in BOOLEAN
    /\ \A c \in joined' : slot'[c] = slot[c] \/ Told(c)
    /\ \A c \in Connected \cap joined' :
          ~unsent' => Told(c) \/ (slot'[c] = slot[c] /\ ~unsent /\ bridge'.owner = bridge.owner)

\* Frames are read in order or lost, sessions go, and pages are not touched.
FrameEffect ==
    /\ UNCHANGED <<client, run, allows, toPage>>
    /\ toBridge' \in [Clients -> Seq(Frame)]
    /\ \A c \in Clients : \A n \in DOMAIN toBridge'[c] :
          \E k \in DOMAIN toBridge[c] : toBridge'[c][n] = toBridge[c][k]
    /\ joined' \subseteq joined
    /\ greeting' = greeting \cap joined'

\* Whoever drove has a neutral to give first, unless it has left.
OwnerEffect ==
    /\ bridge' \in Bridge
    /\ bridge'.blocked => bridge'.owner = Nobody
    /\ bridge'.owner # Nobody => bridge'.owner \in joined' \ greeting'
    /\ \A c \in greeting' : c \notin bridge'.needsNeutral
    /\ \A c \in joined' : bridge'.owner # c /\ c \notin bridge'.needsNeutral => Asleep(c)

BridgeEffect == SlotEffect /\ FrameEffect /\ OwnerEffect

(* Such a step keeps the invariant.                                        *)
LEMMA BridgeKeeps ==
    ASSUME DrivingInv, BridgeEffect
    PROVE  DrivingInv'
<1>1. /\ UNCHANGED <<client, run, allows, toPage>>
      /\ \A c \in joined' : slot'[c] = slot[c] \/ Told(c)
      /\ joined' \subseteq joined
  BY DEF BridgeEffect, FrameEffect, SlotEffect
<1>2. /\ client \in [Pages -> Clients \cup {Nobody}] /\ joined \subseteq Clients
      /\ greeting \subseteq joined
  BY TypeFacts
<1>3. \A c \in Clients : Told(c) =>
        slot'[c] # <<>> /\ slot'[c][1].owner = bridge'.owner
  <2> SUFFICES ASSUME NEW c \in Clients, NEW m \in State, slot'[c] = <<m>>,
                      m.owner = bridge'.owner
               PROVE  slot'[c] # <<>> /\ slot'[c][1].owner = bridge'.owner
    BY DEF Told
  <2>1. <<m>> # <<>> /\ <<m>>[1] = m
    OBVIOUS
  <2> QED
    BY <2>1
<1>4. TypeOK'
  BY <1>1, <1>2
     DEF DrivingInv, TypeOK, Slots, BridgeEffect, SlotEffect, FrameEffect, OwnerEffect
<1>5. PagesAreApart'
  BY <1>1 DEF DrivingInv, PagesAreApart, BridgeEffect, OwnerEffect
<1>6. JoinedInv'
  BY DEF JoinedInv, BridgeEffect, OwnerEffect
<1>7. NewsInv'
  <2> SUFFICES ASSUME NEW p \in Pages, client[p] \in joined', bridge'.owner # client[p], ~unsent'
               PROVE  NewsFor(client[p], p)'
    BY <1>1 DEF NewsInv
  <2>1. client[p] \in Connected \cap joined' /\ client[p] \in Clients /\ client[p] \in joined
    BY <1>1, <1>2 DEF Connected
  <2>2. CASE Told(client[p])
    BY <1>1, <1>3, <2>1, <2>2 DEF NewsFor
  <2>3. CASE slot'[client[p]] = slot[client[p]] /\ ~unsent /\ bridge'.owner = bridge.owner
    BY <1>1, <2>1, <2>3 DEF DrivingInv, NewsInv, NewsFor
  <2> QED
    BY <2>1, <2>2, <2>3 DEF BridgeEffect, SlotEffect
<1>8. RestInv'
  <2> SUFFICES ASSUME NEW c \in joined', bridge'.owner # c, c \notin bridge'.needsNeutral
               PROVE  AtRest(c)'
    BY DEF RestInv, Asleep
  <2>1. Asleep(c) /\ c \in joined /\ c \in Clients
    BY <1>1, <1>2 DEF BridgeEffect, OwnerEffect
  <2>2. AtRest(c)
    BY <2>1 DEF DrivingInv, RestInv
  <2>3. NoSpeed(c)'
    BY <2>1, <2>2 DEF AtRest, NoSpeed, BridgeEffect, FrameEffect
  <2>4. \A p \in Pages : client[p] = c => NotNamed(c, p)'
    BY <1>1, <1>3, <2>1, <2>2 DEF AtRest, NotNamed
  <2> QED
    BY <1>1, <2>3, <2>4 DEF AtRest
<1> QED
  BY <1>4, <1>5, <1>6, <1>7, <1>8 DEF DrivingInv

(* _send_drive_state tells every page what changed.                        *)
LEMMA SendIsTold ==
    ASSUME DrivingInv, NEW slots \in Slots, NEW to, SendDriveState(slots, to),
           bridge' \in Bridge, joined' \subseteq joined, Connected \cap joined' \subseteq to,
           \A c \in joined' : \/ slots[c] = slot[c]
                             \/ \E m \in State : slots[c] = <<m>> /\ m.owner = bridge'.owner
    PROVE  SlotEffect
<1>3. Connected \subseteq Clients /\ unsent \in BOOLEAN /\ joined' \subseteq Clients
  BY TypeFacts
<1>1. /\ slot' \in Slots /\ unsent' = FALSE
      /\ \A c \in Clients : slot'[c] = slots[c] \/ Told(c)
      /\ \A c \in Clients \cap to : unsent \/ Changed => Told(c)
  BY SendFacts
<1>2. \A c \in joined' : slot'[c] = slot[c] \/ Told(c)
  BY <1>1, <1>3 DEF Told
<1>4. \A c \in Connected \cap joined' :
        Told(c) \/ (slot'[c] = slot[c] /\ ~unsent /\ bridge'.owner = bridge.owner)
  BY <1>1, <1>2, <1>3 DEF Changed
<1> QED
  BY <1>1, <1>2, <1>4 DEF SlotEffect

(* The end of a run, and of no other.                                      *)
LEMMA EndIsOwned ==
    ASSUME DrivingInv, bridge.owner # Nobody, NEW by \in Clients \cup {Nobody},
           bridge' \in {End(bridge, by), [End(bridge, by) EXCEPT !.blocked = TRUE]},
           greeting' \subseteq greeting
    PROVE  OwnerEffect
<1>1. bridge \in Bridge
  BY TypeFacts
<1>2. /\ bridge' \in Bridge /\ bridge'.owner = Nobody
      /\ bridge'.needsNeutral = bridge.needsNeutral \cup {bridge.owner}
  <2>1. /\ End(bridge, by) \in Bridge /\ End(bridge, by).owner = Nobody
        /\ End(bridge, by).needsNeutral = bridge.needsNeutral \cup {bridge.owner}
    BY <1>1, EndFacts
  <2> DEFINE e == End(bridge, by)
  <2> HIDE DEF e
  <2>2. e \in Bridge => /\ [e EXCEPT !.blocked = TRUE] \in Bridge
                        /\ [e EXCEPT !.blocked = TRUE].owner = e.owner
                        /\ [e EXCEPT !.blocked = TRUE].needsNeutral = e.needsNeutral
    BY DEF Bridge
  <2> QED
    BY <2>1, <2>2 DEF e
<1>3. \A c \in greeting' : c \notin bridge.needsNeutral /\ c # bridge.owner
  BY DEF DrivingInv, JoinedInv, PagesAreApart
<1> QED
  BY <1>2, <1>3 DEF OwnerEffect, Asleep

(* The frames when nothing is read.                                        *)
LEMMA NothingRead ==
    ASSUME DrivingInv, UNCHANGED <<client, run, allows, toBridge, toPage, joined, greeting>>
    PROVE  FrameEffect
<1>1. /\ toBridge \in [Clients -> Seq(Frame)] /\ greeting \subseteq joined
  BY TypeFacts
<1> QED
  BY <1>1 DEF FrameEffect

(* A frame that is read leaves the later ones behind.                      *)
LEMMA OneRead ==
    ASSUME DrivingInv, NEW c \in Clients, toBridge[c] # <<>>,
           toBridge' = [toBridge EXCEPT ![c] = Tail(@)],
           UNCHANGED <<client, run, allows, toPage, joined, greeting>>
    PROVE  FrameEffect /\ Head(toBridge[c]) \in Frame /\ Head(toBridge[c]) = toBridge[c][1]
           /\ 1 \in DOMAIN toBridge[c]
<1>1. toBridge \in [Clients -> Seq(Frame)] /\ greeting \subseteq joined
  BY TypeFacts
<1>2. toBridge[c] \in Seq(Frame)
  BY <1>1
<1>3. /\ Tail(toBridge[c]) \in Seq(Frame)
      /\ Head(toBridge[c]) \in Frame /\ Head(toBridge[c]) = toBridge[c][1]
      /\ 1 \in DOMAIN toBridge[c]
      /\ \A n \in DOMAIN Tail(toBridge[c]) :
            n + 1 \in DOMAIN toBridge[c] /\ Tail(toBridge[c])[n] = toBridge[c][n + 1]
  BY <1>2, ReadFacts
<1>4. /\ toBridge' \in [Clients -> Seq(Frame)] /\ toBridge'[c] = Tail(toBridge[c])
      /\ \A d \in Clients : d # c => toBridge'[d] = toBridge[d]
  BY <1>1, <1>3
<1>5. \A d \in Clients : \A n \in DOMAIN toBridge'[d] :
        \E k \in DOMAIN toBridge[d] : toBridge'[d][n] = toBridge[d][k]
  BY <1>3, <1>4
<1> QED
  BY <1>1, <1>3, <1>4, <1>5 DEF FrameEffect

(* A command starts a run, goes on with it, ends it, or is refused.        *)
LEMMA CommandActs ==
    ASSUME DrivingInv, NEW c \in joined \ greeting, NEW kind \in Commands,
           OnCommand(c, kind), UNCHANGED <<joined, greeting>>
    PROVE  SlotEffect /\ OwnerEffect
<1> DEFINE verdict == Verdict(c, kind)
           ends == verdict = "invalid" /\ bridge.owner = c
           m == StateOf(bridge', TRUE)
           slots == IF verdict \in {"stale", "drives"} \/ c \notin Connected THEN slot
                    ELSE [slot EXCEPT ![c] = <<m>>]
<1>1. /\ bridge \in Bridge /\ c \in Clients /\ c # Nobody /\ slot \in Slots
      /\ slot \in [Clients -> Seq(State)] /\ \A d \in Clients : Len(slot[d]) <= 1
      /\ joined \subseteq Clients /\ greeting \subseteq joined
  BY TypeFacts, LabDriveAssumption DEF Slots
<1>2. /\ bridge' = IF verdict = "blocked"
                   THEN [bridge EXCEPT !.needsNeutral = @ \cup {c}]
                   ELSE IF ends THEN End(bridge, c)
                   ELSE IF verdict = "drives"
                   THEN [bridge EXCEPT !.owner = c, !.needsNeutral = @ \ {c}]
                   ELSE bridge
      /\ SendDriveState(slots, Connected)
  BY DEF OnCommand
<1>3. /\ verdict = "blocked" => bridge.blocked
      /\ verdict = "drives" => ~bridge.blocked /\ bridge.owner \in {Nobody, c}
  BY DEF Verdict
<1> HIDE DEF verdict
<1>4. /\ bridge.blocked => bridge.owner = Nobody
      /\ bridge.owner # Nobody => bridge.owner \in joined \ greeting
      /\ \A d \in greeting : d \notin bridge.needsNeutral
  BY DEF DrivingInv, PagesAreApart, JoinedInv
<1>5. OwnerEffect
  <2>1. CASE ends /\ verdict # "blocked"
    <3>1. bridge' = End(bridge, c) /\ bridge.owner # Nobody
      BY <1>1, <1>2, <2>1
    <3> QED
      BY <1>1, <3>1, EndIsOwned
  <2>2. CASE verdict = "blocked"
    <3>1. /\ bridge' \in Bridge /\ bridge'.owner = Nobody
          /\ bridge'.needsNeutral = bridge.needsNeutral \cup {c}
      BY <1>1, <1>2, <1>3, <1>4, <2>2 DEF Bridge
    <3> QED
      BY <1>1, <1>3, <1>4, <2>2, <3>1 DEF OwnerEffect, Asleep
  <2>3. CASE verdict = "drives"
    <3>1. /\ bridge' \in Bridge /\ bridge'.owner = c /\ bridge'.blocked = bridge.blocked
          /\ bridge'.needsNeutral = bridge.needsNeutral \ {c}
      BY <1>1, <1>2, <2>3 DEF Bridge
    <3>2. \A d \in Clients : d # c => bridge.owner # d
      BY <1>1, <1>3, <2>3, LabDriveAssumption
    <3> QED
      BY <1>1, <1>3, <1>4, <2>3, <3>1, <3>2 DEF OwnerEffect, Asleep
  <2>4. CASE bridge' = bridge
    BY <1>1, <1>4, <2>4 DEF OwnerEffect, Asleep
  <2> QED
    BY <1>2, <2>1, <2>2, <2>3, <2>4
<1>6. bridge' \in Bridge
  BY <1>5 DEF OwnerEffect
<1>7. m \in State /\ m.owner = bridge'.owner
  BY <1>6, StateFacts
<1> HIDE DEF m
<1>8. <<m>> \in Seq(State) /\ Len(<<m>>) <= 1
  BY <1>7
<1>9. /\ slots \in [Clients -> Seq(State)]
      /\ \A d \in Clients : slots[d] = slot[d] \/ slots[d] = <<m>>
  BY <1>1, <1>8
<1>10. SendDriveState(slots, Connected)
  BY <1>2 DEF m
<1> HIDE DEF slots
<1>11. slots \in Slots
  BY <1>1, <1>8, <1>9 DEF Slots
<1>12. SlotEffect
  <2>1. /\ joined' \subseteq joined /\ Connected \cap joined' \subseteq Connected
        /\ \A d \in joined' : slots[d] = slot[d] \/ slots[d] = <<m>>
    BY <1>1, <1>9
  <2> QED
    BY <1>6, <1>7, <1>10, <1>11, <2>1, SendIsTold
<1> QED
  BY <1>5, <1>12

(* A stop ends the run it may end.                                         *)
LEMMA StopActs ==
    ASSUME DrivingInv, NEW c \in joined \ greeting, NEW kind \in Stops,
           OnStop(c, kind), UNCHANGED <<joined, greeting>>
    PROVE  SlotEffect /\ OwnerEffect
<1>1. bridge \in Bridge /\ c \in Clients /\ slot \in Slots
  BY TypeFacts
<1>2. OwnerEffect
  <2>1. CASE MayStop(c, kind)
    BY <1>1, <2>1, EndIsOwned DEF OnStop, MayStop
  <2>2. CASE ~MayStop(c, kind)
    BY <1>1, <2>2 DEF OnStop, OwnerEffect, Asleep, DrivingInv, PagesAreApart, JoinedInv
  <2> QED
    BY <2>1, <2>2
<1>3. bridge' \in Bridge
  BY <1>2 DEF OwnerEffect
<1> QED
  BY <1>1, <1>2, <1>3, SendIsTold DEF OnStop

LEMMA ReceiveActs ==
    ASSUME DrivingInv, NEW c \in Clients, Receive(c)
    PROVE  BridgeEffect
<1>1. /\ c \in joined \ greeting /\ toBridge[c] # <<>>
      /\ toBridge' = [toBridge EXCEPT ![c] = Tail(@)]
      /\ UNCHANGED <<client, run, allows, toPage, joined, greeting>>
  BY DEF Receive, pageVars
<1>2. FrameEffect
  BY <1>1, OneRead
<1>3. SlotEffect /\ OwnerEffect
  BY <1>1, CommandActs, StopActs DEF Receive
<1> QED
  BY <1>2, <1>3 DEF BridgeEffect

(* A limit that runs out, or the controller, ends the run.                 *)
LEMMA EndByRobotActs ==
    ASSUME DrivingInv, EndByRobot
    PROVE  BridgeEffect
<1>1. slot \in Slots /\ UNCHANGED <<client, run, allows, toBridge, toPage, joined, greeting>>
  BY TypeFacts DEF EndByRobot, pageVars
<1>2. OwnerEffect
  BY <1>1, EndIsOwned DEF EndByRobot
<1>3. bridge' \in Bridge
  BY <1>2 DEF OwnerEffect
<1>4. SlotEffect
  BY <1>1, <1>3, SendIsTold DEF EndByRobot
<1> QED
  BY <1>1, <1>2, <1>4, NothingRead DEF BridgeEffect

(* A blocker ends the run, and if the pages are not told, the tick will.   *)
LEMMA SetBlockerActs ==
    ASSUME DrivingInv, NEW tells \in BOOLEAN, SetBlocker(tells)
    PROVE  BridgeEffect
<1>1. /\ slot \in Slots /\ bridge \in Bridge
      /\ UNCHANGED <<client, run, allows, toBridge, toPage, joined, greeting>>
  BY TypeFacts DEF SetBlocker, pageVars
<1>2. OwnerEffect
  <2>1. CASE bridge.owner = Nobody
    <3>1. /\ bridge' \in Bridge /\ bridge'.owner = Nobody
          /\ bridge'.needsNeutral = bridge.needsNeutral
      BY <1>1, <2>1 DEF SetBlocker, Bridge
    <3> QED
      BY <1>1, <2>1, <3>1 DEF OwnerEffect, Asleep, DrivingInv, JoinedInv
  <2>2. CASE bridge.owner # Nobody
    BY <1>1, <2>2, EndIsOwned DEF SetBlocker
  <2> QED
    BY <2>1, <2>2
<1>3. bridge' \in Bridge
  BY <1>2 DEF OwnerEffect
<1>4. SlotEffect
  <2>1. CASE tells
    BY <1>1, <1>3, <2>1, SendIsTold DEF SetBlocker
  <2>2. CASE ~tells
    BY <1>1, <2>2 DEF SetBlocker, SlotEffect
  <2> QED
    BY <2>1, <2>2
<1> QED
  BY <1>1, <1>2, <1>4, NothingRead DEF BridgeEffect

(* The tick tells everyone.                                                *)
LEMMA RepeatActs ==
    ASSUME DrivingInv, Repeat
    PROVE  BridgeEffect
<1> DEFINE m == StateOf(bridge, FALSE)
<1>1. /\ slot \in [Clients -> Seq(State)] /\ \A c \in Clients : Len(slot[c]) <= 1
      /\ bridge \in Bridge /\ Connected \subseteq Clients /\ joined \subseteq Clients
      /\ UNCHANGED <<client, run, allows, toBridge, toPage, joined, greeting, bridge>>
  BY TypeFacts DEF Repeat, pageVars, Slots
<1>2. m \in State /\ m.owner = bridge'.owner
  BY <1>1, StateFacts
<1>3. slot' = [c \in Clients |-> IF c \in Connected THEN <<m>> ELSE slot[c]] /\ unsent' = FALSE
  BY DEF Repeat, Offered
<1> HIDE DEF m
<1>4. <<m>> \in Seq(State) /\ Len(<<m>>) <= 1
  BY <1>2
<1>5. /\ slot' \in [Clients -> Seq(State)]
      /\ \A c \in Clients : slot'[c] = IF c \in Connected THEN <<m>> ELSE slot[c]
  BY <1>1, <1>3, <1>4
<1>6. slot' \in Slots
  BY <1>1, <1>4, <1>5 DEF Slots
<1>7. SlotEffect
  BY <1>1, <1>2, <1>3, <1>5, <1>6 DEF SlotEffect, Told
<1>8. OwnerEffect
  BY <1>1 DEF OwnerEffect, Asleep, DrivingInv, PagesAreApart, JoinedInv
<1> QED
  BY <1>1, <1>7, <1>8, NothingRead DEF BridgeEffect

LEMMA GuardOverActs ==
    ASSUME DrivingInv, GuardOver
    PROVE  BridgeEffect
<1>1. /\ slot \in Slots /\ bridge \in Bridge /\ unsent \in BOOLEAN
      /\ UNCHANGED <<client, run, allows, toBridge, toPage, slot, joined, greeting, unsent>>
      /\ Connected \subseteq Clients
  BY TypeFacts DEF GuardOver, pageVars, wireVars
<1>2. /\ bridge' \in Bridge /\ bridge'.owner = bridge.owner
      /\ bridge'.blocked = bridge.blocked /\ bridge'.needsNeutral = bridge.needsNeutral
  BY <1>1 DEF GuardOver, Bridge
<1>3. SlotEffect
  BY <1>1, <1>2 DEF SlotEffect
<1>4. OwnerEffect
  BY <1>1, <1>2 DEF OwnerEffect, Asleep, DrivingInv, PagesAreApart, JoinedInv
<1> QED
  BY <1>1, <1>3, <1>4, NothingRead DEF BridgeEffect

(* A session that goes takes its frames, and its run, with it.             *)
LEMMA LeaveActs ==
    ASSUME DrivingInv, NEW c \in Clients, Leave(c)
    PROVE  BridgeEffect
<1> DEFINE slots == [slot EXCEPT ![c] = <<>>]
<1>1. /\ slot \in [Clients -> Seq(State)] /\ \A d \in Clients : Len(slot[d]) <= 1
      /\ bridge \in Bridge /\ unsent \in BOOLEAN
      /\ toBridge \in [Clients -> Seq(Frame)]
      /\ greeting \subseteq joined /\ joined \subseteq Clients /\ c # Nobody
  BY TypeFacts, LabDriveAssumption DEF Slots
<1>2. /\ joined' = joined \ {c} /\ greeting' = greeting \ {c}
      /\ toBridge' = [toBridge EXCEPT ![c] = <<>>]
      /\ UNCHANGED <<client, run, allows, toPage>>
  BY DEF Leave, pageVars
<1>3. /\ toBridge' \in [Clients -> Seq(Frame)] /\ toBridge'[c] = <<>>
      /\ \A d \in Clients : d # c => toBridge'[d] = toBridge[d]
  BY <1>1, <1>2
<1>4. FrameEffect
  BY <1>1, <1>2, <1>3 DEF FrameEffect
<1>7. /\ slots \in Slots
      /\ \A d \in joined' : slots[d] = slot[d]
  <2>1. <<>> \in Seq(State) /\ Len(<<>>) <= 1
    OBVIOUS
  <2>2. /\ slots \in [Clients -> Seq(State)] /\ slots[c] = <<>>
        /\ \A d \in Clients : d # c => slots[d] = slot[d]
    BY <1>1, <2>1
  <2>3. \A d \in Clients : Len(slots[d]) <= 1
    BY <1>1, <2>1, <2>2
  <2> QED
    BY <1>1, <1>2, <2>2, <2>3 DEF Slots
<1>5. CASE bridge.owner = c
  <2>1. /\ bridge' = [End(bridge, c) EXCEPT !.needsNeutral = @ \ {c}]
        /\ SendDriveState(slots, Connected \ {c})
    BY <1>5 DEF Leave
  <2>2. /\ End(bridge, c) \in Bridge /\ End(bridge, c).owner = Nobody
        /\ End(bridge, c).needsNeutral = bridge.needsNeutral \cup {c}
    BY <1>1, <1>5, EndFacts
  <2> DEFINE e == End(bridge, c)
  <2> HIDE DEF e
  <2>3. e \in Bridge =>
          /\ [e EXCEPT !.needsNeutral = @ \ {c}] \in Bridge
          /\ [e EXCEPT !.needsNeutral = @ \ {c}].owner = e.owner
          /\ [e EXCEPT !.needsNeutral = @ \ {c}].needsNeutral = e.needsNeutral \ {c}
    BY DEF Bridge
  <2>4. /\ bridge' \in Bridge /\ bridge'.owner = Nobody
        /\ bridge'.needsNeutral = (bridge.needsNeutral \cup {c}) \ {c}
    BY <2>1, <2>2, <2>3 DEF e
  <2>5. OwnerEffect
    BY <1>1, <1>2, <1>5, <2>4 DEF OwnerEffect, Asleep, DrivingInv, JoinedInv
  <2> HIDE DEF slots
  <2>6. SlotEffect
    <3>1. joined' \subseteq joined /\ Connected \cap joined' \subseteq Connected \ {c}
      BY <1>2
    <3> QED
      BY <1>7, <2>1, <2>4, <3>1, SendIsTold
  <2> QED
    BY <1>4, <2>5, <2>6 DEF BridgeEffect
<1>6. CASE bridge.owner # c
  <2>1. slot' = slots /\ UNCHANGED <<bridge, unsent>>
    BY <1>6 DEF Leave
  <2> HIDE DEF slots
  <2>2. SlotEffect
    BY <1>1, <1>7, <2>1 DEF SlotEffect
  <2>3. OwnerEffect
    BY <1>1, <1>2, <1>6, <2>1
       DEF OwnerEffect, Asleep, DrivingInv, PagesAreApart, JoinedInv
  <2> QED
    BY <1>4, <2>2, <2>3 DEF BridgeEffect
<1> QED
  BY <1>5, <1>6

-----------------------------------------------------------------------------
(* The theorems.                                                             *)

LEMMA DrivingInvariant == Spec => []DrivingInv
<1>1. ASSUME Init PROVE DrivingInv
  <2>1. /\ [c \in Clients |-> <<>>] \in [Clients -> Seq(Frame)]
        /\ [c \in Clients |-> <<>>] \in [Clients -> Seq(State)]
        /\ Len(<<>>) = 0
    OBVIOUS
  <2>2. TypeOK
    <3>1. bridge \in Bridge
      BY <1>1 DEF Init, Bridge
    <3>2. /\ toBridge \in [Clients -> Seq(Frame)] /\ toPage \in [Clients -> Seq(State)]
          /\ slot \in [Clients -> Seq(State)] /\ \A c \in Clients : Len(slot[c]) <= 1
      BY <1>1, <2>1 DEF Init
    <3>3. /\ client \in [Pages -> Clients \cup {Nobody}] /\ run \in [Pages -> Runs]
          /\ allows \in [Pages -> BOOLEAN] /\ joined \subseteq Clients
          /\ greeting \subseteq joined /\ unsent \in BOOLEAN
      BY <1>1 DEF Init, Runs
    <3> QED
      BY <3>1, <3>2, <3>3 DEF TypeOK
  <2>3. PagesAreApart
    BY <1>1 DEF Init, PagesAreApart
  <2>4. JoinedInv
    BY <1>1 DEF Init, JoinedInv, Connected
  <2>5. NewsInv
    BY <1>1 DEF Init, NewsInv
  <2>6. RestInv
    BY <1>1 DEF Init, RestInv
  <2> QED
    BY <2>2, <2>3, <2>4, <2>5, <2>6 DEF DrivingInv
<1>2. ASSUME DrivingInv, [Next]_vars PROVE DrivingInv'
  <2>1. ASSUME NEW p \in Pages, PageStep(p) PROVE DrivingInv'
    <3>1. CASE StartRun(p) \/ NeutralTick(p) \/ Settled(p) \/ DriveTick(p) \/ EndRun(p)
      BY <1>2, <3>1, PageActions, PageKeeps
    <3>2. CASE StopBar(p)
      BY <1>2, <3>2, StopBarActs, PageKeeps
    <3>3. CASE OnDriveState(p)
      BY <1>2, <3>3, DriveStateKeeps
    <3>4. CASE OpenLink(p)
      BY <1>2, <3>4, OpenLinkKeeps
    <3>5. CASE LoseLink(p)
      BY <1>2, <3>5, LoseLinkKeeps
    <3> QED
      BY <2>1, <3>1, <3>2, <3>3, <3>4, <3>5 DEF PageStep
  <2>2. ASSUME NEW c \in Clients, SessionStep(c) PROVE DrivingInv'
    <3>1. CASE Receive(c)
      BY <1>2, <3>1, ReceiveActs, BridgeKeeps
    <3>2. CASE Greeted(c)
      BY <1>2, <3>2, GreetedKeeps
    <3>3. CASE Transmit(c)
      BY <1>2, <3>3, TransmitKeeps
    <3>4. CASE Leave(c)
      BY <1>2, <3>4, LeaveActs, BridgeKeeps
    <3> QED
      BY <2>2, <3>1, <3>2, <3>3, <3>4 DEF SessionStep
  <2>3. ASSUME RobotStep PROVE DrivingInv'
    <3>1. CASE EndByRobot
      BY <1>2, <3>1, EndByRobotActs, BridgeKeeps
    <3>2. CASE \E tells \in BOOLEAN : SetBlocker(tells)
      BY <1>2, <3>2, SetBlockerActs, BridgeKeeps
    <3>3. CASE GuardOver
      BY <1>2, <3>3, GuardOverActs, BridgeKeeps
    <3>4. CASE Repeat
      BY <1>2, <3>4, RepeatActs, BridgeKeeps
    <3> QED
      BY <2>3, <3>1, <3>2, <3>3, <3>4 DEF RobotStep
  <2>4. ASSUME UNCHANGED vars PROVE DrivingInv'
    <3>1. UNCHANGED <<client, run, allows, toBridge, toPage, slot, joined, greeting, bridge, unsent>>
      BY <2>4 DEF vars, pageVars, wireVars, bridgeVars
    <3>2. TypeOK' /\ PagesAreApart' /\ JoinedInv'
      BY <1>2, <3>1 DEF DrivingInv, TypeOK, PagesAreApart, JoinedInv, Connected
    <3>3. NewsInv'
      BY <1>2, <3>1 DEF DrivingInv, NewsInv, NewsFor
    <3>4. RestInv'
      BY <1>2, <3>1 DEF DrivingInv, RestInv, Asleep, AtRest, NotNamed, NoSpeed
    <3> QED
      BY <3>2, <3>3, <3>4 DEF DrivingInv
  <2> QED
    BY <1>2, <2>1, <2>2, <2>3, <2>4 DEF Next
<1> QED
  BY <1>1, <1>2, PTL DEF Spec

(* A page that believes it drives does, or is about to hear that it does   *)
(* not, whatever is lost with a greeting, replaced in a slot or left to    *)
(* the tick; and the bridge drives for greeted sessions only, never while  *)
(* a blocker stands.                                                       *)
THEOREM DriversAreSafe == Spec => []DrivingSafety
<1>1. ASSUME DrivingInv PROVE RunnerWillHear
  <2> SUFFICES ASSUME NEW p \in Pages, run[p] \in Started, bridge.owner # client[p], ~unsent,
                      client[p] \in joined
               PROVE  \E n \in DOMAIN Pending(client[p]) :
                        Pending(client[p])[n].owner # client[p]
    BY DEF RunnerWillHear
  <2> DEFINE c == client[p]
             s == toPage[c]
             t == slot[c]
  <2>1. c # Nobody /\ NewsFor(c, p)
    BY <1>1 DEF DrivingInv, PagesAreApart, NewsInv, Started
  <2>2. /\ c \in Clients /\ s \in Seq(State) /\ t \in Seq(State) /\ Len(t) <= 1
    BY <1>1, <2>1, TypeFacts DEF Slots
  <2>3. /\ t # <<>> => t[1].owner # c
        /\ t = <<>> => s # <<>> /\ s[Len(s)].owner # c
    BY <2>1 DEF NewsFor
  <2>4. Pending(c) = s \o t
    BY DEF Pending
  <2> HIDE DEF s, t, c
  <2>5. CASE t # <<>>
    <3>1. s \o t \in Seq(State) /\ s \o t # <<>> /\ (s \o t)[Len(s \o t)] = t[1]
      BY <2>2, <2>5, OneAppended
    <3>2. Len(s \o t) \in DOMAIN (s \o t)
      BY <3>1, EmptySeq, LenProperties
    <3> QED
      BY <2>3, <2>4, <2>5, <3>1, <3>2 DEF c
  <2>6. CASE t = <<>>
    <3>1. s \o t = s
      BY <2>2, <2>6, ConcatEmptySeq
    <3>2. Len(s) \in DOMAIN s
      BY <2>2, <2>3, <2>6, EmptySeq, LenProperties
    <3> QED
      BY <2>3, <2>4, <2>6, <3>1, <3>2 DEF c
  <2> QED
    BY <2>5, <2>6
<1>2. DrivingInv => DrivingSafety
  BY <1>1 DEF DrivingInv, DrivingSafety
<1> QED
  BY <1>2, DrivingInvariant, PTL

(* The bridge never begins to drive for a session but on a zero of it.     *)
THEOREM RunsRest == Spec => RunsStartFromRest
<1>1. ASSUME DrivingInv, [Next]_vars, NEW c \in Clients, bridge.owner # c, bridge'.owner = c
      PROVE  Head(toBridge[c]) = "zero"
  <2>1. bridge \in Bridge /\ c # Nobody
    BY <1>1, TypeFacts, LabDriveAssumption
  <2>2. bridge'.owner # bridge.owner
    BY <1>1
  <2>3. ~UNCHANGED bridge
    BY <2>2
  <2>4. ASSUME NEW p \in Pages, PageStep(p) PROVE FALSE
    <3>1. CASE OpenLink(p)
      BY <2>1, <2>2, <3>1 DEF OpenLink, NewSession, Bridge
    <3> QED
      BY <2>3, <2>4, <3>1
         DEF PageStep, StartRun, NeutralTick, Settled, DriveTick, EndRun, StopBar,
             OnDriveState, LoseLink, bridgeVars
  <2>5. \A by \in Clients \cup {Nobody} : bridge.owner # Nobody =>
          End(bridge, by).owner = Nobody /\ End(bridge, by) \in Bridge
    BY <2>1, EndFacts
  <2>6. ASSUME RobotStep PROVE FALSE
    <3>1. ~EndByRobot
      BY <1>1, <2>1, <2>5 DEF EndByRobot
    <3>2. ASSUME NEW tells \in BOOLEAN PROVE ~SetBlocker(tells)
      <4>1. bridge.owner = Nobody => [bridge EXCEPT !.blocked = ~@].owner = Nobody
        BY <2>1 DEF Bridge
      <4>2. bridge.owner # Nobody =>
              [End(bridge, Nobody) EXCEPT !.blocked = TRUE].owner = Nobody
        BY <2>1, <2>5 DEF Bridge
      <4> QED
        BY <1>1, <2>1, <4>1, <4>2 DEF SetBlocker
    <3>3. ~GuardOver
      BY <2>1, <2>2 DEF GuardOver, Bridge
    <3> QED
      BY <2>3, <2>6, <3>1, <3>2, <3>3 DEF RobotStep, Repeat
  <2>7. ASSUME NEW d \in Clients, Leave(d) PROVE FALSE
    <3>1. CASE bridge.owner = d
      <4>1. End(bridge, d).owner = Nobody /\ End(bridge, d) \in Bridge
        BY <2>1, <3>1, <2>5, LabDriveAssumption
      <4>2. [End(bridge, d) EXCEPT !.needsNeutral = @ \ {d}].owner = Nobody
        BY <4>1 DEF Bridge
      <4> QED
        BY <1>1, <2>1, <2>7, <3>1, <4>2 DEF Leave
    <3> QED
      BY <2>3, <2>7, <3>1 DEF Leave
  <2>8. ASSUME NEW d \in Clients, Receive(d) PROVE Head(toBridge[c]) = "zero"
    <3> DEFINE kind == Head(toBridge[d])
               verdict == Verdict(d, kind)
    <3>1. ~(kind \in Stops /\ OnStop(d, kind))
      BY <1>1, <2>1, <2>3, <2>5, <2>8 DEF OnStop, MayStop
    <3>2. kind \in Commands /\ OnCommand(d, kind)
      BY <2>8, <3>1 DEF Receive
    <3>3. bridge' = IF verdict = "blocked"
                    THEN [bridge EXCEPT !.needsNeutral = @ \cup {d}]
                    ELSE IF verdict = "invalid" /\ bridge.owner = d THEN End(bridge, d)
                    ELSE IF verdict = "drives"
                    THEN [bridge EXCEPT !.owner = d, !.needsNeutral = @ \ {d}]
                    ELSE bridge
      BY <3>2 DEF OnCommand
    <3>4. verdict = "drives" /\ c = d
      <4>1. [bridge EXCEPT !.needsNeutral = @ \cup {d}].owner = bridge.owner
        BY <2>1 DEF Bridge
      <4>2. [bridge EXCEPT !.owner = d, !.needsNeutral = @ \ {d}].owner = d
        BY <2>1 DEF Bridge
      <4>3. bridge.owner = d => End(bridge, d).owner = Nobody
        BY <2>5, LabDriveAssumption
      <4> HIDE DEF verdict
      <4> QED
        BY <1>1, <2>1, <2>2, <2>3, <3>3, <4>1, <4>2, <4>3
    <3>5. kind # "broken" /\ (c \notin bridge.needsNeutral \/ kind = "zero")
      BY <3>4 DEF Verdict
    <3>6. kind # "go" \/ c \in bridge.needsNeutral
      <4> SUFFICES ASSUME c \notin bridge.needsNeutral PROVE kind # "go"
        OBVIOUS
      <4>1. NoSpeed(c)
        BY <1>1, <2>8, <3>4 DEF DrivingInv, RestInv, Asleep, AtRest, Receive
      <4>2. toBridge \in [Clients -> Seq(Frame)] /\ toBridge[c] # <<>>
        BY <1>1, <2>8, <3>4, TypeFacts DEF Receive
      <4>3. Head(toBridge[c]) = toBridge[c][1] /\ 1 \in DOMAIN toBridge[c]
        BY <4>2, ReadFacts
      <4> QED
        BY <3>4, <4>1, <4>3 DEF NoSpeed
    <3> QED
      BY <3>2, <3>4, <3>5, <3>6 DEF Commands
  <2>9. ASSUME NEW d \in Clients, Greeted(d) \/ Transmit(d) PROVE FALSE
    BY <2>3, <2>9 DEF Greeted, Transmit, bridgeVars
  <2>10. ~UNCHANGED vars
    BY <2>3 DEF vars, bridgeVars
  <2> QED
    BY <1>1, <2>4, <2>6, <2>7, <2>8, <2>9, <2>10 DEF Next, SessionStep
<1>2. DrivingInv /\ [Next]_vars =>
        [\A c \in Clients : bridge.owner # c /\ bridge'.owner = c => Head(toBridge[c]) = "zero"]_vars
  BY <1>1
<1> QED
  BY <1>2, DrivingInvariant, PTL DEF Spec, RunsStartFromRest
=============================================================================
