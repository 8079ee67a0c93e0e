------------------------------ MODULE LabDrive ------------------------------
(***************************************************************************)
(* Driving from the lesson pages: runDrive of static/lab/js/live/          *)
(* drive-link.js on each page, the DriveSession of questix_lab_bridge      *)
(* (drive.py, bridge_node.py) that lets one of them drive, and the frames  *)
(* between them.  A page repeats its command as the session's heartbeat;   *)
(* the bridge tells every page who drives with drive_state, of which a     *)
(* connection keeps only the newest one that is not sent yet (ws_server.py)*)
(*                                                                         *)
(* Every time limit (dead-man, time limit, start timeout, neutral phases,  *)
(* restart guard) may end at any moment.                                   *)
(***************************************************************************)
EXTENDS Naturals, Sequences

CONSTANTS
    Pages,        \* lesson pages
    Clients,      \* sessions of the bridge; one is used again when nothing of it is left
    Nobody,       \* owner = None, and no session
    MaxSent,      \* bound: frames of a page on their way
    MaxStates,    \* bound: drive_state frames on their way to a page
    LinksMayFail  \* a link may end, and either end may be the first to know

ASSUME LabDriveAssumption ==
    /\ Nobody \notin Clients
    /\ MaxSent \in Nat /\ MaxStates \in Nat
    /\ LinksMayFail \in BOOLEAN

VARIABLES
    client,    \* page: its session, or Nobody without a link
    run,       \* page: its run, see Runs
    allows,    \* page: the latest drive_state it has seen lets it drive
    toBridge,  \* session: frames on their way to the bridge
    toPage,    \* session: drive_state frames on their way to the page
    slot,      \* session: the newest drive_state not sent yet, if there is one (_Client.slots)
    joined,    \* sessions the bridge knows
    greeting,  \* of these, the ones whose greeting is still being sent
    bridge,    \* the DriveSession
    unsent     \* version # _drive_sent_version: a change nobody was told of yet

pageVars == <<client, run, allows>>
wireVars == <<toBridge, toPage, slot>>
bridgeVars == <<joined, greeting, bridge, unsent>>
vars == <<pageVars, wireVars, bridgeVars>>

\* asking: zeros until the bridge names us; settling: accepted, still zeros.
Runs == {"none", "asking", "settling", "driving"}
Started == {"settling", "driving"}

\* "broken": a value that is not finite, null in JSON.
Commands == {"zero", "go", "broken"}
Stops == {"stopMine", "stopAll"}
Frame == Commands \cup Stops

State == [owner : Clients \cup {Nobody}, blocked : BOOLEAN, refused : BOOLEAN]
StateOf(b, refused) == [owner |-> b.owner, blocked |-> b.blocked, refused |-> refused]

Bridge ==
    [ owner : Clients \cup {Nobody}, blocked : BOOLEAN,
      guard : Clients \cup {Nobody}, needsNeutral : SUBSET Clients ]

Init ==
    /\ client = [p \in Pages |-> Nobody]
    /\ run = [p \in Pages |-> "none"]
    /\ allows = [p \in Pages |-> FALSE]
    /\ toBridge = [c \in Clients |-> <<>>]
    /\ toPage = [c \in Clients |-> <<>>]
    /\ slot = [c \in Clients |-> <<>>]
    /\ joined = {} /\ greeting = {}
    /\ bridge = [owner |-> Nobody, blocked |-> TRUE, guard |-> Nobody, needsNeutral |-> {}]
    /\ unsent = FALSE

-----------------------------------------------------------------------------
(* The page: drive-link.js, drive-core.js                                    *)

\* No blocker in it, and no other page drives.
Allows(m, c) == ~m.blocked /\ m.owner \in {c, Nobody}

\* driveReadiness: the learner's tick that the surroundings are clear, and the streams a
\* lesson needs, are his choice to start or not.
Ready(p) == client[p] # Nobody /\ allows[p] /\ run[p] = "none"

Sent(c, kind) == [toBridge EXCEPT ![c] = Append(@, kind)]
MaySend(c) == Len(toBridge[c]) < MaxSent

\* runDrive: the first tick sends a zero at once.
StartRun(p) ==
    /\ Ready(p)
    /\ MaySend(client[p])
    /\ run' = [run EXCEPT ![p] = "asking"]
    /\ toBridge' = Sent(client[p], "zero")
    /\ UNCHANGED <<client, allows, toPage, slot, bridgeVars>>

\* tick while the bridge has not named us, or in the neutral phase after it has.
NeutralTick(p) ==
    /\ run[p] \in {"asking", "settling"}
    /\ MaySend(client[p])
    /\ toBridge' = Sent(client[p], "zero")
    /\ UNCHANGED <<pageVars, toPage, slot, bridgeVars>>

\* STARTUP_NEUTRAL_SECONDS after the bridge accepted us the controller takes over.
Settled(p) ==
    /\ run[p] = "settling"
    /\ run' = [run EXCEPT ![p] = "driving"]
    /\ UNCHANGED <<client, allows, wireVars, bridgeVars>>

\* The controller's command, clamped to the limits.
DriveTick(p) ==
    /\ run[p] = "driving"
    /\ MaySend(client[p])
    /\ \E kind \in Commands : toBridge' = Sent(client[p], kind)
    /\ UNCHANGED <<pageVars, toPage, slot, bridgeVars>>

\* finish(reason) of a run that ends on this page: a stop for its own run only.
Finish(p) ==
    /\ run' = [run EXCEPT ![p] = "none"]
    /\ toBridge' = Sent(client[p], "stopMine")

\* Done, failed, not responding, no answer, Esc, the abort signal, the page hidden.
EndRun(p) ==
    /\ run[p] # "none"
    /\ Finish(p)
    /\ UNCHANGED <<client, allows, toPage, slot, bridgeVars>>

\* stopDrive, the stop bar of any page: any run, and this page's own.
StopBar(p) ==
    /\ client[p] # Nobody
    /\ MaySend(client[p])
    /\ toBridge' =
         [toBridge EXCEPT ![client[p]] =
            @ \o (IF run[p] = "none" THEN <<"stopAll">> ELSE <<"stopAll", "stopMine">>)]
    /\ run' = [run EXCEPT ![p] = "none"]
    /\ UNCHANGED <<client, allows, toPage, slot, bridgeVars>>

\* Mutant: only a refusal ends a run.
HeardRefusal(p, m) ==
    IF m.owner = client[p]
    THEN /\ run' = [run EXCEPT ![p] = IF @ = "asking" THEN "settling" ELSE @]
         /\ UNCHANGED toBridge
    ELSE \/ run[p] # "none" /\ m.refused /\ Finish(p)
         \/ (run[p] = "none" \/ ~m.refused) /\ UNCHANGED <<run, toBridge>>

\* What the run in progress makes of a drive_state.
Heard(p, m) ==
    IF m.owner = client[p]
    THEN /\ run' = [run EXCEPT ![p] = IF @ = "asking" THEN "settling" ELSE @]
         /\ UNCHANGED toBridge
    ELSE \/ run[p] = "asking" /\ m.refused /\ Finish(p)
         \/ run[p] = "asking" /\ ~m.refused /\ UNCHANGED <<run, toBridge>>
         \/ /\ run[p] \in Started               \* stopped_by_bridge: no stop is sent
            /\ run' = [run EXCEPT ![p] = "none"] /\ UNCHANGED toBridge
         \/ run[p] = "none" /\ UNCHANGED <<run, toBridge>>

\* A drive_state arrives.
OnDriveState(p) ==
    LET c == client[p] IN
    /\ c # Nobody
    /\ toPage[c] # <<>>
    /\ toPage' = [toPage EXCEPT ![c] = Tail(@)]
    /\ allows' = [allows EXCEPT ![p] = Allows(Head(toPage[c]), c)]
    /\ Heard(p, Head(toPage[c]))
    /\ UNCHANGED <<client, slot, bridgeVars>>

\* The bridge's clients that a page still listens to; the others receive nothing.
Connected == {client[p] : p \in Pages} \cap joined

Free == {c \in Clients \ joined : toBridge[c] = <<>> /\ \A p \in Pages : client[p] # c}

\* A new session: nothing the bridge remembers is about it.
NewSession(c) ==
    bridge' = [bridge EXCEPT !.needsNeutral = @ \ {c}, !.guard = IF @ = c THEN Nobody ELSE @]

\* The link opens; the greeting ends with the present drive_state.
OpenLink(p) ==
    \E c \in Free :
      /\ client[p] = Nobody
      /\ client' = [client EXCEPT ![p] = c]
      /\ joined' = joined \cup {c} /\ greeting' = greeting \cup {c}
      /\ toPage' = [toPage EXCEPT ![c] = <<StateOf(bridge, FALSE)>>]
      /\ slot' = [slot EXCEPT ![c] = <<>>]
      /\ NewSession(c)
      /\ UNCHANGED <<run, allows, toBridge, unsent>>

\* The link is lost: finish('lost') can send nothing; what was sent may still arrive,
\* unless the bridge has ended the connection before (the socket's close event).
LoseLink(p) ==
    /\ client[p] # Nobody
    /\ client[p] \in joined => LinksMayFail
    /\ client' = [client EXCEPT ![p] = Nobody]
    /\ run' = [run EXCEPT ![p] = "none"]
    /\ allows' = [allows EXCEPT ![p] = FALSE]
    /\ toPage' = [toPage EXCEPT ![client[p]] = <<>>]
    /\ slot' = [slot EXCEPT ![client[p]] = <<>>]
    /\ toBridge' = IF client[p] \in joined THEN toBridge
                   ELSE [toBridge EXCEPT ![client[p]] = <<>>]
    /\ UNCHANGED bridgeVars

\* The bridge has ended the connection, and the page hears of it.
HearClose(p) == client[p] \notin joined /\ LoseLink(p)

-----------------------------------------------------------------------------
(* The bridge: drive.py behind bridge_node.py and ws_server.py               *)

\* Mutant: a state that is not sent yet keeps its place.
OfferedOnce(b, slots, to) ==
    [c \in Clients |-> IF c \in to /\ slots[c] = <<>>
                       THEN <<StateOf(b, FALSE)>> ELSE slots[c]]

\* publish: the newest state replaces one that is not sent yet.
Offered(b, slots, to) == [c \in Clients |-> IF c \in to THEN <<StateOf(b, FALSE)>> ELSE slots[c]]

\* _send_drive_state after `bridge` became bridge', with `slots` as it finds them, to the
\* clients that are left.
Changed == bridge'.owner # bridge.owner \/ bridge'.blocked # bridge.blocked
SendDriveState(slots, to) ==
    /\ slot' = IF unsent \/ Changed THEN Offered(bridge', slots, to) ELSE slots
    /\ unsent' = FALSE

\* Mutant: the session may go on with the speed it had.
EndWithoutNeutral(b, by) ==
    [b EXCEPT !.owner = Nobody, !.guard = IF by # b.owner THEN b.owner ELSE @]

\* _end: a run that was not ended by its own session guards against its commands on the way.
End(b, by) ==
    [b EXCEPT !.owner = Nobody,
              !.needsNeutral = @ \cup {b.owner},
              !.guard = IF by # b.owner THEN b.owner ELSE @]

\* request(): the guard, the blockers, another owner, a finite value, a neutral first.
Verdict(c, kind) ==
    IF bridge.guard = c THEN "stale"
    ELSE IF bridge.blocked THEN "blocked"
    ELSE IF bridge.owner \notin {Nobody, c} THEN "busy"
    ELSE IF kind = "broken" THEN "invalid"
    ELSE IF c \in bridge.needsNeutral /\ kind # "zero" THEN "needs_neutral"
    ELSE "drives"

OnCommand(c, kind) ==
    LET verdict == Verdict(c, kind)
        ends == verdict = "invalid" /\ bridge.owner = c
    IN /\ bridge' = IF verdict = "blocked"
                    THEN [bridge EXCEPT !.needsNeutral = @ \cup {c}]
                    ELSE IF ends THEN End(bridge, c)
                    ELSE IF verdict = "drives"
                    THEN [bridge EXCEPT !.owner = c, !.needsNeutral = @ \ {c}]
                    ELSE bridge
       /\ SendDriveState(IF verdict \in {"stale", "drives"} \/ c \notin Connected THEN slot
                         ELSE [slot EXCEPT ![c] = <<StateOf(bridge', TRUE)>>], Connected)

\* stop(): any page may stop any run; scoped to `mine`, only its own.
MayStop(c, kind) == bridge.owner # Nobody /\ (kind = "stopMine" => bridge.owner = c)

OnStop(c, kind) ==
    /\ bridge' = IF MayStop(c, kind) THEN End(bridge, c) ELSE bridge
    /\ SendDriveState(slot, Connected)

\* _on_browser, on the WebSocket thread; no frame is read before the greeting is sent.
Receive(c) ==
    /\ c \in joined \ greeting
    /\ toBridge[c] # <<>>
    /\ toBridge' = [toBridge EXCEPT ![c] = Tail(@)]
    /\ LET kind == Head(toBridge[c]) IN
       \/ kind \in Commands /\ OnCommand(c, kind)
       \/ kind \in Stops /\ OnStop(c, kind)
    /\ UNCHANGED <<pageVars, toPage, joined, greeting>>

\* The dead-man, the time limit, or the arbiter gave the robot to the controller.
EndByRobot ==
    /\ bridge.owner # Nobody
    /\ bridge' = End(bridge, Nobody)
    /\ SendDriveState(slot, Connected)
    /\ UNCHANGED <<pageVars, toBridge, toPage, joined, greeting>>

\* The first blocker appears (and ends the run) or the last one goes.  The tick and the
\* arbiter's status tell the pages at once; the emergency stop and the graph leave it to
\* the next tick.
SetBlocker(tells) ==
    /\ bridge' = IF bridge.owner = Nobody THEN [bridge EXCEPT !.blocked = ~@]
                 ELSE [End(bridge, Nobody) EXCEPT !.blocked = TRUE]
    /\ IF tells THEN SendDriveState(slot, Connected) ELSE unsent' = TRUE /\ UNCHANGED slot
    /\ UNCHANGED <<pageVars, toBridge, toPage, joined, greeting>>

\* The tick: drive_state is sent when something changed, and once a second without a change.
Repeat ==
    /\ slot' = Offered(bridge, slot, Connected) /\ unsent' = FALSE
    /\ UNCHANGED <<pageVars, toBridge, toPage, joined, greeting, bridge>>

\* RESTART_GUARD_SEC after the bridge ended the run.
GuardOver ==
    /\ bridge.guard # Nobody
    /\ bridge' = [bridge EXCEPT !.guard = Nobody]
    /\ UNCHANGED <<pageVars, wireVars, joined, greeting, unsent>>

\* The greeting is out; what was offered in the meantime is thrown away.
Greeted(c) ==
    /\ c \in greeting
    /\ greeting' = greeting \ {c}
    /\ slot' = [slot EXCEPT ![c] = <<>>]
    /\ UNCHANGED <<pageVars, toBridge, toPage, joined, bridge, unsent>>

\* The sender task puts the newest state on the wire.
Transmit(c) ==
    /\ c \in joined \ greeting
    /\ slot[c] # <<>>
    /\ Len(toPage[c]) < MaxStates
    /\ toPage' = [toPage EXCEPT ![c] = @ \o slot[c]]
    /\ slot' = [slot EXCEPT ![c] = <<>>]
    /\ UNCHANGED <<pageVars, toBridge, bridgeVars>>

\* The handler's finally and _on_leave: the connection's end is noticed, or the server ends
\* it (too many saves, no answer to its pings) while the page still takes it for open; what
\* was not sent and not read is lost.
Leave(c) ==
    /\ c \in joined
    /\ c \in Connected => LinksMayFail
    /\ joined' = joined \ {c} /\ greeting' = greeting \ {c}
    /\ toBridge' = [toBridge EXCEPT ![c] = <<>>]
    /\ LET slots == [slot EXCEPT ![c] = <<>>] IN
       \/ /\ bridge.owner = c
          /\ bridge' = [End(bridge, c) EXCEPT !.needsNeutral = @ \ {c}]
          /\ SendDriveState(slots, Connected \ {c})
       \/ bridge.owner # c /\ slot' = slots /\ UNCHANGED <<bridge, unsent>>
    /\ UNCHANGED <<pageVars, toPage>>

-----------------------------------------------------------------------------
PageStep(p) ==
    \/ StartRun(p) \/ NeutralTick(p) \/ Settled(p) \/ DriveTick(p) \/ EndRun(p)
    \/ StopBar(p) \/ OnDriveState(p) \/ OpenLink(p) \/ LoseLink(p)

SessionStep(c) == Receive(c) \/ Greeted(c) \/ Transmit(c) \/ Leave(c)

RobotStep == EndByRobot \/ (\E tells \in BOOLEAN : SetBlocker(tells)) \/ GuardOver \/ Repeat

Next ==
    \/ \E p \in Pages : PageStep(p)
    \/ \E c \in Clients : SessionStep(c)
    \/ RobotStep

Spec == Init /\ [][Next]_vars

\* The tick runs at 20 Hz, the server's tasks take turns, and a page handles what arrives,
\* the end of its connection too.
\* Nobody has to start, to stop or to lose a link, and no limit has to end.
FairSpec ==
    /\ Spec
    /\ WF_vars(Repeat)
    /\ \A c \in Clients : WF_vars(Greeted(c)) /\ WF_vars(Transmit(c))
    /\ \A p \in Pages : WF_vars(OnDriveState(p)) /\ WF_vars(HearClose(p))

-----------------------------------------------------------------------------
TypeOK ==
    /\ client \in [Pages -> Clients \cup {Nobody}]
    /\ run \in [Pages -> Runs]
    /\ allows \in [Pages -> BOOLEAN]
    /\ toBridge \in [Clients -> Seq(Frame)]
    /\ toPage \in [Clients -> Seq(State)]
    /\ slot \in [Clients -> Seq(State)] /\ \A c \in Clients : Len(slot[c]) <= 1
    /\ joined \subseteq Clients /\ greeting \subseteq joined
    /\ bridge \in Bridge
    /\ unsent \in BOOLEAN

\* What will still be delivered to c, oldest first.
Pending(c) == toPage[c] \o slot[c]

(* A page that believes it drives is the owner, or will hear that it is not: *)
(* the newest-only slot, the greeting and a change that is not sent yet      *)
(* never swallow the end of a run.  A page whose connection the bridge has   *)
(* ended hears that instead.                                                 *)
RunnerWillHear ==
    \A p \in Pages :
      run[p] \in Started /\ bridge.owner # client[p] =>
        \/ unsent \/ client[p] \notin joined
        \/ \E n \in DOMAIN Pending(client[p]) : Pending(client[p])[n].owner # client[p]

(* A run has a session of its own, and the bridge drives only for a session  *)
(* it has greeted and while no blocker stands.                               *)
PagesAreApart ==
    /\ \A p \in Pages : run[p] # "none" => client[p] # Nobody
    /\ \A p, q \in Pages : client[p] = client[q] /\ client[p] # Nobody => p = q
    /\ bridge.blocked => bridge.owner = Nobody
    /\ bridge.owner # Nobody => bridge.owner \in joined \ greeting

DrivingSafety == TypeOK /\ RunnerWillHear /\ PagesAreApart

(* Every run of the bridge begins with a zero, whatever was still on its way *)
(* from an earlier run, another page or before a blocker: the wheels never   *)
(* start with the speed of somebody else's run.                              *)
RunsStartFromRest ==
    [][\A c \in Clients : bridge.owner # c /\ bridge'.owner = c => Head(toBridge[c]) = "zero"]_vars

(* A page that is not the owner any more stops believing that it drives.    *)
RunnersHear ==
    \A p \in Pages :
      run[p] \in Started /\ bridge.owner # client[p]
        ~> run[p] \notin Started \/ bridge.owner = client[p]
=============================================================================
