----------------------------- MODULE RobotLink -----------------------------
(***************************************************************************)
(* The page's link to the robot, static/lab/js/live/robot-link.js: one     *)
(* WebSocket at a time, its retries and time limits, and the record_save   *)
(* requests whose answers carry no request number and are matched by their *)
(* order.  The network and the bridge (questix_lab_bridge/ws_server.py)    *)
(* are the other end: they accept, refuse, drop and go silent at any time. *)
(*                                                                         *)
(* A timer is armed or not; an armed timer may fire at any moment.         *)
(***************************************************************************)
EXTENDS Naturals, Sequences, FiniteSets

CONSTANTS
    Conns,        \* WebSocket objects; one is used again when nothing of it is left
    NoConn,       \* socket = null
    Saves,        \* record_save requests of this page
    MaxInbox,     \* bound: frames on their way to the page
    ServedHere    \* the page was opened from the bridge it talks to

ASSUME LinkAssumption ==
    /\ NoConn \notin Conns
    /\ MaxInbox \in Nat
    /\ ServedHere \in BOOLEAN

VARIABLES
    link,      \* the module's `state`
    wanted,    \* the learner asked for a link
    timers,    \* armed: "retry", "connect", "silence"
    socket,    \* the WebSocket in use, or NoConn
    saves,     \* record_save requests waiting for their answer, oldest first
    outcome,   \* how the promise of each request stands
    net,       \* the connections and the frames on them
    bridge,    \* how the robot's end treats a new connection
    kept       \* recordings the bridge has written

vars == <<link, wanted, timers, socket, saves, outcome, net, bridge, kept>>
pageVars == <<link, wanted, timers, socket, saves, outcome>>

StoppedAfter == 3     \* STOPPED_AFTER_FAILURES; more failures make no difference
Phases == {"idle", "connecting", "open", "error"}
Problems == {"", "timeout", "refused", "full", "lost", "stopped", "blocked", "version"}
Timers == {"retry", "connect", "silence"}
Bridges == {"up", "full", "down", "away", "old"}

Link ==
    [ phase : Phases, problem : Problems, everOpened : BOOLEAN, silent : BOOLEAN,
      failures : 0..StoppedAfter, hello : BOOLEAN, session : Conns \cup {NoConn} ]

Hello(good) == [kind |-> "hello", good |-> good]
Session(c) == [kind |-> "session", conn |-> c]
Status(moving) == [kind |-> "status", good |-> moving]
Answer(i, good) == [kind |-> "answer", id |-> i, good |-> good]
Close(full) == [kind |-> "close", good |-> full]

Frames ==
    [kind : {"hello", "status", "close"}, good : BOOLEAN]
      \cup [kind : {"session"}, conn : Conns]
      \cup [kind : {"answer"}, id : Saves, good : BOOLEAN]

Unused == [stage |-> "free", inbox |-> <<>>, outbox |-> <<>>]

Init ==
    /\ link = [ phase |-> "idle", problem |-> "", everOpened |-> FALSE, silent |-> FALSE,
                failures |-> 0, hello |-> FALSE, session |-> NoConn ]
    /\ wanted = FALSE
    /\ timers = {}
    /\ socket = NoConn
    /\ saves = <<>>
    /\ outcome = [i \in Saves |-> "none"]
    /\ net = [c \in Conns |-> Unused]
    /\ bridge \in Bridges
    /\ kept = {}

------------------------------------------------------------------------------
(* What every path that loses a connection does.                             *)

PendingIds == {saves[n].id : n \in {m \in DOMAIN saves : ~saves[m].timedOut}}

\* The answers are gone with the connection: whoever still waits is told so.
DropSaves ==
    /\ saves' = <<>>
    /\ outcome' = [i \in Saves |-> IF i \in PendingIds THEN "failed" ELSE outcome[i]]

\* old.close(): the bridge still reads what was sent, the page reads nothing.
Leave(c) == [net EXCEPT ![c].stage = IF @ = "free" THEN "free" ELSE "leaving"]
Left == IF socket = NoConn THEN net ELSE Leave(socket)

Opening(n, c) == [n EXCEPT ![c] = [stage |-> "opening", inbox |-> <<>>, outbox |-> <<>>]]
Free(n) == {c \in Conns : n[c].stage = "free"}

\* open(url): a new attempt replaces whatever was there.
Open(base, n) ==
    \E c \in Free(n) :
      /\ link' = [base EXCEPT !.phase = "connecting", !.hello = FALSE,
                              !.session = NoConn, !.silent = FALSE]
      /\ socket' = c
      /\ timers' = {"connect"}
      /\ net' = Opening(n, c)

\* The browser refuses to start: no retry can help.
Blocked(base) ==
    /\ link' = [base EXCEPT !.phase = "idle", !.problem = "blocked", !.hello = FALSE,
                            !.session = NoConn, !.silent = FALSE,
                            !.failures = IF @ < StoppedAfter THEN @ + 1 ELSE @]
    /\ wanted' = FALSE
    /\ timers' = {}
    /\ socket' = NoConn

\* Mutant: a page served by the bridge gives up once it takes the bridge for stopped.
FailedGivesUp(problem) ==
    LET count == IF link.failures < StoppedAfter THEN link.failures + 1 ELSE link.failures
        gone  == count >= StoppedAfter /\ problem # "full" /\ ServedHere
    IN /\ link' = [link EXCEPT !.phase = "error", !.silent = FALSE, !.failures = count,
                               !.problem = IF gone THEN "stopped" ELSE problem]
       /\ timers' = IF gone THEN {} ELSE {"retry"}

Failed(problem) ==
    LET count == IF link.failures < StoppedAfter THEN link.failures + 1 ELSE link.failures
        gone  == count >= StoppedAfter /\ problem # "full" /\ ServedHere
    IN /\ link' = [link EXCEPT !.phase = "error", !.silent = FALSE, !.failures = count,
                               !.problem = IF gone THEN "stopped" ELSE problem]
       /\ timers' = {"retry"}

------------------------------------------------------------------------------
(* The learner                                                               *)

Fresh == [link EXCEPT !.problem = "", !.everOpened = FALSE, !.failures = 0]

Connect ==
    /\ wanted' = TRUE
    /\ DropSaves
    /\ Open(Fresh, Left)
    /\ UNCHANGED <<bridge, kept>>

ConnectBlocked ==
    /\ Blocked(Fresh)
    /\ DropSaves
    /\ net' = Left
    /\ UNCHANGED <<bridge, kept>>

Disconnect ==
    /\ wanted' = FALSE
    /\ timers' = {}
    /\ socket' = NoConn
    /\ DropSaves
    /\ net' = Left
    /\ link' = [Fresh EXCEPT !.phase = "idle", !.session = NoConn, !.silent = FALSE]
    /\ UNCHANGED <<bridge, kept>>

\* The bridge of this connection keeps records (hello.records.save).
MaySave == socket # NoConn /\ link.phase = "open"

SaveRecord(i) ==
    /\ outcome[i] = "none"
    /\ MaySave
    /\ saves' = Append(saves, [id |-> i, timedOut |-> FALSE])
    /\ outcome' = [outcome EXCEPT ![i] = "pending"]
    /\ net' = IF net[socket].stage = "up"
              THEN [net EXCEPT ![socket].outbox = Append(@, i)]
              ELSE net          \* the connection is already dead: the frame is lost
    /\ UNCHANGED <<link, wanted, timers, socket, bridge, kept>>

\* Not connected, not offered, or larger than the bridge accepts.
SaveRefused(i) ==
    /\ outcome[i] = "none"
    /\ outcome' = [outcome EXCEPT ![i] = "failed"]
    /\ UNCHANGED <<link, wanted, timers, socket, saves, net, bridge, kept>>

------------------------------------------------------------------------------
(* Timers                                                                    *)

RetryDue ==
    /\ "retry" \in timers
    /\ IF wanted THEN Open(link, net)
                 ELSE timers' = timers \ {"retry"} /\ UNCHANGED <<link, socket, net>>
    /\ UNCHANGED <<wanted, saves, outcome, bridge, kept>>

RetryBlocked ==
    /\ "retry" \in timers
    /\ wanted
    /\ Blocked(link)
    /\ UNCHANGED <<saves, outcome, net, bridge, kept>>

\* No hello by then.  A bridge that is up and reachable says hello in time.
Answering(c) == c # NoConn /\ bridge # "away" /\ net[c].stage # "free"

ConnectDue ==
    /\ "connect" \in timers
    /\ ~Answering(socket)
    /\ DropSaves
    /\ socket' = NoConn
    /\ net' = Left
    /\ Failed(IF link.everOpened THEN "lost" ELSE "timeout")
    /\ UNCHANGED <<wanted, bridge, kept>>

SilenceDue ==
    /\ "silence" \in timers
    /\ timers' = timers \ {"silence"}
    /\ link' = IF link.phase = "open" THEN [link EXCEPT !.silent = TRUE] ELSE link
    /\ UNCHANGED <<wanted, socket, saves, outcome, net, bridge, kept>>

\* Mutant: an entry that timed out leaves the queue at once.
SaveDueRemoved(n) ==
    /\ n \in DOMAIN saves
    /\ ~saves[n].timedOut
    /\ saves' = SubSeq(saves, 1, n - 1) \o SubSeq(saves, n + 1, Len(saves))
    /\ outcome' = [outcome EXCEPT ![saves[n].id] = "failed"]
    /\ UNCHANGED <<link, wanted, timers, socket, net, bridge, kept>>

SaveDue(n) ==
    /\ n \in DOMAIN saves
    /\ ~saves[n].timedOut
    /\ saves' = [saves EXCEPT ![n].timedOut = TRUE]
    /\ outcome' = [outcome EXCEPT ![saves[n].id] = "failed"]
    /\ UNCHANGED <<link, wanted, timers, socket, net, bridge, kept>>

------------------------------------------------------------------------------
(* Frames that reach the page                                                *)

ArmSilence(armed, l) == IF l.silent THEN armed ELSE armed \cup {"silence"}

OnHello(m) ==
    /\ IF m.good
       THEN LET opened == [link EXCEPT !.phase = "open", !.hello = TRUE, !.problem = "",
                                       !.everOpened = TRUE, !.failures = 0, !.silent = FALSE]
            IN /\ link' = opened
               /\ timers' = ArmSilence(timers \ {"connect"}, opened)
               /\ UNCHANGED <<wanted, socket, saves, outcome>>
       ELSE /\ wanted' = FALSE         \* refuseVersion
            /\ timers' = {}
            /\ socket' = NoConn
            /\ DropSaves
            /\ link' = [link EXCEPT !.phase = "idle", !.problem = "version"]

OnSession(m) ==
    /\ link' = [link EXCEPT !.session = m.conn]
    /\ UNCHANGED <<wanted, timers, socket, saves, outcome>>

OnStatus(m) ==
    /\ IF m.good
       THEN timers' = timers \ {"silence"} /\ link' = [link EXCEPT !.silent = FALSE]
       ELSE timers' = ArmSilence(timers, link) /\ UNCHANGED link
    /\ UNCHANGED <<wanted, socket, saves, outcome>>

\* The first answer is the oldest request's; one that timed out takes its own late answer.
OnAnswer(m) ==
    /\ IF saves = <<>>
       THEN UNCHANGED <<saves, outcome>>
       ELSE /\ saves' = Tail(saves)
            /\ outcome' = IF saves[1].timedOut THEN outcome
                          ELSE [outcome EXCEPT ![saves[1].id] =
                                  IF m.good THEN "kept" ELSE "failed"]
    /\ UNCHANGED <<link, wanted, timers, socket>>

OnClose(m) ==
    /\ socket' = NoConn
    /\ DropSaves
    /\ Failed(IF m.good THEN "full" ELSE IF link.everOpened THEN "lost" ELSE "refused")
    /\ UNCHANGED wanted

Handle(m) ==
    \/ m.kind = "hello" /\ OnHello(m)
    \/ m.kind = "session" /\ OnSession(m)
    \/ m.kind = "status" /\ OnStatus(m)
    \/ m.kind = "answer" /\ OnAnswer(m)
    \/ m.kind = "close" /\ OnClose(m)

\* `ws === socket`: an event of a socket that has been replaced is not for us.
Heard(c) == c = socket

Deliver(c) ==
    /\ net[c].inbox # <<>>
    /\ LET m    == Head(net[c].inbox)
           left == [net EXCEPT ![c].inbox = Tail(@)]
       IN /\ IF Heard(c) THEN Handle(m) ELSE UNCHANGED pageVars
          /\ net' = IF m.kind = "close" THEN [net EXCEPT ![c] = Unused]
                    ELSE IF c = socket /\ socket' = NoConn
                         THEN [left EXCEPT ![c].stage = "leaving"]
                         ELSE left
    /\ UNCHANGED <<bridge, kept>>

------------------------------------------------------------------------------
(* The other end: ws_server.py and the network                               *)

Send(c, m) == [net EXCEPT ![c].inbox = Append(@, m)]

\* hello always comes first, then the greeting (session).
Accept(c) ==
    /\ net[c].stage = "opening" /\ bridge \in {"up", "old"}
    /\ net' = [net EXCEPT ![c] = [ stage |-> "up", outbox |-> <<>>,
                                   inbox |-> <<Hello(bridge = "up"), Session(c)>> ]]
    /\ UNCHANGED <<link, wanted, timers, socket, saves, outcome, bridge, kept>>

TurnAway(c) ==
    /\ net[c].stage = "opening" /\ bridge \in {"full", "down"}
    /\ net' = [net EXCEPT ![c] = [ stage |-> "shut", outbox |-> <<>>,
                                   inbox |-> <<Close(bridge = "full")>> ]]
    /\ UNCHANGED <<link, wanted, timers, socket, saves, outcome, bridge, kept>>

SendStatus(c, moving) ==
    /\ net[c].stage = "up"
    /\ Len(net[c].inbox) < MaxInbox
    /\ net' = Send(c, Status(moving))
    /\ UNCHANGED <<link, wanted, timers, socket, saves, outcome, bridge, kept>>

\* Mutant: the bridge answers before it knows whether the file was written.
AnswerSaveEarly(c, good) ==
    /\ net[c].outbox # <<>>
    /\ net' = [net EXCEPT ![c].outbox = Tail(@),
                          ![c].inbox = Append(@, Answer(Head(net[c].outbox), good))]
    /\ UNCHANGED <<link, wanted, timers, socket, saves, outcome, bridge, kept>>

\* One save after another per connection: answers come in the order of the requests.
AnswerSave(c, good) ==
    /\ net[c].outbox # <<>>
    /\ LET i == Head(net[c].outbox)
           rest == [net EXCEPT ![c].outbox = Tail(@)]
       IN /\ kept' = IF good THEN kept \cup {i} ELSE kept
          /\ net' = IF net[c].stage = "up"
                    THEN [rest EXCEPT ![c].inbox = Append(@, Answer(i, good))]
                    ELSE rest
    /\ UNCHANGED <<link, wanted, timers, socket, saves, outcome, bridge>>

\* The connection breaks, or the bridge ends it: what was sent before still arrives,
\* and a save the bridge has already read is written without an answer.
Break(c) ==
    /\ net[c].stage = "up"
    /\ net' = [net EXCEPT ![c].stage = "shut",
                          ![c].inbox = Append(@, Close(FALSE))]
    /\ UNCHANGED <<link, wanted, timers, socket, saves, outcome, bridge, kept>>

\* Nothing of a connection the page has left is on its way any more.
Forget(c) ==
    /\ net[c].stage = "leaving"
    /\ net[c].inbox = <<>> /\ net[c].outbox = <<>>
    /\ net' = [net EXCEPT ![c] = Unused]
    /\ UNCHANGED <<link, wanted, timers, socket, saves, outcome, bridge, kept>>

BridgeChanges ==
    /\ bridge' \in Bridges \ {bridge}
    /\ UNCHANGED <<link, wanted, timers, socket, saves, outcome, net, kept>>

------------------------------------------------------------------------------
Learner ==
    \/ Connect \/ ConnectBlocked \/ Disconnect
    \/ \E i \in Saves : SaveRecord(i) \/ SaveRefused(i)

Due == RetryDue \/ RetryBlocked \/ ConnectDue \/ SilenceDue \/ \E n \in DOMAIN saves : SaveDue(n)

Robot ==
    \/ \E c \in Conns :
         \/ Accept(c) \/ TurnAway(c) \/ Break(c) \/ Forget(c)
         \/ \E good \in BOOLEAN : SendStatus(c, good) \/ AnswerSave(c, good)
    \/ BridgeChanges

Next == Learner \/ Due \/ Robot \/ \E c \in Conns : Deliver(c)

Spec == Init /\ [][Next]_vars

(* Timers fire, an answering bridge answers, frames that arrived are read.   *)
(* Nothing makes the learner act, the bridge come back or a status arrive.   *)
Fairness ==
    /\ WF_vars(RetryDue) /\ WF_vars(ConnectDue) /\ WF_vars(SilenceDue)
    /\ \A n \in 1..Cardinality(Saves) : WF_vars(SaveDue(n))
    /\ \A c \in Conns :
         WF_vars(Deliver(c)) /\ WF_vars(Accept(c)) /\ WF_vars(TurnAway(c)) /\ WF_vars(Forget(c))

FairSpec == Spec /\ Fairness

------------------------------------------------------------------------------
(* Properties                                                                *)

IsAnswer(m) == m.kind = "answer"

\* How many of the first n frames of an inbox are answers.
AnswersUpTo(box, n) == Cardinality({m \in DOMAIN box : m <= n /\ IsAnswer(box[m])})

\* The k-th answer on its way is for the k-th request of the queue.
AnswersFit(box, queue) ==
    \A n \in DOMAIN box : IsAnswer(box[n]) =>
        /\ AnswersUpTo(box, n) <= Len(queue)
        /\ box[n].id = queue[AnswersUpTo(box, n)].id

\* The requests not answered yet are the rest of the queue.
RequestsFit(box, out, queue) ==
    LET due == AnswersUpTo(box, Len(box))
    IN  /\ Len(queue) = due + Len(out)
        /\ \A k \in DOMAIN out : out[k] = queue[due + k].id

\* Type invariant of the page's state, the connections and the robot's disk.
TypeOK ==
    /\ link \in Link
    /\ wanted \in BOOLEAN
    /\ timers \subseteq Timers
    /\ socket \in Conns \cup {NoConn}
    /\ saves \in Seq([id : Saves, timedOut : BOOLEAN])
    /\ outcome \in [Saves -> {"none", "pending", "kept", "failed"}]
    /\ net \in [Conns -> [ stage : {"free", "opening", "up", "shut", "leaving"},
                           inbox : Seq(Frames), outbox : Seq(Saves) ]]
    /\ bridge \in Bridges
    /\ kept \subseteq Saves

\* The queue of waiting requests stays in step with the answers still to come on the
\* connection in use (answers carry no request number): timeouts, lost connections and
\* reconnections never shift it.
AnswersInOrder ==
    socket # NoConn =>
        /\ AnswersFit(net[socket].inbox, saves)
        /\ net[socket].stage = "up" =>
               RequestsFit(net[socket].inbox, net[socket].outbox, saves)

\* Whenever the learner wants a link and there is none, something will try again: an
\* attempt with a time limit, or the retry timer.
AttemptIsDue == wanted /\ link.phase # "open" => timers \cap {"retry", "connect"} # {}

\* After a disconnect, a refused protocol version or a blocked address nothing connects
\* by itself: no socket, no timer.
QuietWhenUnwanted == ~wanted => socket = NoConn /\ timers \subseteq {"silence"}

\* An open link is open on a connection in use, and a session id the page sends commands
\* under is the one of that connection, not of an earlier one.
SessionIsCurrent ==
    /\ link.phase \in {"connecting", "open"} => socket # NoConn
    /\ link.phase \in {"connecting", "open"} /\ link.session # NoConn => link.session = socket
    /\ link.phase = "open" => link.hello /\ link.problem = ""

\* What robot-link.js keeps true across every interleaving of learner, timers,
\* network and bridge.
LinkSafety ==
    /\ TypeOK
    /\ AnswersInOrder
    /\ AttemptIsDue
    /\ QuietWhenUnwanted
    /\ SessionIsCurrent

\* saveRecordOnRobot as its callers see it.
Promise == INSTANCE SavePromise

\* The queue matched by order, the timeouts and the reconnections implement the promise
\* of one settlement per request, as kept only for a recording on the robot.
KeepsPromise == Promise!PromiseSpec

Disturbed == Learner \/ BridgeChanges \/ \E c \in Conns : Break(c)

\* Every request is settled in the end, whatever the network does; and once the bridge
\* is up for good and the learner leaves the page alone, the link opens, from whatever
\* failed attempts, stale sockets and timers there were.
LinkSettles ==
    /\ \A i \in Saves : outcome[i] = "pending" ~> outcome[i] # "pending"
    /\ (<>[][~Disturbed]_vars /\ <>[](wanted /\ bridge = "up")) => <>[](link.phase = "open")
=============================================================================
