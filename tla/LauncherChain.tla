---------------------------- MODULE LauncherChain ----------------------------
(***************************************************************************)
(* The launcher arbiter in series with shot_component's reader of          *)
(* /launcher_command (commandCallback and launcher_events.hpp).  The topic *)
(* keeps one message: shot_component takes the last one when it comes to    *)
(* it, the ones before are overwritten.  Either node may be restarted.     *)
(*                                                                         *)
(* What shot_component's lifecycle, its gates, a shot that is still moving *)
(* or its own interval refuse is one choice here, made at each message.    *)
(***************************************************************************)
EXTENDS LauncherFlow

VARIABLES
    reader,  \* launcher_events_
    mech,    \* what the last message that was taken made the mechanism do, and whose it was
    counted, \* history: age of the oldest shot counted and not yet taken, or Nothing
    turned,  \* history: the tilt steps counted and not yet taken
    reborn   \* history: "silent", a new arbiter has sent nothing yet; "spoke", it has,
             \* and nothing was taken since; else "no"

chainVars == <<sel, joyIn, labIn, out, fireAge, spin, topic, spun, rest, asked,
               reader, mech, counted, turned, reborn>>

Nothing == -1

\* Before the first message.
Idle == [source |-> "nobody", shot |-> FALSE, steps |-> 0]

ChainInit ==
    /\ Init
    /\ reader = NewStream /\ mech = Idle
    /\ counted = Nothing /\ turned = 0 /\ reborn = "no"

\* A callback of the arbiter.
ArbiterStep ==
    /\ \/ \E m \in JoyCommands : JoyCallback(m)
       \/ \E permitted \in BOOLEAN :
             \/ \E m \in LabCommands : LabCallback(m, permitted)
             \/ LabBroken(permitted)
             \/ TickCallback(permitted)
    /\ counted' = IF out'.seq # out.seq /\ counted = Nothing THEN 0 ELSE counted
    /\ turned' = turned + out'.steps - out.steps
    /\ reborn' = IF reborn = "silent" /\ topic' # topic THEN "spoke" ELSE reborn
    /\ UNCHANGED <<reader, mech>>

\* What the message does, when a shot and when a tilt are let through.
Moved(shoots, tilts) ==
    [ source |-> topic.source,
      shot |-> shoots /\ Fires(reader, topic.cmd),
      steps |-> IF tilts THEN StepsOf(reader, topic.cmd) ELSE 0 ]

\* The counters advance also while the launcher may not move.
Follow(shoots, tilts) == Read(topic.cmd)

\* The history starts anew.
Answered ==
    /\ counted' = Nothing /\ turned' = 0
    /\ reborn' = IF reborn = "silent" THEN reborn ELSE "no"

\* commandCallback of shot_component.
Take ==
    /\ topic.fresh
    /\ topic' = [topic EXCEPT !.fresh = FALSE]
    /\ \E shoots, tilts \in BOOLEAN :
          mech' = Moved(shoots, tilts) /\ reader' = Follow(shoots, tilts)
    /\ Answered
    /\ UNCHANGED <<sel, joyIn, labIn, out, fireAge, spin, spun, rest, asked>>

ChainElapse ==
    /\ Elapse
    /\ reader' = OlderStream(reader)
    /\ counted' = IF counted = Nothing THEN counted ELSE Age(counted, InputTimeout + 1)
    /\ UNCHANGED <<mech, turned, reborn>>

\* A new arbiter: its counters start from 0; the last message stays in the
\* reader's queue.
ArbiterRestarts ==
    /\ sel' = NewSelector
    /\ joyIn' = NewStream /\ labIn' = NewStream
    /\ out' = [roller |-> 0, tilt |-> NoTilt, steps |-> 0, seq |-> 0]
    /\ fireAge' = FireInterval /\ spin' = NotSpinning
    /\ rest' = FireInterval
    /\ reborn' = "silent" /\ turned' = 0
    /\ asked' = {}
    /\ UNCHANGED <<topic, spun, reader, mech, counted>>

\* A new shot_component, whose queue is empty, or one that found a second
\* publisher gone (checkCommandPublishers), which keeps its queue.
ReaderRestarts ==
    /\ reader' = NewStream /\ mech' = Idle
    /\ \E kept \in BOOLEAN : topic' = [topic EXCEPT !.fresh = kept /\ @]
    /\ Answered
    /\ UNCHANGED <<sel, joyIn, labIn, out, fireAge, spin, spun, rest, asked>>

ChainNext ==
    \/ ArbiterStep \/ Take \/ ChainElapse \/ ArbiterRestarts \/ ReaderRestarts

ChainSpec == ChainInit /\ [][ChainNext]_chainVars

-----------------------------------------------------------------------------
Takes == topic.fresh /\ ~topic'.fresh

ChainTypeOK ==
    /\ TypeOK
    /\ reader.age \in 0..(InputTimeout + 1) /\ reader.seq \in 0..MaxShots
    /\ counted \in -1..(InputTimeout + 1)
    /\ turned \in -(2 * MaxShift)..(2 * MaxShift)
    /\ reborn \in {"no", "silent", "spoke"}

(* Every disc that is fired was asked for, once, and a moment ago: when    *)
(* shot_component fires, the arbiter has counted a shot that no message     *)
(* taken before carried, and the oldest such shot is not older than         *)
(* input_timeout_sec, whatever was overwritten, delayed or restarted.      *)
ShotWasJustCounted == Takes /\ mech'.shot => counted \in 0..InputTimeout

(* The tilt moves by exactly the steps the arbiter counted since the last  *)
(* message was taken, if the same arbiter counted them.                    *)
StepsWereCounted ==
    Takes /\ mech'.steps # 0 /\ reborn = "no" => mech'.steps = turned

(* The launcher obeys whoever the arbiter's selector names, on the message  *)
(* that is out, once an arbiter has spoken; the last message of one that    *)
(* died is shot_component's own timeout's business.                        *)
LauncherSafety ==
    /\ ChainTypeOK
    /\ reborn # "silent" => LabRollsOnlySelected /\ RunTiltIsOwn /\ ControllerStands

(* No disc is fired and no roller is started that was not asked for a       *)
(* moment ago, by whoever has the launcher, with the roller ready.         *)
LauncherSteps ==
    [][LabShotIsReady /\ RunStartsAtRest /\ ShotWasJustCounted /\ StepsWereCounted]_chainVars
=============================================================================
