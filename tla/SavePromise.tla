---------------------------- MODULE SavePromise ----------------------------
(***************************************************************************)
(* What saveRecordOnRobot (static/lab/js/live/robot-link.js) promises its  *)
(* callers, with no connection, no queue and no timer in it: a request is  *)
(* settled once, and it is settled as kept only when the robot has kept    *)
(* that very recording.  A request settled as failed promises nothing: the *)
(* robot may keep the recording all the same, before or after.             *)
(***************************************************************************)
CONSTANT Saves      \* requests of one page

VARIABLES
    outcome,   \* how each request stands for its caller
    kept       \* recordings on the robot's disk

promiseVars == <<outcome, kept>>

PromiseInit ==
    /\ outcome = [i \in Saves |-> "none"]
    /\ kept = {}

Ask(i) ==
    /\ outcome[i] = "none"
    /\ outcome' = [outcome EXCEPT ![i] = "pending"]
    /\ UNCHANGED kept

Refuse(i) ==
    /\ outcome[i] = "none"
    /\ outcome' = [outcome EXCEPT ![i] = "failed"]
    /\ UNCHANGED kept

Keep(i) ==
    /\ outcome[i] # "none"
    /\ kept' = kept \cup {i}
    /\ UNCHANGED outcome

Confirm(i) ==
    /\ outcome[i] = "pending" /\ i \in kept
    /\ outcome' = [outcome EXCEPT ![i] = "kept"]
    /\ UNCHANGED kept

\* One event can fail several requests (the connection they were sent on).
Fail ==
    /\ \E gone \in SUBSET {i \in Saves : outcome[i] = "pending"} :
         outcome' = [i \in Saves |-> IF i \in gone THEN "failed" ELSE outcome[i]]
    /\ UNCHANGED kept

PromiseNext ==
    \/ \E i \in Saves : Ask(i) \/ Refuse(i) \/ Keep(i) \/ Confirm(i)
    \/ Fail

PromiseSpec == PromiseInit /\ [][PromiseNext]_promiseVars
=============================================================================
