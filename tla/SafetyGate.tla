----------------------------- MODULE SafetyGate -----------------------------
(***************************************************************************)
(* The two gates in front of every actuator: the emergency stop (L1) and   *)
(* the motion permission (L2), as the monitors of questix_safety keep them *)
(* and as motor_control_app's actuation_gate.hpp combines them.            *)
(*                                                                         *)
(* A monitor is a record: what the last message said and how old it is. An *)
(* age is capped one unit beyond the limit it is compared with.            *)
(***************************************************************************)
EXTENDS Integers

CONSTANTS
    EstopRequired,      \* require_emergency_stop; FALSE only for a diagnostic run
    EstopTimeout,       \* emergency_stop_timeout_sec; 0 disables the staleness check
    PermissionRequired, \* require_motion_permission; FALSE only for a diagnostic run
    PermissionLease     \* motion_permission_timeout_sec

ASSUME GateAssumption ==
    /\ EstopRequired \in BOOLEAN /\ EstopTimeout \in Nat
    /\ PermissionRequired \in BOOLEAN /\ PermissionLease \in Nat \ {0}

EstopMonitor == [known : BOOLEAN, active : BOOLEAN, age : 0..(EstopTimeout + 1)]
PermissionMonitor == [known : BOOLEAN, allowed : BOOLEAN, age : 0..(PermissionLease + 1)]

NewEstopMonitor == [known |-> FALSE, active |-> TRUE, age |-> 0]
NewPermissionMonitor == [known |-> FALSE, allowed |-> FALSE, age |-> 0]

\* receive() of the two monitors.
HeardEstop(active) == [known |-> TRUE, active |-> active, age |-> 0]
HeardPermission(allowed) == [known |-> TRUE, allowed |-> allowed, age |-> 0]

\* One unit of the steady clock; the age counts from the first message on.
Older(m, limit) == [m EXCEPT !.age = IF m.known /\ @ <= limit THEN @ + 1 ELSE @]

\* questix_safety::evaluateEstop, with the names of actuation_gate's reasons.
EvaluateEstop(e) ==
    CASE ~e.known -> IF EstopRequired THEN "estop_unknown" ELSE "none"
      [] e.known /\ e.active -> "estop_active"
      [] OTHER -> IF EstopRequired /\ EstopTimeout > 0 /\ e.age > EstopTimeout
                  THEN "estop_stale" ELSE "none"

\* questix_safety::evaluatePermission.
EvaluatePermission(p) ==
    CASE ~PermissionRequired -> "none"
      [] PermissionRequired /\ ~p.known -> "permission_unknown"
      [] OTHER -> IF p.age > PermissionLease THEN "permission_stale"
                  ELSE IF p.allowed THEN "none" ELSE "permission_off"

Blocks == { "none", "stop_fault", "estop_unknown", "estop_active", "estop_stale",
            "permission_unknown", "permission_stale", "permission_off" }

\* actuation_gate::evaluate: the strongest reason that applies.
Evaluate(stopFault, e, p) ==
    IF stopFault THEN "stop_fault"
    ELSE IF EvaluateEstop(e) # "none" THEN EvaluateEstop(e) ELSE EvaluatePermission(p)
=============================================================================
