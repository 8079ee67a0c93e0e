---------------------------- MODULE SysfsOutput ----------------------------
(***************************************************************************)
(* questix_pwm_guard/src/sysfs.cpp: the RP1 PWM channel as the kernel shows *)
(* it under /sys/class/pwm, and the writer the guard daemon drives it with. *)
(*                                                                         *)
(* A channel is a record.  polarity, period and enable are Booleans: the   *)
(* attribute has the only value the guard accepts ("normal", 20 ms, "1").  *)
(* duty is the pulse width in microseconds, expected is the writer's own   *)
(* memory of it (expected_us_), pending and committed are the two marker   *)
(* files in the runtime directory.                                         *)
(*                                                                         *)
(* Every sysfs access can fail.  An operator therefore returns the SET of  *)
(* outcomes [ok |-> the C++ return value, h |-> the channel afterwards].    *)
(***************************************************************************)
EXTENDS Integers

VARIABLE
    ioMayFail    \* sysfs reads and writes may fail, for good (FALSE: they never do)

CONSTANTS
    MinUs,       \* 500: the shortest pulse the writer accepts
    MaxUs,       \* the longest pulse the guard core accepts
    Neutral      \* 1000: the ESC's neutral pulse

ASSUME SysfsAssumption ==
    /\ MinUs \in Nat /\ Neutral \in Nat /\ MaxUs \in Nat
    /\ 0 < MinUs /\ MinUs <= Neutral /\ Neutral <= MaxUs

\* The pulses that can be on the pin: none, or one within the limits.
Pulses == {0} \cup MinUs..MaxUs

Channel ==
    [ exported : BOOLEAN, pending : BOOLEAN, committed : BOOLEAN,
      polarity : BOOLEAN, period : BOOLEAN, enable : BOOLEAN,
      duty : Pulses, expected : Pulses ]

\* The attributes that must hold before the guard trusts the channel.
Settled(h) == h.period /\ h.polarity /\ h.enable

\* What check() compares: the attributes and the duty it last wrote.
Matches(h) == Settled(h) /\ h.duty = h.expected

\* The ESC sees a pulse above neutral: the roller turns.
Spinning(h) == h.exported /\ h.polarity /\ h.enable /\ h.duty > Neutral

-----------------------------------------------------------------------------
Failed(h) == IF ioMayFail THEN {[ok |-> FALSE, h |-> h]} ELSE {}

\* put(): a failed write or close may still have changed the attribute.
Put(h, g) == {[ok |-> TRUE, h |-> g]} \cup Failed(h) \cup Failed(g)

Check(h) ==
    IF Matches(h)
    THEN {[ok |-> TRUE, h |-> h]} \cup Failed(h)
    ELSE {[ok |-> FALSE, h |-> h]}

\* Write a duty, remember it as expected, read everything back.
PutDuty(h, us) ==
    UNION { IF p.ok THEN Check([p.h EXCEPT !.expected = us]) ELSE {p} :
            p \in Put(h, [h EXCEPT !.duty = us]) }

WritePulse(h, us) ==
    Failed(h) \cup (IF Settled(h) THEN PutDuty(h, us)
                                  ELSE {[ok |-> FALSE, h |-> h]})

\* Only a channel of normal polarity is driven Low by duty 0; an inverse or
\* unreadable polarity is answered by disabling the channel, which is never
\* reported as a confirmed Low.
Disable(h) == { [ok |-> FALSE, h |-> p.h] : p \in Put(h, [h EXCEPT !.enable = FALSE]) }

EmergencyLow(h) ==
    IF h.polarity
    THEN PutDuty(h, 0) \cup (IF ioMayFail THEN Disable(h) ELSE {})
    ELSE Disable(h)

-----------------------------------------------------------------------------
\* initialize(false) on a channel that nobody has exported.  The stages are
\* persistent: a failure, or a crash, leaves the channel at one of them, and
\* a marker left pending blocks every later start until it is reviewed.
FreshStages(h) ==
    LET s1 == [h  EXCEPT !.pending = TRUE]
        s2 == [s1 EXCEPT !.exported = TRUE, !.period = FALSE, !.enable = FALSE,
                         !.duty = 0, !.expected = 0]
        s3 == [s2 EXCEPT !.period = TRUE]
        s4 == [s3 EXCEPT !.polarity = TRUE]
        s5 == [s4 EXCEPT !.enable = TRUE]
        s6 == [s5 EXCEPT !.committed = TRUE]
        s7 == [s6 EXCEPT !.pending = FALSE]
    IN  <<s1, s2, s3, s4, s5, s6, s7>>

InitializeFresh(h) ==
    IF h.committed \/ h.pending
    THEN {[ok |-> FALSE, h |-> h]}
    ELSE Failed(h) \cup {[ok |-> TRUE, h |-> FreshStages(h)[7]]}
         \cup UNION { Failed(FreshStages(h)[i]) : i \in 1..6 }

\* initialize(false) on an exported channel: it must carry our committed
\* marker and the expected attributes before the first write.
InitializeExisting(h) ==
    IF h.committed /\ Settled(h)
    THEN Failed(h) \cup
         UNION { IF p.ok THEN WritePulse([p.h EXCEPT !.expected = 0], 0) ELSE {p} :
                 p \in Put(h, [h EXCEPT !.duty = 0]) }
    ELSE {[ok |-> FALSE, h |-> h]}

Initialize(h) == IF h.exported THEN InitializeExisting(h) ELSE InitializeFresh(h)

\* Mutant: recovery gives up on a channel that is already exported.
RecoveryGivesUp(h) == {[ok |-> FALSE, h |-> h]}

\* initialize(true), the --recover-low run: owned channels only.
InitializeRecovery(h) ==
    IF h.exported /\ h.committed
    THEN EmergencyLow(h) \cup Failed(h)
    ELSE {[ok |-> FALSE, h |-> h]}
=============================================================================
