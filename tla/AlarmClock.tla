----------------------------- MODULE AlarmClock -----------------------------
(***************************************************************************)
(* What the clock task promises about alarms, without its data structures: *)
(* every process has at most one alarm, which counts down with the ticks   *)
(* of the hardware, goes off once, not before its time, and does go off    *)
(* unless it is replaced or cancelled first.                               *)
(***************************************************************************)
EXTENDS Naturals

CONSTANTS
  Alarmed,     \* the processes that use alarms
  MaxDelta     \* the longest interval asked for

\* Mapped from p_alarm = 0: no alarm is set.
Off == MaxDelta + 1

VARIABLES
  left,        \* ticks until the alarm of p is due, or Off
  rung         \* the processes whose alarm went off and who are being told

vars == <<left, rung>>

TypeOK == left \in [Alarmed -> 0 .. Off] /\ rung \subseteq Alarmed

Init == left = [p \in Alarmed |-> Off] /\ rung = {}

Tick ==
  /\ left' = [p \in Alarmed |-> IF left[p] \in 1 .. MaxDelta THEN left[p] - 1 ELSE left[p]]
  /\ UNCHANGED rung

\* Asking for zero ticks turns the alarm off.
Set(p, d) == left' = [left EXCEPT ![p] = IF d = 0 THEN Off ELSE d] /\ UNCHANGED rung

\* All alarms of S are due and go off.
Ring(S) ==
  /\ S # {} /\ \A p \in S : left[p] = 0
  /\ left' = [p \in Alarmed |-> IF p \in S THEN Off ELSE left[p]]
  /\ rung' = rung \cup S

RingsFor(p) == \E S \in SUBSET Alarmed : p \in S /\ Ring(S)

\* The processes of S have been told.
Told(S) == S \subseteq rung /\ rung' = rung \ S /\ UNCHANGED left

\* The process exits, or starts another program.
Cancel(p) == left' = [left EXCEPT ![p] = Off] /\ UNCHANGED rung

\* A child starts with the alarm of its parent.
Inherit(p, c) == left' = [left EXCEPT ![c] = left[p]] /\ UNCHANGED rung

Next ==
  \/ Tick
  \/ \E S \in SUBSET rung : Told(S)
  \/ \E p \in Alarmed : \/ \E d \in 0 .. MaxDelta : Set(p, d)
                        \/ RingsFor(p)
                        \/ Cancel(p)
                        \/ \E c \in Alarmed : Inherit(p, c)

Fairness == WF_vars(Tick) /\ \A p \in Alarmed : WF_vars(RingsFor(p))

Spec == Init /\ [][Next]_vars /\ Fairness
=============================================================================
