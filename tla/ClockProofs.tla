---------------------------- MODULE ClockProofs -----------------------------
(***************************************************************************)
(* Proofs about Clock: what the clock task knows about the alarms, the     *)
(* quantum and the run queues holds for every set of processes and every   *)
(* bound, and the clock task implements the safety part of AlarmClock.     *)
(***************************************************************************)
EXTENDS Clock, WellFoundedInduction, TLAPS

-----------------------------------------------------------------------------
(***************************************************************************)
(* The inductive invariant.                                                *)
(***************************************************************************)
\* Steps at which a tick may have made an alarm due beyond those that found the
\* clock task at work: the tick that woke it.
Serving == {"hardint", "tick", "ring"}
Late(S) == -races - (IF pc \in S THEN 1 ELSE 0)

\* The counter is positive but between its end and the new quantum; ticks in
\* between find it not 1 and count on.
Quantum ==
  /\ pc # "expire" => sched_ticks \in 1 .. SCHED_RATE
  /\ pc = "expire" => sched_ticks \in (-races) .. 0
  /\ pc = "store" => loaded \in 1 .. SCHED_RATE

\* Alarms are overdue by no more than the ticks that found the task at work.
Alarms ==
  /\ \A p \in Alarmed : p_alarm[p] # Off =>
       p_alarm[p] <= MaxDelta /\ MaxDelta >= 1 /\ p_alarm[p] - pending_ticks >= Late(Serving)
  /\ next_alarm # LONG_MAX =>
       /\ next_alarm <= MaxDelta /\ MaxDelta >= 1
       /\ next_alarm - pending_ticks >= Late({"hardint", "tick"})
  /\ ~BetweenTasks => pending_ticks <= races
  /\ NextAlarmEarly

\* Whose request the clock task holds: only a task can ask while it is at work.
Requests ==
  /\ pc \in {"request", "reset", "scan"} => req # NoReq
  /\ pc \notin {"request", "reset", "scan"} /\ req # NoReq => req.p \in Watched

\* syn_al_alive is off while SYN_ALRM is told to run; until it does, the one
\* server has no alarm and cannot ask for one.
Syn ==
  /\ syn \in Sync => syn_al_alive
  /\ syn = "ready" /\ ~syn_al_alive => \A s \in Sync : p_alarm[s] = Off /\ req.p # s

\* One of those who share the slot has its image there, and the shadows that are
\* ready are queued once.
Queues ==
  /\ Sharers # {} => \E o \in Sharers : shadow = Sharers \ {o}
  /\ Sharers = {} => shadow = {}
  /\ \A i \in DOMAIN SHADOW_Q : SHADOW_Q[i] \in shadow
  /\ \A i, j \in DOMAIN SHADOW_Q : SHADOW_Q[i] = SHADOW_Q[j] => i = j

\* The ghost holds the alarms that have just gone off.
JustRung == pc # "quantum" => rung = {}

IInv == TypeOK /\ Quantum /\ Alarms /\ Requests /\ Syn /\ Queues /\ JustRung

-----------------------------------------------------------------------------
(***************************************************************************)
(* Operators                                                               *)
(***************************************************************************)
\* The smaller of two.
LEMMA MinOfTwo ==
  ASSUME NEW x \in Int, NEW y \in Int
  PROVE  Min({x, y}) = IF x <= y THEN x ELSE y
BY DEF Min

\* The larger of two.
LEMMA MaxOfTwo ==
  ASSUME NEW x \in Int, NEW y \in Int
  PROVE  Max({x, y}) = IF x >= y THEN x ELSE y
BY DEF Max

\* The bounds of this module are numbers.
LEMMA Bounds ==
  /\ MaxPending \in Nat /\ LONG_MAX \in Nat /\ Off = LONG_MAX /\ Overdue \in Nat
  /\ LONG_MAX = MaxPending + 1 /\ MaxPending = MaxDelta + MaxRaces
  /\ Overdue = MaxPending + MaxRaces
  /\ MaxDelta \in Nat /\ MaxRaces \in Nat /\ SCHED_RATE \in Nat \ {0} /\ FLIPWAIT \in Nat
  /\ MaxEvents \in Nat
BY ClockAssumption DEF MaxPending, LONG_MAX, Off, Overdue

\* A non-empty set of numbers has a least one.
LEMMA LeastOfNat ==
  ASSUME NEW S \in SUBSET Nat, S # {}
  PROVE  \E x \in S : \A y \in S : x <= y
<1> DEFINE R == OpToRel(<, Nat)
<1>1. IsWellFoundedOn(R, Nat) BY NatLessThanWellFounded
<1>2. \A x, y \in Nat : y < x => <<y, x>> \in R BY DEF OpToRel
<1> HIDE DEF R
<1>3. PICK x \in S : \A y \in S : ~(<<y, x>> \in R) BY <1>1, WFMin
<1>4. ASSUME NEW y \in S PROVE x <= y
  <2>1. ~(y < x) BY <1>2, <1>3
  <2> QED BY <2>1
<1> QED BY <1>4

\* A set of integers above a bound has a least element.
LEMMA LeastOfBounded ==
  ASSUME NEW S \in SUBSET Int, NEW b \in Nat, \A x \in S : x >= -b, NEW e \in S
  PROVE  Min(S) \in S /\ \A x \in S : Min(S) <= x
<1> DEFINE T == {n \in Nat : n - b \in S}
<1>1. e + b \in T OBVIOUS
<1>2. T # {} /\ T \in SUBSET Nat BY <1>1
<1>3. PICK n \in T : \A k \in T : n <= k BY <1>2, LeastOfNat
<1>4. n - b \in S BY <1>3
<1>5. ASSUME NEW x \in S PROVE n - b <= x
  <2>1. x + b \in T OBVIOUS
  <2> QED BY <2>1, <1>3
<1>6. \E m \in S : \A x \in S : m <= x BY <1>4, <1>5
<1> QED BY <1>6 DEF Min

\* The scan for the next alarm finds the earliest one.
LEMMA EarliestAlarm ==
  ASSUME NEW f \in [Alarmed -> (-Overdue) .. Off]
  PROVE  /\ Earliest(f) \in (-Overdue) .. LONG_MAX
         /\ \A p \in Alarmed : Earliest(f) <= f[p]
         /\ Earliest(f) # LONG_MAX => \E p \in Alarmed : Earliest(f) = f[p]
<1> DEFINE S == {f[p] : p \in Alarmed}
<1>1. CASE Alarmed = {} BY <1>1, Bounds DEF Earliest
<1>2. CASE Alarmed # {}
  <2>1. PICK a \in Alarmed : TRUE BY <1>2
  <2>2. S \in SUBSET Int /\ (\A x \in S : x >= -Overdue) /\ f[a] \in S /\ S \in SUBSET ((-Overdue) .. Off)
    BY Bounds, <2>1
  <2>3. Earliest(f) = Min(S) BY <1>2 DEF Earliest
  <2>4. Overdue \in Nat BY Bounds
  <2>5. Min(S) \in S /\ \A x \in S : Min(S) <= x BY <2>2, <2>4, LeastOfBounded
  <2> QED BY <2>2, <2>3, <2>5, Bounds
<1> QED BY <1>1, <1>2

\* Taking a process off a queue leaves a queue.
LEMMA UnlinkType ==
  ASSUME NEW q \in Seq(Users), NEW u
  PROVE  Unlink(q, u) \in Seq(Users)
<1> DEFINE i == CHOOSE i \in DOMAIN q : q[i] = u
<1>1. CASE Contains(q, u)
  <2>1. i \in DOMAIN q BY <1>1 DEF Contains
  <2>2. i \in 1 .. Len(q) /\ Len(q) \in Nat BY <2>1
  <2> HIDE DEF i
  <2>3. SubSeq(q, 1, i - 1) \in Seq(Users) /\ SubSeq(q, i + 1, Len(q)) \in Seq(Users) BY <2>2
  <2>4. RemoveAt(q, i) \in Seq(Users) BY <2>3 DEF RemoveAt
  <2> QED BY <1>1, <2>4 DEF Unlink, i
<1>2. CASE ~Contains(q, u) BY <1>2 DEF Unlink
<1> QED BY <1>1, <1>2

\* Removing the head, or adding a process that is not there, keeps a queue free
\* of duplicates.
LEMMA QueueEnds ==
  ASSUME NEW q \in Seq(Users), \A i, j \in DOMAIN q : q[i] = q[j] => i = j
  PROVE  /\ q # << >> => /\ Head(q) \in Users /\ Tail(q) \in Seq(Users)
                         /\ \E i \in DOMAIN q : Head(q) = q[i]
                         /\ \A i, j \in DOMAIN Tail(q) : Tail(q)[i] = Tail(q)[j] => i = j
                         /\ \A i \in DOMAIN Tail(q) :
                              Tail(q)[i] # Head(q) /\ \E j \in DOMAIN q : Tail(q)[i] = q[j]
         /\ \A u \in Users : (\A i \in DOMAIN q : q[i] # u) =>
              LET r == Append(q, u)
              IN  /\ r \in Seq(Users)
                  /\ \A i, j \in DOMAIN r : r[i] = r[j] => i = j
                  /\ \A i \in DOMAIN r : r[i] = u \/ \E j \in DOMAIN q : r[i] = q[j]
<1>1. ASSUME q # << >>
      PROVE  /\ Head(q) \in Users /\ Tail(q) \in Seq(Users)
             /\ \E i \in DOMAIN q : Head(q) = q[i]
             /\ \A i, j \in DOMAIN Tail(q) : Tail(q)[i] = Tail(q)[j] => i = j
             /\ \A i \in DOMAIN Tail(q) :
                  Tail(q)[i] # Head(q) /\ \E j \in DOMAIN q : Tail(q)[i] = q[j]
  <2>1. /\ Head(q) = q[1] /\ Tail(q) \in Seq(Users) /\ 1 \in DOMAIN q /\ DOMAIN q = 1 .. Len(q)
        /\ Len(q) \in Nat /\ DOMAIN Tail(q) = 1 .. Len(q) - 1
        /\ \A i \in 1 .. Len(q) - 1 : Tail(q)[i] = q[i + 1] /\ i + 1 \in DOMAIN q
    BY <1>1
  <2>2. Head(q) \in Users BY <2>1
  <2>3. ASSUME NEW i \in DOMAIN Tail(q) PROVE i \in 1 .. Len(q) - 1 /\ i + 1 # 1
    BY <2>1
  <2>4. ASSUME NEW i \in DOMAIN Tail(q), NEW j \in DOMAIN Tail(q), Tail(q)[i] = Tail(q)[j] PROVE i = j
    <3>1. i + 1 = j + 1 BY <2>1, <2>3, <2>4
    <3> QED BY <3>1, <2>1
  <2>5. ASSUME NEW i \in DOMAIN Tail(q)
        PROVE  Tail(q)[i] # Head(q) /\ \E j \in DOMAIN q : Tail(q)[i] = q[j]
    BY <2>1, <2>3
  <2> QED BY <2>1, <2>2, <2>4, <2>5
<1>2. ASSUME NEW u \in Users, \A i \in DOMAIN q : q[i] # u
      PROVE  LET r == Append(q, u)
             IN  /\ r \in Seq(Users)
                 /\ \A i, j \in DOMAIN r : r[i] = r[j] => i = j
                 /\ \A i \in DOMAIN r : r[i] = u \/ \E j \in DOMAIN q : r[i] = q[j]
  <2> DEFINE r == Append(q, u)
  <2>1. /\ r \in Seq(Users) /\ DOMAIN r = 1 .. Len(q) + 1 /\ DOMAIN q = 1 .. Len(q) /\ Len(q) \in Nat
        /\ r[Len(q) + 1] = u /\ \A i \in 1 .. Len(q) : r[i] = q[i]
    OBVIOUS
  <2> HIDE DEF r
  <2>2. \A i, j \in DOMAIN r : r[i] = r[j] => i = j BY <2>1, <1>2
  <2>3. \A i \in DOMAIN r : r[i] = u \/ \E j \in DOMAIN q : r[i] = q[j] BY <2>1
  <2> QED BY <2>1, <2>2, <2>3 DEF r
<1> QED BY <1>1, <1>2

-----------------------------------------------------------------------------
(***************************************************************************)
(* The steps                                                               *)
(***************************************************************************)
\* A tick keeps the alarms: it makes one due only if it wakes the clock task, or
\* finds it at work, and counts as a race then.
LEMMA HandlerStep == ASSUME IInv, clock_handler PROVE TypeOK' /\ Alarms'
<1> USE Bounds
<1>1. /\ pending_ticks \in 0 .. MaxPending /\ races \in 0 .. MaxRaces
      /\ next_alarm \in (-Overdue) .. LONG_MAX
      /\ p_alarm \in [Alarmed -> (-Overdue) .. Off]
      /\ pc \in Pcs
  BY DEF IInv, TypeOK
<1>2. /\ pending_ticks' \in 0 .. MaxPending
      /\ pending_ticks' = IF pending_ticks < MaxPending THEN pending_ticks + 1 ELSE pending_ticks
  BY <1>1, MinOfTwo DEF clock_handler
<1>3. /\ races' = IF pc = "receive" THEN races ELSE races + 1
      /\ races' \in 0 .. MaxRaces
      /\ UNCHANGED <<p_alarm, next_alarm>>
  BY <1>1 DEF clock_handler
<1>4. \/ pc' = "hardint" /\ pc = "receive"
      \/ pc' = pc /\ pc # "receive"
      \/ pc' = pc /\ pc = "receive" /\ next_alarm > pending_ticks'
  BY <1>1, <1>2 DEF clock_handler, CallTask, interrupt
<1>6. TypeOK'
  <2>1. sched_ticks' \in (-MaxPending) .. SCHED_RATE
    <3>1. sched_ticks \in 1 .. SCHED_RATE \/ (pc = "expire" /\ sched_ticks \in (-races) .. 0)
      BY DEF IInv, Quantum
    <3>2. \/ sched_ticks' \in {sched_ticks, SCHED_RATE}
          \/ sched_ticks # 1 /\ sched_ticks' = sched_ticks - 1
      BY DEF clock_handler
    <3>3. CASE pc = "expire"
      BY <1>1, <1>3, <3>1, <3>2, <3>3
    <3>4. CASE pc # "expire" BY <3>1, <3>2, <3>4
    <3> QED BY <3>3, <3>4
  <2>2. prev_ptr' \in Users \cup {IDLE} /\ pc' \in Pcs /\ int_blocked' \in BOOLEAN
    BY <1>1, <1>4 DEF clock_handler, IInv, TypeOK, interrupt, Pcs
  <2> QED BY <1>2, <1>3, <2>1, <2>2 DEF IInv, TypeOK, clock_handler, queueVars, synVars, userVars
<1>7. /\ \A p \in Alarmed : p_alarm[p] # Off => next_alarm <= p_alarm[p] \/ pc \in Computing
      /\ \A p \in Alarmed : p_alarm[p] # Off =>
           p_alarm[p] <= MaxDelta /\ MaxDelta >= 1 /\ p_alarm[p] - pending_ticks >= Late(Serving)
      /\ next_alarm # LONG_MAX =>
           /\ next_alarm <= MaxDelta /\ MaxDelta >= 1
           /\ next_alarm - pending_ticks >= Late({"hardint", "tick"})
      /\ ~BetweenTasks => pending_ticks <= races
  BY DEF IInv, Alarms, NextAlarmEarly
<1>8. pc = "receive" /\ ~(pending_ticks < MaxPending) => Quiet BY DEF clock_handler
<1>9. NextAlarmEarly' BY <1>3, <1>4, <1>7 DEF NextAlarmEarly, Computing
<1>10. (~BetweenTasks => pending_ticks <= races)'
  BY <1>1, <1>2, <1>3, <1>4, <1>7 DEF BetweenTasks
<1>11. ASSUME NEW p \in Alarmed, p_alarm'[p] # Off
       PROVE  p_alarm'[p] <= MaxDelta /\ MaxDelta >= 1 /\ p_alarm'[p] - pending_ticks' >= Late(Serving)'
  <2>1. p_alarm[p] \in Int /\ p_alarm'[p] = p_alarm[p] /\ ~Quiet BY <1>1, <1>3, <1>11 DEF Quiet
  <2>2. p_alarm[p] - pending_ticks >= Late(Serving) /\ p_alarm[p] <= MaxDelta /\ MaxDelta >= 1
    BY <1>7, <1>11, <2>1
  <2>3. CASE pc = "receive"
    BY <1>1, <1>2, <1>3, <1>4, <1>7, <1>8, <1>11, <2>1, <2>2, <2>3 DEF Late, Serving, Computing
  <2>4. CASE pc # "receive"
    BY <1>1, <1>2, <1>3, <1>4, <2>1, <2>2, <2>4 DEF Late, Serving
  <2> QED BY <2>3, <2>4
<1>12. ASSUME next_alarm' # LONG_MAX
       PROVE  /\ next_alarm' <= MaxDelta /\ MaxDelta >= 1
              /\ next_alarm' - pending_ticks' >= Late({"hardint", "tick"})'
  <2>1. next_alarm \in Int /\ next_alarm' = next_alarm /\ ~Quiet BY <1>1, <1>3, <1>12 DEF Quiet
  <2>2. next_alarm - pending_ticks >= Late({"hardint", "tick"}) /\ next_alarm <= MaxDelta /\ MaxDelta >= 1
    BY <1>7, <1>12, <2>1
  <2>3. CASE pc = "receive"
    BY <1>1, <1>2, <1>3, <1>4, <1>8, <2>1, <2>2, <2>3 DEF Late
  <2>4. CASE pc # "receive"
    BY <1>1, <1>2, <1>3, <1>4, <2>1, <2>2, <2>4 DEF Late
  <2> QED BY <2>3, <2>4
<1> QED BY <1>6, <1>9, <1>10, <1>11, <1>12 DEF Alarms

\* What is known of the alarms when the clock task computes next_alarm.
LEMMA NextComputed ==
  ASSUME NEW f \in [Alarmed -> (-Overdue) .. Off], NEW low \in Int, NEW n \in Nat,
         \A p \in Alarmed : f[p] # Off => f[p] <= MaxDelta /\ MaxDelta >= 1 /\ f[p] - n >= low
  PROVE  /\ Earliest(f) \in (-Overdue) .. LONG_MAX
         /\ Earliest(f) # LONG_MAX =>
              Earliest(f) <= MaxDelta /\ MaxDelta >= 1 /\ Earliest(f) - n >= low
         /\ \A p \in Alarmed : f[p] # Off => Earliest(f) <= f[p]
<1>1. /\ Earliest(f) \in (-Overdue) .. LONG_MAX
      /\ \A p \in Alarmed : Earliest(f) <= f[p]
      /\ Earliest(f) # LONG_MAX => \E p \in Alarmed : Earliest(f) = f[p]
  BY EarliestAlarm
<1> QED BY <1>1, Bounds

\* The next process is picked from a queue of users.
LEMMA BilledType ==
  ASSUME NEW q \in Seq(Users) PROVE Billed(q) \in Users \cup {IDLE}
BY DEF Billed

\* The end of common_setalarm(): next_alarm is right again.
LEMMA ScanStep == ASSUME IInv, common_setalarm PROVE TypeOK' /\ Alarms'
<1> USE Bounds
<1>1. /\ p_alarm \in [Alarmed -> (-Overdue) .. Off] /\ pending_ticks \in Nat /\ races \in Nat
      /\ pc = "scan" /\ pending_ticks <= races
      /\ \A p \in Alarmed : p_alarm[p] # Off =>
           p_alarm[p] <= MaxDelta /\ MaxDelta >= 1 /\ p_alarm[p] - pending_ticks >= -races
  BY DEF IInv, TypeOK, Alarms, common_setalarm, BetweenTasks, Late, Serving
<1>2. /\ UNCHANGED <<p_alarm, pending_ticks, races>> /\ next_alarm' = Earliest(p_alarm)
      /\ pc' \in {"hardint", "receive"}
  BY DEF common_setalarm, Receive
<1>3. /\ next_alarm' \in (-Overdue) .. LONG_MAX
      /\ next_alarm' # LONG_MAX =>
           next_alarm' <= MaxDelta /\ MaxDelta >= 1 /\ next_alarm' - pending_ticks >= -races
      /\ \A p \in Alarmed : p_alarm[p] # Off => next_alarm' <= p_alarm[p]
  BY <1>1, <1>2, NextComputed
<1>4. Alarms'
  BY <1>1, <1>2, <1>3 DEF Alarms, NextAlarmEarly, BetweenTasks, Late, Serving
<1>5. bill_ptr' \in Users \cup {IDLE} /\ int_blocked' \in BOOLEAN
  BY BilledType DEF IInv, TypeOK, common_setalarm, Receive, pick_proc
<1>6. TypeOK'
  BY <1>2, <1>3, <1>5
     DEF IInv, TypeOK, common_setalarm, queueVars, quantumVars, synVars, userVars, Pcs
<1> QED BY <1>4, <1>6

\* do_clocktick() after its scan: what was due is off, what stays lies ahead.
LEMMA RingStep == ASSUME IInv, RingAlarms PROVE TypeOK' /\ Alarms'
<1> USE Bounds
<1>1. /\ p_alarm \in [Alarmed -> (-Overdue) .. Off] /\ pending_ticks \in Nat /\ races \in Nat
      /\ pc = "ring" /\ pending_ticks <= races
      /\ \A p \in Alarmed : p_alarm[p] # Off => p_alarm[p] <= MaxDelta /\ MaxDelta >= 1
  BY DEF IInv, TypeOK, Alarms, RingAlarms, BetweenTasks
<1>2. /\ p_alarm' = [p \in Alarmed |-> IF p \in Due THEN Off ELSE p_alarm[p]]
      /\ next_alarm' = Earliest(p_alarm') /\ UNCHANGED <<pending_ticks, races>>
      /\ pc' = "quantum"
  BY DEF RingAlarms
<1>3. /\ p_alarm' \in [Alarmed -> (-Overdue) .. Off]
      /\ \A p \in Alarmed : p_alarm'[p] # Off =>
           p_alarm'[p] <= MaxDelta /\ MaxDelta >= 1 /\ p_alarm'[p] - pending_ticks >= -races
  <2>1. p_alarm' \in [Alarmed -> (-Overdue) .. Off] BY <1>1, <1>2
  <2>2. ASSUME NEW p \in Alarmed, p_alarm'[p] # Off
        PROVE  p_alarm'[p] <= MaxDelta /\ MaxDelta >= 1 /\ p_alarm'[p] - pending_ticks >= -races
    <3>1. p \notin Due /\ p_alarm'[p] = p_alarm[p] /\ p_alarm[p] \in Int BY <1>1, <1>2, <2>2
    <3>2. p_alarm[p] >= 1 BY <3>1 DEF Due
    <3> QED BY <1>1, <2>2, <3>1, <3>2
  <2> QED BY <2>1, <2>2
<1>4. /\ next_alarm' \in (-Overdue) .. LONG_MAX
      /\ next_alarm' # LONG_MAX =>
           next_alarm' <= MaxDelta /\ MaxDelta >= 1 /\ next_alarm' - pending_ticks >= -races
      /\ \A p \in Alarmed : p_alarm'[p] # Off => next_alarm' <= p_alarm'[p]
  <2> DEFINE f == p_alarm'
             low == -races
  <2>1. /\ f \in [Alarmed -> (-Overdue) .. Off] /\ low \in Int /\ pending_ticks \in Nat
        /\ \A p \in Alarmed : f[p] # Off =>
             f[p] <= MaxDelta /\ MaxDelta >= 1 /\ f[p] - pending_ticks >= low
    BY <1>1, <1>3
  <2> HIDE DEF f, low
  <2>2. /\ Earliest(f) \in (-Overdue) .. LONG_MAX
        /\ Earliest(f) # LONG_MAX =>
             Earliest(f) <= MaxDelta /\ MaxDelta >= 1 /\ Earliest(f) - pending_ticks >= low
        /\ \A p \in Alarmed : f[p] # Off => Earliest(f) <= f[p]
    BY <2>1, NextComputed
  <2> QED BY <1>2, <2>2 DEF f, low
<1>5. Alarms'
  BY <1>1, <1>2, <1>3, <1>4 DEF Alarms, NextAlarmEarly, BetweenTasks, Late, Serving
<1>6. rung' \subseteq Alarmed /\ syn' \in {"ready", "receive"} \cup Sync /\ syn_table' \subseteq Sync
  BY DEF IInv, TypeOK, RingAlarms, cause_alarm, Due
<1>7. TypeOK'
  BY <1>2, <1>3, <1>4, <1>6
     DEF IInv, TypeOK, RingAlarms, cause_alarm, queueVars, quantumVars, userVars, Pcs
<1> QED BY <1>5, <1>7

\* The exchange of images at the end of do_clocktick() keeps one owner in the
\* slot and the shadows queued once.
LEMMA ExchangeQueues ==
  ASSUME IInv, SHADOW_Q # << >>, unshadow
  PROVE  /\ Queues' /\ USER_Q' \in Seq(Users) /\ SHADOW_Q' \in Seq(Users)
         /\ shadow' \subseteq Users /\ flipwait' \in 0 .. FLIPWAIT
<1> DEFINE p == Head(SHADOW_Q)
           q == Owner
<1>0. /\ USER_Q \in Seq(Users) /\ SHADOW_Q \in Seq(Users) /\ shadow \subseteq Users
      /\ flipwait \in 0 .. FLIPWAIT /\ Queues /\ Sharers \subseteq Users /\ FLIPWAIT \in Nat
  BY ProcsAssumption, Bounds DEF IInv, TypeOK
<1>1. /\ p \in Users /\ Tail(SHADOW_Q) \in Seq(Users) /\ p \in shadow
      /\ \A i, j \in DOMAIN Tail(SHADOW_Q) : Tail(SHADOW_Q)[i] = Tail(SHADOW_Q)[j] => i = j
      /\ \A i \in DOMAIN Tail(SHADOW_Q) : Tail(SHADOW_Q)[i] # p /\ Tail(SHADOW_Q)[i] \in shadow
  BY <1>0, QueueEnds DEF Queues
<1>2. q \in Sharers /\ q \notin shadow /\ shadow = Sharers \ {q}
  <2>1. PICK o \in Sharers : shadow = Sharers \ {o} BY <1>0, <1>1 DEF Queues
  <2> QED BY <2>1 DEF Owner
<1> DEFINE T == Tail(SHADOW_Q)
<1>3. /\ Append(T, q) \in Seq(Users)
      /\ \A i, j \in DOMAIN Append(T, q) : Append(T, q)[i] = Append(T, q)[j] => i = j
      /\ \A i \in DOMAIN Append(T, q) : Append(T, q)[i] = q \/ \E j \in DOMAIN T : Append(T, q)[i] = T[j]
  <2>1. q \in Users /\ \A i \in DOMAIN T : T[i] # q BY <1>0, <1>1, <1>2
  <2> HIDE DEF T, q
  <2>2. T \in Seq(Users) /\ \A i, j \in DOMAIN T : T[i] = T[j] => i = j BY <1>1 DEF T
  <2> QED BY <2>1, <2>2, QueueEnds
<1>4. CASE flipwait > 0 /\ flipwait' = flipwait - 1 /\ UNCHANGED <<USER_Q, SHADOW_Q, shadow>>
  BY <1>0, <1>4 DEF Queues
<1>5. CASE flipwait = 0 /\ Pinned(p, q) /\ UNCHANGED queueVars
  BY <1>0, <1>5 DEF Queues, queueVars
<1>6. CASE /\ flipwait = 0 /\ ~Pinned(p, q)
           /\ flipwait' = FLIPWAIT
           /\ shadow' = (shadow \ {p}) \cup {q}
           /\ SHADOW_Q' = IF Contains(USER_Q, q) THEN Displaced(q) ELSE Tail(SHADOW_Q)
           /\ USER_Q' = <<p>> \o Unlink(USER_Q, q)
  <2>1. shadow' = Sharers \ {p} /\ p \in Sharers BY <1>1, <1>2, <1>6
  <2>2. USER_Q' \in Seq(Users) /\ flipwait' \in 0 .. FLIPWAIT
    <3>1. Unlink(USER_Q, q) \in Seq(Users) BY <1>0, UnlinkType
    <3> QED BY <1>0, <1>1, <1>6, <3>1
  <2>3. \/ SHADOW_Q' = T
        \/ SHADOW_Q' = Append(T, q)
    BY <1>6 DEF Displaced
  <2>4. /\ SHADOW_Q' \in Seq(Users)
        /\ \A i \in DOMAIN SHADOW_Q' : SHADOW_Q'[i] \in shadow'
        /\ \A i, j \in DOMAIN SHADOW_Q' : SHADOW_Q'[i] = SHADOW_Q'[j] => i = j
    <3>1. shadow' = (shadow \ {p}) \cup {q} BY <1>6
    <3>2. CASE SHADOW_Q' = T
      <4> HIDE DEF p, q
      <4> QED BY <1>1, <3>1, <3>2
    <3>3. CASE SHADOW_Q' = Append(T, q)
      <4>1. \A j \in DOMAIN T : T[j] \in shadow \ {p} BY <1>1
      <4> HIDE DEF p, q, T
      <4> QED BY <1>3, <3>1, <3>3, <4>1
    <3> QED BY <2>3, <3>2, <3>3
  <2> QED BY <1>0, <2>1, <2>2, <2>4 DEF Queues
<1> QED BY <1>4, <1>5, <1>6 DEF unshadow

\* The end of do_clocktick().
LEMMA EndStep == ASSUME IInv, TickEnd PROVE TypeOK' /\ Queues'
<1>1. /\ Queues' /\ USER_Q' \in Seq(Users) /\ SHADOW_Q' \in Seq(Users)
      /\ shadow' \subseteq Users /\ flipwait' \in 0 .. FLIPWAIT
  <2>1. CASE SHADOW_Q # << >> BY <2>1, ExchangeQueues DEF TickEnd
  <2>2. CASE SHADOW_Q = << >> BY <2>2 DEF TickEnd, queueVars, IInv, TypeOK, Queues
  <2> QED BY <2>1, <2>2
<1>2. bill_ptr' \in Users \cup {IDLE} /\ int_blocked' \in BOOLEAN /\ pc' \in Pcs
  BY <1>1, BilledType DEF IInv, TypeOK, TickEnd, Receive, pick_proc, Pcs
<1> QED BY <1>1, <1>2 DEF IInv, TypeOK, TickEnd, alarmVars, quantumVars, synVars, userVars

\* A process that wakes is queued once.
LEMMA WakeStep == ASSUME IInv, NEW u \in Users, Wake(u) PROVE TypeOK' /\ Queues'
<1>1. USER_Q \in Seq(Users) /\ SHADOW_Q \in Seq(Users) BY DEF IInv, TypeOK
<1>2. CASE u \in shadow
  <2>1. SHADOW_Q' = Append(SHADOW_Q, u) /\ UNCHANGED <<USER_Q, shadow>> BY <1>2 DEF Wake, ready
  <2>2. \A i \in DOMAIN SHADOW_Q : SHADOW_Q[i] # u BY <1>1 DEF Wake, Queued, Contains
  <2>3. /\ SHADOW_Q' \in Seq(Users)
        /\ \A i, j \in DOMAIN SHADOW_Q' : SHADOW_Q'[i] = SHADOW_Q'[j] => i = j
        /\ \A i \in DOMAIN SHADOW_Q' : SHADOW_Q'[i] = u \/ \E j \in DOMAIN SHADOW_Q : SHADOW_Q'[i] = SHADOW_Q[j]
    BY <1>1, <2>1, <2>2, QueueEnds DEF IInv, Queues
  <2>4. Queues' BY <1>2, <2>1, <2>3 DEF IInv, Queues
  <2> QED BY <2>1, <2>3, <2>4 DEF IInv, TypeOK, Wake, clockVars, alarmVars, quantumVars, synVars, userVars
<1>3. CASE u \notin shadow
  <2>1. USER_Q' = <<u>> \o USER_Q /\ UNCHANGED <<SHADOW_Q, shadow>> BY <1>3 DEF Wake, ready
  <2>2. USER_Q' \in Seq(Users) BY <1>1, <2>1
  <2>3. Queues' BY <2>1 DEF IInv, Queues
  <2> QED BY <2>1, <2>2, <2>3 DEF IInv, TypeOK, Wake, clockVars, alarmVars, quantumVars, synVars, userVars
<1> QED BY <1>2, <1>3

\* The others keep the types.
LEMMA DispatchStep == ASSUME IInv, Dispatch PROVE TypeOK'
<1>1. bill_ptr' \in Users \cup {IDLE} BY BilledType DEF IInv, TypeOK, Dispatch
<1> QED BY <1>1 DEF IInv, TypeOK, Dispatch, clockVars, alarmVars, quantumVars, queueVars, synVars, userVars

-----------------------------------------------------------------------------
(***************************************************************************)
(* The invariant                                                           *)
(***************************************************************************)
\* Every step keeps the invariant.
LEMMA StepIInv == IInv /\ [Next]_vars => IInv'
<1> SUFFICES ASSUME IInv, [Next]_vars PROVE IInv' OBVIOUS
<1> USE Bounds, ProcsAssumption, SyncAssumption
<1> USE DEF Pcs, NoReq, Alarmed, BetweenTasks, clockVars, alarmVars, quantumVars, queueVars,
            userVars, synVars, outside
<1>a. TypeOK /\ Quantum /\ Alarms /\ Requests /\ Syn /\ Queues /\ JustRung BY DEF IInv
<1>1. CASE clock_handler
  <2>2. TypeOK' /\ Alarms' BY <1>1, HandlerStep
  <2>3. Quantum' /\ Requests' /\ Syn' /\ Queues' /\ JustRung'
    BY <1>a, <1>1
       DEF clock_handler, CallTask, interrupt, Quantum, Requests, Syn, Queues, JustRung, TypeOK
  <2> QED BY <2>2, <2>3 DEF IInv
<1>2. CASE do_setalarm
  BY <1>a, <1>2
     DEF do_setalarm, Nearer, IInv, TypeOK, Quantum, Alarms, Requests, Syn, Queues, JustRung,
         NextAlarmEarly, Computing, Serving, Late
<1>3. CASE ResetNext
  BY <1>a, <1>3
     DEF ResetNext, IInv, TypeOK, Quantum, Alarms, Requests, Syn, Queues, JustRung,
         NextAlarmEarly, Computing, Serving, Late
<1>4. CASE common_setalarm
  <2>2. TypeOK' /\ Alarms' BY <1>4, ScanStep
  <2>3. Quantum' /\ Requests' /\ Syn' /\ Queues' /\ JustRung'
    BY <1>a, <1>4 DEF common_setalarm, Receive, Quantum, Requests, Syn, Queues, JustRung, TypeOK
  <2> QED BY <2>2, <2>3 DEF IInv
<1>5. CASE HardInt
  BY <1>a, <1>5
     DEF HardInt, Transfer, Nearer, IInv, TypeOK, Quantum, Alarms, Requests, Syn, Queues,
         JustRung, NextAlarmEarly, Computing, Serving, Late
<1>6. CASE TickReset
  BY <1>a, <1>6
     DEF TickReset, IInv, TypeOK, Quantum, Alarms, Requests, Syn, Queues, JustRung,
         NextAlarmEarly, Computing, Serving, Late
<1>7. CASE RingAlarms
  <2>2. TypeOK' /\ Alarms' BY <1>7, RingStep
  <2>3. Quantum' /\ Requests' /\ Syn' /\ Queues' /\ JustRung'
    BY <1>a, <1>7
       DEF RingAlarms, Due, cause_alarm, Quantum, Requests, Syn, Queues, JustRung, TypeOK,
           Alarms
  <2> QED BY <2>2, <2>3 DEF IInv
<1>8. CASE CountDown
  BY <1>a, <1>8
     DEF CountDown, AfterCount, IInv, TypeOK, Quantum, Alarms, Requests, Syn, Queues, JustRung,
         NextAlarmEarly, Computing, Serving, Late
<1>9. CASE CountLoad
  BY <1>a, <1>9
     DEF CountLoad, IInv, TypeOK, Quantum, Alarms, Requests, Syn, Queues, JustRung,
         NextAlarmEarly, Computing, Serving, Late
<1>10. CASE CountStore
  BY <1>a, <1>10
     DEF CountStore, AfterCount, IInv, TypeOK, Quantum, Alarms, Requests, Syn, Queues, JustRung,
         NextAlarmEarly, Computing, Serving, Late
<1>11. CASE Expire
  BY <1>a, <1>11
     DEF Expire, sched, IInv, TypeOK, Quantum, Alarms, Requests, Syn, Queues, JustRung,
         NextAlarmEarly, Computing, Serving, Late
<1>12. CASE TickEnd
  <2>2. TypeOK' /\ Queues' BY <1>12, EndStep
  <2>3. Quantum' /\ Alarms' /\ Requests' /\ Syn' /\ JustRung'
    BY <1>a, <1>12
       DEF TickEnd, Receive, Quantum, Alarms, Requests, Syn, JustRung, NextAlarmEarly,
           Computing, Serving, Late, TypeOK
  <2> QED BY <2>2, <2>3 DEF IInv
<1>13. CASE TimeCall
  BY <1>a, <1>13
     DEF TimeCall, Transfer, Nearer, IInv, TypeOK, Quantum, Alarms, Requests, Syn, Queues,
         JustRung, NextAlarmEarly, Computing, Serving, Late
<1>14. CASE SynRun
  <2>1. Alarms' /\ Syn'
    BY <1>a, <1>14 DEF SynRun, TypeOK, Alarms, Syn, NextAlarmEarly, Computing, Serving, Late
  <2>2. TypeOK' /\ Quantum' /\ Requests' /\ Queues' /\ JustRung'
    BY <1>a, <1>14 DEF SynRun, TypeOK, Quantum, Requests, Queues, JustRung
  <2> QED BY <2>1, <2>2 DEF IInv
<1>15. CASE \E s \in Sync : ServerReceives(s)
  <2>1. PICK s \in Sync : ServerReceives(s) BY <1>15
  <2> QED
    BY <1>a, <2>1
       DEF ServerReceives, IInv, TypeOK, Quantum, Alarms, Requests, Syn, Queues, JustRung,
           NextAlarmEarly, Computing, Serving, Late
<1>16. CASE \E p \in Alarmed, d \in 0 .. MaxDelta : SetAlarm(p, d)
  <2>1. PICK p \in Alarmed, d \in 0 .. MaxDelta : SetAlarm(p, d) BY <1>16
  <2> QED
    BY <1>a, <2>1
       DEF SetAlarm, IInv, TypeOK, Quantum, Alarms, Requests, Syn, Queues, JustRung,
           NextAlarmEarly, Computing, Serving, Late
<1>17. CASE \E u \in AlarmUsers : Cancel(u)
  <2>1. PICK u \in AlarmUsers : Cancel(u) BY <1>17
  <2>2. Alarms'
    BY <1>a, <2>1 DEF Cancel, TypeOK, Alarms, NextAlarmEarly, Computing, Serving, Late
  <2>3. TypeOK' /\ Quantum' /\ Requests' /\ Syn' /\ Queues' /\ JustRung'
    BY <1>a, <2>1 DEF Cancel, TypeOK, Quantum, Requests, Syn, Queues, JustRung
  <2> QED BY <2>2, <2>3 DEF IInv
<1>18. CASE \E u \in AlarmUsers, c \in AlarmUsers : Fork(u, c)
  <2>1. PICK u \in AlarmUsers, c \in AlarmUsers : Fork(u, c) BY <1>18
  <2>2. Alarms'
    BY <1>a, <2>1 DEF Fork, TypeOK, Alarms, NextAlarmEarly, Computing, Serving, Late
  <2>3. TypeOK' /\ Quantum' /\ Requests' /\ Syn' /\ Queues' /\ JustRung'
    BY <1>a, <2>1 DEF Fork, TypeOK, Quantum, Requests, Syn, Queues, JustRung
  <2> QED BY <2>2, <2>3 DEF IInv
<1>19. CASE \E u \in Users : EndIO(u)
  <2>1. PICK u \in Users : EndIO(u) BY <1>19
  <2> QED
    BY <1>a, <2>1
       DEF EndIO, IInv, TypeOK, Quantum, Alarms, Requests, Syn, Queues, JustRung,
           NextAlarmEarly, Computing, Serving, Late
<1>20. CASE \E u \in Users : Wake(u)
  <2>1. PICK u \in Users : Wake(u) BY <1>20
  <2>2. TypeOK' /\ Queues' BY <2>1, WakeStep
  <2>3. Quantum' /\ Alarms' /\ Requests' /\ Syn' /\ JustRung'
    BY <1>a, <2>1
       DEF Wake, Quantum, Alarms, Requests, Syn, JustRung, NextAlarmEarly, Computing, Serving,
           Late, TypeOK
  <2> QED BY <2>2, <2>3 DEF IInv
<1>21. CASE \E u \in Users, io \in BOOLEAN : Block(u, io)
  <2>1. PICK u \in Users, io \in BOOLEAN : Block(u, io) BY <1>21
  <2> QED
    BY <1>a, <2>1, UnlinkType
       DEF Block, IInv, TypeOK, Quantum, Alarms, Requests, Syn, Queues, JustRung,
           NextAlarmEarly, Computing, Serving, Late
<1>22. CASE DeviceInterrupt
  BY <1>a, <1>22
     DEF DeviceInterrupt, IInv, TypeOK, Quantum, Alarms, Requests, Syn, Queues, JustRung,
         NextAlarmEarly, Computing, Serving, Late
<1>23. CASE Dispatch
  <2>2. TypeOK' BY <1>23, DispatchStep
  <2>3. Quantum' /\ Alarms' /\ Requests' /\ Syn' /\ Queues' /\ JustRung'
    BY <1>a, <1>23
       DEF Dispatch, Quantum, Alarms, Requests, Syn, Queues, JustRung, NextAlarmEarly,
           Computing, Serving, Late, TypeOK
  <2> QED BY <2>2, <2>3 DEF IInv
<1>24. CASE UNCHANGED vars
  BY <1>24, <1>a
     DEF IInv, TypeOK, Quantum, Alarms, Requests, Syn, Queues, JustRung, vars, NextAlarmEarly,
         Late
<1> QED
  BY <1>1, <1>2, <1>3, <1>4, <1>5, <1>6, <1>7, <1>8, <1>9, <1>10, <1>11, <1>12, <1>13, <1>14,
     <1>15, <1>16, <1>17, <1>18, <1>19, <1>20, <1>21, <1>22, <1>23, <1>24 DEF Next, ClockStep

\* The initial state is as the invariant says.
LEMMA InitIInv == Init => IInv
<1> SUFFICES ASSUME Init PROVE IInv OBVIOUS
<1> USE Bounds, ProcsAssumption, SyncAssumption
<1>1. /\ p_alarm = [p \in Alarmed |-> Off] /\ next_alarm = LONG_MAX /\ pending_ticks = 0
      /\ sched_ticks = SCHED_RATE /\ pc = "receive" /\ races = 0 /\ req = NoReq /\ rung = {}
      /\ syn = "receive" /\ SHADOW_Q = << >> /\ shadow = Sharers \ {FirstOwner}
  BY DEF Init
<1>2. TypeOK
  <2>1. USER_Q \in Seq(Users) /\ SHADOW_Q \in Seq(Users) BY DEF Init
  <2>2. p_alarm \in [Alarmed -> (-Overdue) .. Off] /\ next_alarm \in (-Overdue) .. LONG_MAX
    BY <1>1
  <2>3. busy \in BOOLEAN BY DEF Init
  <2>4. /\ req \in {NoReq} \cup [p : Alarmed, d : 0 .. MaxDelta] /\ pc \in Pcs /\ shadow \subseteq Users
        /\ sched_ticks \in (-MaxPending) .. SCHED_RATE
    BY <1>1 DEF Pcs
  <2>5. /\ prev_ptr = IDLE /\ bill_ptr = IDLE /\ loaded = 0 /\ physio = {} /\ flipwait = FLIPWAIT
        /\ int_blocked = FALSE /\ syn_al_alive = FALSE /\ syn_table = {} /\ events = 0
    BY DEF Init
  <2>6. /\ {prev_ptr, bill_ptr} \subseteq Users \cup {IDLE} /\ loaded \in 0 .. SCHED_RATE
        /\ physio \subseteq Users /\ flipwait \in 0 .. FLIPWAIT /\ events \in 0 .. MaxEvents
        /\ syn_table \subseteq Sync
    BY <2>5
  <2>7. /\ pending_ticks \in 0 .. MaxPending /\ races \in 0 .. MaxRaces /\ rung \subseteq Alarmed
        /\ syn \in {"ready", "receive"} \cup Sync
    BY <1>1
  <2>8. int_blocked \in BOOLEAN /\ syn_al_alive \in BOOLEAN BY <2>5
  <2> QED BY <2>1, <2>2, <2>3, <2>4, <2>6, <2>7, <2>8 DEF TypeOK
<1>3. Quantum BY <1>1 DEF Quantum
<1>4. Alarms BY <1>1 DEF Alarms, NextAlarmEarly, BetweenTasks
<1>5. Requests /\ Syn /\ JustRung BY <1>1 DEF Requests, Syn, JustRung
<1>6. Queues BY <1>1 DEF Queues
<1> QED BY <1>2, <1>3, <1>4, <1>5, <1>6 DEF IInv

\* The invariant holds in every state of every instance.
THEOREM Invariance == Spec => []IInv
<1> QED BY InitIInv, StepIInv, PTL DEF Spec

\* In every instance next_alarm is never later than an alarm that is set, and the
\* clock task never blocks in its send to SYN_ALRM (clock.c).
THEOREM AlarmsSoundAlways == Spec => []AlarmsSound
<1>1. IInv => AlarmsSound
  <2> SUFFICES ASSUME IInv PROVE ClockNeverBlocks BY DEF IInv, Alarms, AlarmsSound
  <2> QED BY Bounds DEF IInv, TypeOK, Syn, ClockNeverBlocks, Due
<1> QED BY <1>1, Invariance, PTL

\* In every instance the race of clock_handler() and do_clocktick() for
\* sched_ticks leaves a quantum running whenever the clock task waits.
THEOREM SchedSoundAlways == Spec => []SchedSound
<1>1. IInv => SchedSound BY DEF IInv, Quantum, SchedSound, QuantumRestored
<1> QED BY <1>1, Invariance, PTL

\* No step of any instance moves an image to or from which a device transfers
\* (unshadow() in stshadow.c).
THEOREM ImagesPinned == Spec => ImagePinned
<1> DEFINE Stays == \A u \in physio \cap physio' : u \in shadow <=> u \in shadow'
<1>1. [Next]_vars => Stays
  <2> SUFFICES ASSUME [Next]_vars PROVE Stays OBVIOUS
  <2> USE DEF clockVars, alarmVars, quantumVars, queueVars, userVars, synVars, outside
  <2>1. CASE TickEnd BY <2>1 DEF TickEnd, unshadow, Pinned
  <2>2. CASE ~TickEnd
    <3>1. UNCHANGED shadow
      BY <2>2 DEF Next, ClockStep, vars, clock_handler, do_setalarm, ResetNext,
         common_setalarm, HardInt, TickReset, RingAlarms, CountDown, CountLoad, CountStore,
         Expire, TimeCall, SynRun, ServerReceives, SetAlarm, Cancel, Fork, EndIO, Wake, Block,
         DeviceInterrupt, Dispatch
    <3> QED BY <3>1
  <2> QED BY <2>1, <2>2
<1> QED BY <1>1, PTL DEF Spec, ImagePinned

-----------------------------------------------------------------------------
(***************************************************************************)
(* The clock task implements AlarmClock, but for its fairness.             *)
(***************************************************************************)
\* The refinement mapping of AC.
left == [p \in Alarmed |-> IF p_alarm[p] = Off THEN MaxDelta + 1
                           ELSE Max({0, p_alarm[p] - pending_ticks})]
told == rung \cup syn_table \cup ({syn} \cap Sync)

\* What the mapping makes of an alarm.
LEMMA LeftIs ==
  ASSUME NEW f \in [Alarmed -> (-Overdue) .. Off], NEW n \in Nat, NEW p \in Alarmed
  PROVE  (IF f[p] = Off THEN MaxDelta + 1 ELSE Max({0, f[p] - n})) =
         IF f[p] = Off THEN MaxDelta + 1 ELSE IF f[p] <= n THEN 0 ELSE f[p] - n
<1>1. f[p] \in Int /\ f[p] - n \in Int /\ 0 \in Int BY Bounds
<1>2. Max({0, f[p] - n}) = IF 0 >= f[p] - n THEN 0 ELSE f[p] - n BY <1>1, MaxOfTwo
<1> QED BY <1>1, <1>2

\* The same, now and after a step.
LEMMA Lefts ==
  ASSUME TypeOK, TypeOK', NEW p \in Alarmed
  PROVE  /\ left[p] = IF p_alarm[p] = Off THEN MaxDelta + 1
                      ELSE IF p_alarm[p] <= pending_ticks THEN 0 ELSE p_alarm[p] - pending_ticks
         /\ left'[p] = IF p_alarm'[p] = Off THEN MaxDelta + 1
                       ELSE IF p_alarm'[p] <= pending_ticks' THEN 0 ELSE p_alarm'[p] - pending_ticks'
         /\ p_alarm[p] \in (-Overdue) .. Off /\ p_alarm'[p] \in (-Overdue) .. Off
<1>1. /\ p_alarm \in [Alarmed -> (-Overdue) .. Off] /\ pending_ticks \in Nat
      /\ p_alarm' \in [Alarmed -> (-Overdue) .. Off] /\ pending_ticks' \in Nat
  BY Bounds DEF TypeOK
<1> DEFINE f == p_alarm'
           n == pending_ticks'
<1>2. left'[p] = IF f[p] = Off THEN MaxDelta + 1 ELSE Max({0, f[p] - n}) BY DEF left
<1>3. f \in [Alarmed -> (-Overdue) .. Off] /\ n \in Nat BY <1>1
<1> HIDE DEF f, n
<1>4. left'[p] = IF f[p] = Off THEN MaxDelta + 1 ELSE IF f[p] <= n THEN 0 ELSE f[p] - n
  BY <1>2, <1>3, LeftIs
<1>5. left[p] = IF p_alarm[p] = Off THEN MaxDelta + 1
                ELSE IF p_alarm[p] <= pending_ticks THEN 0 ELSE p_alarm[p] - pending_ticks
  BY <1>1, LeftIs DEF left
<1> QED BY <1>1, <1>4, <1>5 DEF f, n

\* The steps of AlarmClock, under the mapping.
LEMMA AbstractSteps ==
  /\ AC!vars = <<left, told>>
  /\ AC!Init <=> left = [p \in Alarmed |-> MaxDelta + 1] /\ told = {}
  /\ /\ left' = [p \in Alarmed |-> IF left[p] \in 1 .. MaxDelta THEN left[p] - 1 ELSE left[p]]
     /\ told' = told
     => AC!Next
  /\ \A S \in SUBSET told : told' = told \ S /\ left' = left => AC!Next
  /\ \A p \in Alarmed, d \in 0 .. MaxDelta :
       left' = [left EXCEPT ![p] = IF d = 0 THEN MaxDelta + 1 ELSE d] /\ told' = told => AC!Next
  /\ \A S \in SUBSET Alarmed :
       /\ S # {} /\ \A p \in S : left[p] = 0
       /\ left' = [p \in Alarmed |-> IF p \in S THEN MaxDelta + 1 ELSE left[p]]
       /\ told' = told \cup S
       => AC!Next
  /\ \A p \in Alarmed : left' = [left EXCEPT ![p] = MaxDelta + 1] /\ told' = told => AC!Next
  /\ \A p, c \in Alarmed : left' = [left EXCEPT ![c] = left[p]] /\ told' = told => AC!Next
<1> USE DEF AC!Off
<1>1. AC!vars = <<left, told>> BY DEF AC!vars, left, told
<1>2. AC!Init <=> left = [p \in Alarmed |-> MaxDelta + 1] /\ told = {} BY DEF AC!Init, left, told
<1>3. ASSUME left' = [p \in Alarmed |-> IF left[p] \in 1 .. MaxDelta THEN left[p] - 1 ELSE left[p]],
             told' = told
      PROVE  AC!Next
  BY <1>3 DEF AC!Next, AC!Tick, left, told
<1>4. ASSUME NEW S \in SUBSET told, told' = told \ S, left' = left PROVE AC!Next
  BY <1>4 DEF AC!Next, AC!Told, left, told
<1>5. ASSUME NEW p \in Alarmed, NEW d \in 0 .. MaxDelta,
             left' = [left EXCEPT ![p] = IF d = 0 THEN MaxDelta + 1 ELSE d], told' = told
      PROVE  AC!Next
  BY <1>5 DEF AC!Next, AC!Set, left, told
<1>6. ASSUME NEW S \in SUBSET Alarmed, S # {}, \A p \in S : left[p] = 0,
             left' = [p \in Alarmed |-> IF p \in S THEN MaxDelta + 1 ELSE left[p]],
             told' = told \cup S
      PROVE  AC!Next
  <2>1. PICK p \in S : TRUE BY <1>6
  <2>2. AC!Ring(S) BY <1>6 DEF AC!Ring, left, told
  <2>3. AC!RingsFor(p) BY <2>1, <2>2 DEF AC!RingsFor
  <2> QED BY <2>1, <2>3 DEF AC!Next
<1>7. ASSUME NEW p \in Alarmed, left' = [left EXCEPT ![p] = MaxDelta + 1], told' = told PROVE AC!Next
  BY <1>7 DEF AC!Next, AC!Cancel, left, told
<1>8. ASSUME NEW p \in Alarmed, NEW c \in Alarmed, left' = [left EXCEPT ![c] = left[p]], told' = told
      PROVE  AC!Next
  BY <1>8 DEF AC!Next, AC!Inherit, left, told
<1> QED BY <1>1, <1>2, <1>3, <1>4, <1>5, <1>6, <1>7, <1>8

\* The ticks that the clock task transfers to realtime change no alarm.
LEMMA TransferLefts ==
  ASSUME TypeOK, TypeOK', Alarms, Transfer PROVE left' = left
<1>1. ASSUME NEW p \in Alarmed PROVE left'[p] = left[p]
  <2>1. p_alarm'[p] = Nearer(p_alarm[p], pending_ticks) /\ pending_ticks' = 0 BY DEF Transfer
  <2>2. pending_ticks \in Nat BY Bounds DEF TypeOK
  <2>3. p_alarm[p] # Off => p_alarm[p] <= MaxDelta BY DEF Alarms
  <2> QED BY <2>1, <2>2, <2>3, Lefts, Bounds DEF Nearer
<1> QED BY <1>1 DEF left

\* Every step is a step of AlarmClock or changes nothing there.
LEMMA StepRefines == IInv /\ IInv' /\ [Next]_vars => [AC!Next]_AC!vars
<1> SUFFICES ASSUME IInv, IInv', [Next]_vars PROVE AC!Next \/ (left' = left /\ told' = told)
  BY AbstractSteps
<1> USE DEF clockVars, alarmVars, quantumVars, queueVars, userVars, synVars, outside
<1>0. TypeOK /\ TypeOK' /\ Alarms /\ pending_ticks \in Nat /\ pending_ticks' \in Nat
      /\ Syn /\ JustRung /\ Requests
  BY Bounds DEF IInv, TypeOK
<1>1. ASSUME UNCHANGED <<p_alarm, pending_ticks, rung, syn_table, syn>>
      PROVE  left' = left /\ told' = told
  BY <1>1 DEF left, told
<1>2. CASE clock_handler
  <2>1. UNCHANGED <<p_alarm, rung, syn_table, syn>> BY <1>2 DEF clock_handler
  <2>2. pending_ticks' \in {pending_ticks, pending_ticks + 1}
    <3>1. MaxPending \in Int /\ pending_ticks \in 0 .. MaxPending BY Bounds, <1>0 DEF TypeOK
    <3> QED BY <1>2, <3>1, MinOfTwo DEF clock_handler
  <2>3. CASE pending_ticks' = pending_ticks BY <1>1, <2>1, <2>3
  <2>4. CASE pending_ticks' = pending_ticks + 1
    <3>1. told' = told BY <2>1 DEF told
    <3>2. ASSUME NEW p \in Alarmed
          PROVE  left'[p] = IF left[p] \in 1 .. MaxDelta THEN left[p] - 1 ELSE left[p]
      <4>1. p_alarm[p] # Off => p_alarm[p] <= MaxDelta BY <1>0 DEF Alarms
      <4> QED BY <4>1, <1>0, <2>1, <2>4, Lefts, Bounds
    <3>3. left' = [p \in Alarmed |-> IF left[p] \in 1 .. MaxDelta THEN left[p] - 1 ELSE left[p]]
      BY <3>2 DEF left
    <3> QED BY <3>1, <3>3, AbstractSteps
  <2> QED BY <2>2, <2>3, <2>4
<1>3. CASE do_setalarm
  <2> DEFINE p == req.p
             d == req.d
  <2>1. p \in Alarmed /\ d \in 0 .. MaxDelta
    BY <1>0, <1>3 DEF do_setalarm, Requests, TypeOK
  <2>2. told' = told BY <1>3 DEF do_setalarm, told
  <2>3. /\ p_alarm' = [q \in Alarmed |-> IF q = p THEN IF d = 0 THEN Off ELSE d
                                         ELSE Nearer(p_alarm[q], pending_ticks)]
        /\ pending_ticks' = 0
    BY <1>3 DEF do_setalarm
  <2> HIDE DEF p, d
  <2>4. ASSUME NEW q \in Alarmed
        PROVE  left'[q] = IF q = p THEN IF d = 0 THEN MaxDelta + 1 ELSE d ELSE left[q]
    <3>1. p_alarm[q] # Off => p_alarm[q] <= MaxDelta BY <1>0 DEF Alarms
    <3> QED BY <1>0, <2>1, <2>3, <3>1, Lefts, Bounds DEF Nearer
  <2>5. left' = [left EXCEPT ![p] = IF d = 0 THEN MaxDelta + 1 ELSE d] BY <2>1, <2>4 DEF left
  <2> QED BY <2>1, <2>2, <2>5, AbstractSteps
<1>4. CASE HardInt \/ TimeCall
  <2>1. Transfer /\ UNCHANGED <<rung, syn_table, syn>> BY <1>4 DEF HardInt, TimeCall
  <2>2. left' = left BY <1>0, <2>1, TransferLefts
  <2> QED BY <2>1, <2>2 DEF told
<1>5. CASE RingAlarms
  <2>1. /\ p_alarm' = [p \in Alarmed |-> IF p \in Due THEN Off ELSE p_alarm[p]]
        /\ UNCHANGED pending_ticks
    BY <1>5 DEF RingAlarms
  <2>2. rung = {} BY <1>0, <1>5 DEF RingAlarms, JustRung
  <2>3. {syn'} \cap Sync = {syn} \cap Sync
    <3>1. "ready" \notin Sync BY SyncAssumption
    <3> QED BY <1>0, <1>5, <3>1 DEF RingAlarms, cause_alarm, Syn
  <2>4. told' = told \cup Due
    BY <1>5, <2>2, <2>3 DEF RingAlarms, cause_alarm, told
  <2>5. ASSUME NEW p \in Alarmed
        PROVE  /\ left'[p] = IF p \in Due THEN MaxDelta + 1 ELSE left[p]
               /\ p \in Due => left[p] = 0
    BY <1>0, <2>1, Lefts, Bounds DEF Due
  <2>6. left' = [p \in Alarmed |-> IF p \in Due THEN MaxDelta + 1 ELSE left[p]] BY <2>5 DEF left
  <2>7. Due \in SUBSET Alarmed BY DEF Due
  <2>8. CASE Due = {}
    <3>1. left' = left BY <2>6, <2>8 DEF left
    <3> QED BY <2>4, <2>8, <3>1
  <2>9. CASE Due # {} BY <2>4, <2>5, <2>6, <2>7, <2>9, AbstractSteps
  <2> QED BY <2>8, <2>9
<1>6. CASE CountDown \/ CountLoad
  <2>1. UNCHANGED <<p_alarm, pending_ticks, syn_table, syn>> /\ rung' = {}
    BY <1>6 DEF CountDown, CountLoad
  <2>2. left' = left BY <2>1 DEF left
  <2> DEFINE S == told \ (syn_table \cup ({syn} \cap Sync))
  <2>3. told' = told \ S /\ S \in SUBSET told BY <2>1 DEF told
  <2> HIDE DEF S
  <2> QED BY <2>2, <2>3, AbstractSteps
<1>7. CASE SynRun
  <2>1. UNCHANGED <<p_alarm, pending_ticks, rung>> BY <1>7 DEF SynRun
  <2>2. left' = left BY <2>1 DEF left
  <2>3. syn_table \subseteq Sync /\ "ready" \notin Sync /\ "receive" \notin Sync
    BY <1>0, SyncAssumption DEF TypeOK
  <2>4. told' = told BY <1>7, <2>1, <2>3 DEF SynRun, told
  <2> QED BY <2>2, <2>4
<1>8. CASE \E s \in Sync : ServerReceives(s)
  <2>1. PICK s \in Sync : ServerReceives(s) BY <1>8
  <2>2. UNCHANGED <<p_alarm, pending_ticks, rung, syn_table>> /\ syn = s /\ syn' = "ready"
    BY <2>1 DEF ServerReceives
  <2>3. left' = left BY <2>2 DEF left
  <2>4. "ready" \notin Sync BY SyncAssumption
  <2> DEFINE S == told \ (rung \cup syn_table)
  <2>5. told' = told \ S /\ S \in SUBSET told BY <2>2, <2>4 DEF told
  <2> HIDE DEF S
  <2> QED BY <2>3, <2>5, AbstractSteps
<1>9. CASE \E u \in AlarmUsers : Cancel(u)
  <2>1. PICK u \in AlarmUsers : Cancel(u) BY <1>9
  <2>2. /\ u \in Alarmed /\ p_alarm' = [p_alarm EXCEPT ![u] = Off] /\ pending_ticks' = pending_ticks
        /\ UNCHANGED <<rung, syn_table, syn>>
    BY <2>1 DEF Cancel, Alarmed
  <2>3. told' = told BY <2>2 DEF told
  <2>4. ASSUME NEW q \in Alarmed PROVE left'[q] = IF q = u THEN MaxDelta + 1 ELSE left[q]
    <3>1. p_alarm'[q] = IF q = u THEN Off ELSE p_alarm[q] BY <1>0, <2>2 DEF TypeOK
    <3> QED BY <1>0, <2>2, <3>1, Lefts
  <2>5. left' = [left EXCEPT ![u] = MaxDelta + 1] BY <2>2, <2>4 DEF left
  <2> QED BY <2>2, <2>3, <2>5, AbstractSteps
<1>10. CASE \E u, c \in AlarmUsers : Fork(u, c)
  <2>1. PICK u, c \in AlarmUsers : Fork(u, c) BY <1>10
  <2>2. /\ u \in Alarmed /\ c \in Alarmed /\ p_alarm' = [p_alarm EXCEPT ![c] = p_alarm[u]]
        /\ pending_ticks' = pending_ticks /\ UNCHANGED <<rung, syn_table, syn>>
    BY <2>1 DEF Fork, Alarmed
  <2>3. told' = told BY <2>2 DEF told
  <2>4. ASSUME NEW q \in Alarmed PROVE left'[q] = IF q = c THEN left[u] ELSE left[q]
    <3>1. p_alarm'[q] = IF q = c THEN p_alarm[u] ELSE p_alarm[q] BY <1>0, <2>2 DEF TypeOK
    <3>2. left[u] = IF p_alarm[u] = Off THEN MaxDelta + 1
                    ELSE IF p_alarm[u] <= pending_ticks THEN 0 ELSE p_alarm[u] - pending_ticks
      BY <1>0, <2>2, Lefts
    <3> QED BY <1>0, <2>2, <3>1, <3>2, Lefts
  <2>5. left' = [left EXCEPT ![c] = left[u]] BY <2>2, <2>4 DEF left
  <2> QED BY <2>2, <2>3, <2>5, AbstractSteps
<1>11. CASE \/ ResetNext \/ common_setalarm \/ TickReset \/ CountStore \/ Expire \/ TickEnd
            \/ \E p \in Alarmed, d \in 0 .. MaxDelta : SetAlarm(p, d)
            \/ \E u \in Users : EndIO(u) \/ Wake(u) \/ \E io \in BOOLEAN : Block(u, io)
            \/ DeviceInterrupt \/ Dispatch \/ UNCHANGED vars
  <2>1. UNCHANGED <<p_alarm, pending_ticks, rung, syn_table, syn>>
    BY <1>11 DEF ResetNext, common_setalarm, TickReset, CountStore, Expire, TickEnd, SetAlarm, EndIO,
       Wake, Block, DeviceInterrupt, Dispatch, vars
  <2> QED BY <1>1, <2>1
<1> QED
  BY <1>2, <1>3, <1>4, <1>5, <1>6, <1>7, <1>8, <1>9, <1>10, <1>11 DEF Next, ClockStep

\* In every instance the alarms behave as in AlarmClock, fairness aside: none
\* goes off before its time, none goes off twice, none is lost or made up.
THEOREM AlarmsRefine == Spec => AC!Init /\ [][AC!Next]_AC!vars
<1>1. Init => AC!Init
  <2> SUFFICES ASSUME Init PROVE AC!Init OBVIOUS
  <2>1. told = {} BY SyncAssumption DEF Init, told
  <2>2. left = [p \in Alarmed |-> MaxDelta + 1] BY DEF Init, left
  <2> QED BY <2>1, <2>2, AbstractSteps
<1> QED BY <1>1, Invariance, StepRefines, PTL DEF Spec
=============================================================================
