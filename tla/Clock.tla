------------------------------- MODULE Clock --------------------------------
(***************************************************************************)
(* The clock task, its interrupt handler and the synchronous alarm task    *)
(* (kernel/clock.c), with the exchange of shadows that the clock task      *)
(* drives (kernel/stshadow.c).                                             *)
(*                                                                         *)
(* The task is interrupted by the handler between any two of its accesses  *)
(* to the variables they share, so that its handlers are cut into steps at *)
(* those accesses (variable pc); no other process runs between two steps   *)
(* of a task.  All times are relative to realtime: the code only compares  *)
(* and subtracts them, and when pending_ticks are added to realtime every  *)
(* time comes nearer by as much.                                           *)
(***************************************************************************)
EXTENDS Integers, FiniteSets, SequencesExt

CONSTANTS
  Users,        \* the users whose scheduling is followed
  Watched,      \* tasks; their alarm is a watchdog function
  Sync,         \* servers; their alarm is a CLOCK_INT message
  IDLE,         \* the process that is billed when no user is ready
  AlarmUsers,   \* the users whose alarms are followed; their alarm is a signal
  Sharers,      \* the users who share one memory slot, after forks
  FirstOwner,   \* the one of them whose image is in the slot at first
  SCHED_RATE,   \* ticks per quantum
  FLIPWAIT,     \* scheduler runs between two exchanges of images
  MaxDelta,     \* bound: longest alarm, in ticks
  MaxRaces,     \* bound: ticks that find the clock task at work
  MaxEvents     \* bound: how often users block and devices interrupt

Alarmed == AlarmUsers \cup Watched \cup Sync

ASSUME ProcsAssumption ==
  /\ Sharers \subseteq Users /\ (Sharers = {} \/ FirstOwner \in Sharers)
  /\ IDLE \notin Users \cup Alarmed
ASSUME ClockAssumption ==
  /\ SCHED_RATE \in Nat \ {0} /\ FLIPWAIT \in Nat
  /\ MaxDelta \in Nat /\ MaxRaces \in Nat /\ MaxEvents \in Nat
\* inet (inet/clock.c) is the one caller of SET_SYNC_AL; a server is neither a
\* user nor a task, and no state of SYN_ALRM.
ASSUME SyncAssumption ==
  /\ \A s, t \in Sync : s = t
  /\ Sync \cap (AlarmUsers \cup Watched \cup {"ready", "receive"}) = {}

MaxPending == MaxDelta + MaxRaces
LONG_MAX == MaxPending + 1         \* later than every alarm
Off == LONG_MAX                    \* p_alarm = 0: no alarm set
NoReq == [p |-> IDLE, d |-> 0]

VARIABLES
  p_alarm, next_alarm, pending_ticks,
  sched_ticks, prev_ptr, bill_ptr,
  USER_Q, SHADOW_Q, shadow, physio, flipwait,
  pc,           \* where the clock task is
  races,        \* ticks that have found CLOCK not waiting for a message
  loaded,       \* sched_ticks as do_clocktick() has read it
  int_blocked,  \* a clock interrupt that came while CLOCK was not receiving
  req,          \* the request a process has sent to CLOCK
  busy,         \* a server, or a task other than CLOCK and SYN_ALRM, is ready
  syn,          \* the synchronous alarm task: ready, in receive, or the server it sends to
  syn_al_alive, syn_table,
  rung,         \* ghost: the alarms that do_clocktick() has just served
  events        \* how often users have blocked and devices interrupted

alarmVars == <<p_alarm, next_alarm, pending_ticks, rung>>
quantumVars == <<sched_ticks, prev_ptr, loaded>>
queueVars == <<USER_Q, SHADOW_Q, shadow, flipwait>>
userVars == <<physio, events>>
synVars == <<syn, syn_al_alive, syn_table>>
clockVars == <<alarmVars, quantumVars, pc, races, int_blocked>>
\* What most steps of the clock task leave alone.
outside == <<bill_ptr, races, int_blocked, req, busy, queueVars, userVars, synVars>>
vars == <<clockVars, bill_ptr, queueVars, userVars, req, busy, synVars>>

Pcs == {"receive", "hardint", "request", "reset", "scan", "tick", "ring", "quantum",
        "store", "expire", "shadow"}

\* The longest an alarm is overdue.
Overdue == MaxPending + MaxRaces

TypeOK ==
  /\ p_alarm \in [Alarmed -> (-Overdue) .. Off]
  /\ next_alarm \in (-Overdue) .. LONG_MAX
  /\ pending_ticks \in 0 .. MaxPending
  /\ sched_ticks \in (-MaxPending) .. SCHED_RATE /\ loaded \in 0 .. SCHED_RATE
  /\ {prev_ptr, bill_ptr} \subseteq Users \cup {IDLE}
  /\ USER_Q \in Seq(Users) /\ SHADOW_Q \in Seq(Users)
  /\ shadow \subseteq Users /\ physio \subseteq Users /\ flipwait \in 0 .. FLIPWAIT
  /\ pc \in Pcs /\ races \in 0 .. MaxRaces /\ int_blocked \in BOOLEAN /\ busy \in BOOLEAN
  /\ req \in {NoReq} \cup [p : Alarmed, d : 0 .. MaxDelta]
  /\ syn \in {"ready", "receive"} \cup Sync /\ syn_al_alive \in BOOLEAN
  /\ syn_table \subseteq Sync /\ rung \subseteq Alarmed /\ events \in 0 .. MaxEvents

-----------------------------------------------------------------------------
(***************************************************************************)
(* Ready queues, as far as the clock task works on them                    *)
(***************************************************************************)
Queued(u) == Contains(USER_Q, u) \/ Contains(SHADOW_Q, u)

\* pick_proc() when no task and no server is ready.
Billed(q) == IF q = << >> THEN IDLE ELSE Head(q)

\* The task that ran last gives up the processor.
pick_proc(q) == bill_ptr' = IF busy \/ syn = "ready" THEN bill_ptr ELSE Billed(q)

\* The queue q without u, which is in it once at most.
Unlink(q, u) ==
  IF Contains(q, u) THEN RemoveAt(q, CHOOSE i \in DOMAIN q : q[i] = u) ELSE q

ready(u) ==
  IF u \in shadow THEN SHADOW_Q' = Append(SHADOW_Q, u) /\ UNCHANGED USER_Q
                  ELSE USER_Q' = <<u>> \o USER_Q /\ UNCHANGED SHADOW_Q

\* Mutant: the process that has run too long stays at the head.
sched_Stays(q) == q

sched(q) == IF q = << >> THEN q ELSE Append(Tail(q), Head(q))

\* The owner of the memory slot: the one user of the image that is no shadow.
Owner == CHOOSE q \in Sharers : q \notin shadow

\* Mutant: the exchange does not look at the owner's input and output.
Pinned_OwnerNot(p, q) == p \in physio

\* One of the two is the target of device input or output.
Pinned(p, q) == p \in physio \/ q \in physio

\* Mutant: the displaced owner goes to the head of the shadows.
Displaced_First(q) == <<q>> \o Tail(SHADOW_Q)

\* The shadows after their first has been moved in and ready q moved out.
Displaced(q) == Append(Tail(SHADOW_Q), q)

\* Exchange the images of the first shadow p and of the owner of the slot, when
\* it is time and neither is pinned; both change queues, if they are ready.
unshadow ==
  LET p == Head(SHADOW_Q)
      q == Owner
  IN  \/ flipwait > 0 /\ flipwait' = flipwait - 1 /\ UNCHANGED <<USER_Q, SHADOW_Q,
                                                                 shadow>>
      \/ flipwait = 0 /\ Pinned(p, q) /\ UNCHANGED queueVars
      \/ /\ flipwait = 0 /\ ~Pinned(p, q)
         /\ flipwait' = FLIPWAIT
         /\ shadow' = (shadow \ {p}) \cup {q}
         /\ SHADOW_Q' = IF Contains(USER_Q, q) THEN Displaced(q) ELSE Tail(SHADOW_Q)
         /\ USER_Q' = <<p>> \o Unlink(USER_Q, q)

-----------------------------------------------------------------------------
(***************************************************************************)
(* Time                                                                    *)
(***************************************************************************)
\* A time relative to realtime, n ticks later.
Nearer(t, n) == IF t = LONG_MAX THEN t ELSE t - n

\* Mutant: the alarms that stay are forgotten.
Earliest_None(f) == LONG_MAX

\* The earliest alarm, the scan of the process table at the end of
\* common_setalarm() and in do_clocktick().
Earliest(f) == IF Alarmed = {} THEN LONG_MAX ELSE Min({f[p] : p \in Alarmed})

\* clock_task(): realtime += pending_ticks; pending_ticks = 0.
Transfer ==
  /\ p_alarm' = [p \in Alarmed |-> Nearer(p_alarm[p], pending_ticks)]
  /\ next_alarm' = Nearer(next_alarm, pending_ticks)
  /\ pending_ticks' = 0

\* Deliver to CLOCK if it waits for a message, or leave the interrupt blocked.
interrupt ==
  /\ pc' = IF pc = "receive" THEN "hardint" ELSE pc
  /\ int_blocked' = (int_blocked \/ pc # "receive")

\* The clock task sleeps and no alarm is set or expected: how many ticks are
\* pending makes no difference.
Quiet == next_alarm = LONG_MAX /\ \A p \in Alarmed : p_alarm[p] = Off

\* There is work for the clock task: an alarm may be due, or the quantum ends
\* and another user or a shadow could run.
CallTask ==
  \/ next_alarm <= pending_ticks'
  \/ sched_ticks = 1 /\ bill_ptr = prev_ptr /\ (USER_Q # << >> \/ SHADOW_Q # << >>)

\* The clock task is computing next_alarm, which may be too late meanwhile.
Computing == {"reset", "scan", "ring"}

\* A tick of the hardware, at any moment outside lock().
clock_handler ==
  /\ IF pc = "receive" THEN pending_ticks < MaxPending \/ Quiet ELSE races < MaxRaces
  /\ pending_ticks' = Min({pending_ticks + 1, MaxPending})
  /\ \/ CallTask /\ interrupt /\ UNCHANGED <<sched_ticks, prev_ptr>>
     \/ /\ ~CallTask
        /\ sched_ticks' = IF sched_ticks = 1 THEN SCHED_RATE ELSE sched_ticks - 1
        /\ prev_ptr' = IF sched_ticks = 1 THEN bill_ptr ELSE prev_ptr
        /\ UNCHANGED <<pc, int_blocked>>
  /\ races' = IF pc = "receive" THEN races ELSE races + 1
  /\ UNCHANGED <<queueVars, synVars, userVars, p_alarm, next_alarm, rung, loaded,
                 bill_ptr, req, busy>>

-----------------------------------------------------------------------------
(***************************************************************************)
(* The clock task                                                          *)
(***************************************************************************)
\* receive(ANY) at the top of the loop, q is USER_Q: a caller that is queued
\* comes first, then a blocked interrupt; else CLOCK blocks and gives up the
\* processor.
Receive(r, q) ==
  \/ /\ r # NoReq
     /\ pc' = "request" /\ UNCHANGED <<bill_ptr, int_blocked>>
  \/ /\ r = NoReq /\ int_blocked
     /\ pc' = "hardint" /\ int_blocked' = FALSE /\ UNCHANGED bill_ptr
  \/ /\ r = NoReq /\ ~int_blocked
     /\ pc' = "receive" /\ pick_proc(q) /\ UNCHANGED int_blocked

\* SET_ALARM and SET_SYNC_AL: transfer the ticks and record the alarm.
do_setalarm ==
  /\ pc = "request"
  /\ p_alarm' = [p \in Alarmed |->
                   IF p = req.p THEN IF req.d = 0 THEN Off ELSE req.d
                                ELSE Nearer(p_alarm[p], pending_ticks)]
  /\ next_alarm' = Nearer(next_alarm, pending_ticks)
  /\ pending_ticks' = 0
  /\ pc' = "reset"
  /\ UNCHANGED <<outside, quantumVars, rung>>

\* common_setalarm(): start computing the next alarm.
ResetNext ==
  /\ pc = "reset" /\ pc' = "scan" /\ next_alarm' = LONG_MAX
  /\ UNCHANGED <<outside, quantumVars, p_alarm, pending_ticks, rung>>

\* common_setalarm(): which alarm is next?  Then reply, and the next receive.
common_setalarm ==
  /\ pc = "scan" /\ next_alarm' = Earliest(p_alarm)
  /\ req' = NoReq /\ Receive(NoReq, USER_Q)
  /\ UNCHANGED <<queueVars, quantumVars, synVars, userVars, p_alarm, pending_ticks,
                 rung, races, busy>>

\* GET_UPTIME, GET_TIME, SET_TIME: nothing but the transfer of the ticks, and the
\* times in the reply.
TimeCall ==
  /\ pc = "receive" /\ syn # "ready" /\ Transfer
  /\ UNCHANGED <<outside, quantumVars, rung, pc>>

\* HARD_INT: transfer the ticks; test next_alarm.
HardInt ==
  /\ pc = "hardint" /\ Transfer
  /\ pc' = IF next_alarm' <= 0 THEN "tick" ELSE "quantum"
  /\ UNCHANGED <<outside, quantumVars, rung>>

\* do_clocktick(): start computing the next alarm.
TickReset ==
  /\ pc = "tick" /\ pc' = "ring" /\ next_alarm' = LONG_MAX
  /\ UNCHANGED <<outside, quantumVars, p_alarm, pending_ticks, rung>>

\* Mutant: an alarm that is due at the next tick goes off with the others.
Due_Early == {p \in Alarmed : p_alarm[p] <= 1}

Due == {p \in Alarmed : p_alarm[p] <= 0}

\* Mutant: SYN_ALRM is left to find the entry by itself.
cause_alarm_NoWake(S) ==
  syn_table' = syn_table \cup S /\ UNCHANGED <<syn, syn_al_alive>>

\* cause_alarm(): note the server in syn_table, and wake SYN_ALRM if it sleeps.
cause_alarm(S) ==
  /\ syn_table' = syn_table \cup S
  /\ syn' = IF S # {} /\ ~syn_al_alive THEN "ready" ELSE syn
  /\ UNCHANGED syn_al_alive

\* do_clocktick(): the scan of the process table.  A user gets SIGALRM, a task
\* its watchdog call, a server its CLOCK_INT by way of SYN_ALRM.
RingAlarms ==
  /\ pc = "ring" /\ pc' = "quantum"
  /\ p_alarm' = [p \in Alarmed |-> IF p \in Due THEN Off ELSE p_alarm[p]]
  /\ next_alarm' = Earliest(p_alarm')
  /\ rung' = Due \ Sync
  /\ cause_alarm(Due \cap Sync)
  /\ UNCHANGED <<queueVars, quantumVars, userVars, pending_ticks, bill_ptr, races,
                 int_blocked, req, busy>>

AfterCount(n) == pc' = IF n = 0 THEN "expire" ELSE "shadow"

\* do_clocktick(): --sched_ticks == 0, as one instruction.
CountDown ==
  /\ pc = "quantum" /\ sched_ticks' = sched_ticks - 1 /\ AfterCount(sched_ticks')
  /\ rung' = {}
  /\ UNCHANGED <<outside, p_alarm, next_alarm, pending_ticks, prev_ptr, loaded>>

\* The same as a load and a store, with room for an interrupt in between.
CountLoad ==
  /\ pc = "quantum" /\ loaded' = sched_ticks /\ pc' = "store"
  /\ rung' = {}
  /\ UNCHANGED <<outside, p_alarm, next_alarm, pending_ticks, sched_ticks, prev_ptr>>

CountStore ==
  /\ pc = "store" /\ sched_ticks' = loaded - 1 /\ loaded' = 0 /\ AfterCount(sched_ticks')
  /\ UNCHANGED <<outside, alarmVars, prev_ptr>>

\* Mutant: the counter is not set again.
Expire_NoReset ==
  /\ pc = "expire" /\ pc' = "shadow"
  /\ USER_Q' = IF bill_ptr = prev_ptr THEN sched(USER_Q) ELSE USER_Q
  /\ prev_ptr' = bill_ptr
  /\ UNCHANGED <<alarmVars, synVars, userVars, sched_ticks, loaded, SHADOW_Q, shadow,
                 flipwait, bill_ptr, races, int_blocked, req, busy>>

\* do_clocktick(): the quantum is over.
Expire ==
  /\ pc = "expire" /\ pc' = "shadow"
  /\ USER_Q' = IF bill_ptr = prev_ptr THEN sched(USER_Q) ELSE USER_Q
  /\ sched_ticks' = SCHED_RATE /\ prev_ptr' = bill_ptr
  /\ UNCHANGED <<alarmVars, synVars, userVars, loaded, SHADOW_Q, shadow, flipwait,
                 bill_ptr, races, int_blocked, req, busy>>

\* do_clocktick(): exchange a shadow, if one is ready; then the next receive.
TickEnd ==
  /\ pc = "shadow"
  /\ IF SHADOW_Q # << >> THEN unshadow ELSE UNCHANGED queueVars
  /\ Receive(req, USER_Q')
  /\ UNCHANGED <<alarmVars, quantumVars, synVars, userVars, races, req, busy>>

ClockStep ==
  \/ do_setalarm \/ ResetNext \/ common_setalarm
  \/ HardInt \/ TickReset \/ RingAlarms
  \/ CountDown \/ CountLoad \/ CountStore \/ Expire \/ TickEnd

-----------------------------------------------------------------------------
(***************************************************************************)
(* The synchronous alarm task.  It runs from one blocking call to the      *)
(* next without another process in between.                                *)
(***************************************************************************)
\* No process executes code of a task: CLOCK waits, or has not begun yet.
BetweenTasks == pc \in {"receive", "hardint", "request"}

\* syn_alrm_task(): scan syn_table for a server to send to; sleep when there is
\* none.  The flag is set again as soon as the message of CLOCK is received.
SynRun ==
  /\ syn = "ready" /\ BetweenTasks
  /\ \/ \E s \in syn_table :
          syn' = s /\ syn_table' = syn_table \ {s} /\ syn_al_alive' = TRUE
     \/ syn_table = {} /\ syn' = "receive" /\ syn_al_alive' = FALSE /\ UNCHANGED syn_table
  /\ UNCHANGED <<clockVars, queueVars, userVars, bill_ptr, req, busy>>

\* The server comes back to receive(ANY) and gets the CLOCK_INT.
ServerReceives(s) ==
  /\ syn = s /\ pc = "receive" /\ req.p # s
  /\ syn' = "ready"
  /\ UNCHANGED <<clockVars, queueVars, userVars, syn_al_alive, syn_table, bill_ptr, req,
                 busy>>

-----------------------------------------------------------------------------
(***************************************************************************)
(* The processes that use the clock                                        *)
(***************************************************************************)
\* MM (for a user), a driver or a server asks CLOCK for an alarm and waits.  Only
\* a task can run, and ask, when CLOCK is ready.
SetAlarm(p, d) ==
  /\ req = NoReq
  /\ \/ pc = "receive" /\ syn # "ready"
     \/ pc = "hardint" /\ p \in Watched
  /\ req' = [p |-> p, d |-> d]
  /\ pc' = IF pc = "receive" THEN "request" ELSE pc
  /\ UNCHANGED <<alarmVars, queueVars, quantumVars, synVars, userVars, bill_ptr, races,
                 int_blocked, busy>>

\* SYSTASK, do_xit() and do_exec(): the alarm is off, next_alarm stays.
Cancel(u) ==
  /\ BetweenTasks /\ req.p # u /\ p_alarm[u] # Off
  /\ p_alarm' = [p_alarm EXCEPT ![u] = Off]
  /\ UNCHANGED <<outside, quantumVars, next_alarm, pending_ticks, rung, pc>>

\* SYSTASK, do_fork(): c, whose slot was free, gets a copy of the parent's
\* p_alarm.
Fork(u, c) ==
  /\ BetweenTasks /\ {u, c} \cap {req.p} = {} /\ u # c
  /\ p_alarm[u] # Off /\ p_alarm[c] = Off
  /\ p_alarm' = [p_alarm EXCEPT ![c] = p_alarm[u]]
  /\ UNCHANGED <<outside, quantumVars, next_alarm, pending_ticks, rung, pc>>

\* The running user waits for something, perhaps for a transfer to or from its
\* memory; a server runs.
Block(u, io) ==
  /\ pc = "receive" /\ syn # "ready" /\ ~busy /\ bill_ptr = u /\ events < MaxEvents
  /\ USER_Q' = Unlink(USER_Q, u) /\ busy' = TRUE /\ events' = events + 1
  /\ physio' = IF io THEN physio \cup {u} ELSE physio
  /\ UNCHANGED <<clockVars, synVars, SHADOW_Q, shadow, flipwait, bill_ptr, req>>

\* The transfer ends; the driver has run.
EndIO(u) ==
  /\ BetweenTasks /\ u \in physio /\ physio' = physio \ {u} /\ busy' = TRUE
  /\ UNCHANGED <<clockVars, queueVars, synVars, events, bill_ptr, req>>

\* A server, or a task, makes u ready.
Wake(u) ==
  /\ BetweenTasks /\ busy /\ ~Queued(u) /\ u \notin physio
  /\ ready(u)
  /\ UNCHANGED <<clockVars, synVars, userVars, shadow, flipwait, bill_ptr, req, busy>>

\* Some other interrupt makes a driver, and then perhaps a server, ready.
DeviceInterrupt ==
  /\ ~busy /\ busy' = TRUE /\ events < MaxEvents /\ events' = events + 1
  /\ UNCHANGED <<clockVars, queueVars, synVars, physio, bill_ptr, req>>

\* The servers and tasks block again; a user gets the processor.
Dispatch ==
  /\ pc = "receive" /\ syn # "ready" /\ (busy \/ bill_ptr # Billed(USER_Q))
  /\ busy' = FALSE /\ bill_ptr' = Billed(USER_Q)
  /\ UNCHANGED <<clockVars, queueVars, synVars, userVars, req>>

Init ==
  /\ p_alarm = [p \in Alarmed |-> Off] /\ next_alarm = LONG_MAX /\ pending_ticks = 0
  /\ sched_ticks = SCHED_RATE /\ prev_ptr = IDLE /\ bill_ptr = IDLE /\ loaded = 0
  /\ USER_Q = << >> /\ SHADOW_Q = << >> /\ shadow = Sharers \ {FirstOwner} /\ physio = {}
  /\ flipwait = FLIPWAIT /\ pc = "receive" /\ races = 0 /\ int_blocked = FALSE /\ req = NoReq
  /\ busy = (Users # {}) /\ syn = "receive" /\ syn_al_alive = FALSE /\ syn_table = {}
  /\ rung = {} /\ events = 0

Next ==
  \/ clock_handler \/ ClockStep \/ TimeCall \/ SynRun
  \/ \E s \in Sync : ServerReceives(s)
  \/ \E p \in Alarmed, d \in 0 .. MaxDelta : SetAlarm(p, d)
  \/ \E u \in AlarmUsers : \/ Cancel(u)
                           \/ \E c \in AlarmUsers : Fork(u, c)
  \/ \E u \in Users : EndIO(u) \/ Wake(u) \/ \E io \in BOOLEAN : Block(u, io)
  \/ DeviceInterrupt \/ Dispatch

\* The timer ticks for ever; a ready task runs, and so does a ready server once
\* no task is; inet comes back to its receive; a transfer ends.
Fairness ==
  /\ SF_vars(clock_handler) /\ WF_vars(ClockStep) /\ SF_vars(SynRun) /\ SF_vars(Dispatch)
  /\ \A s \in Sync : SF_vars(ServerReceives(s))
  /\ SF_vars(\E u \in Users : EndIO(u))

Spec == Init /\ [][Next]_vars /\ Fairness

-----------------------------------------------------------------------------
(***************************************************************************)
(* Properties                                                              *)
(***************************************************************************)
\* next_alarm is never later than an alarm that is set, though exit, exec and
\* fork change p_alarm behind the back of the clock task.
NextAlarmEarly ==
  pc \notin Computing =>
    \A p \in Alarmed : p_alarm[p] # Off => next_alarm <= p_alarm[p]

\* The clock task never blocks in the send to SYN_ALRM: when syn_al_alive is
\* off, SYN_ALRM is in its receive.
ClockNeverBlocks ==
  pc = "ring" /\ Due \cap Sync # {} /\ ~syn_al_alive => syn = "receive"

\* What the clock task knows when it does not compute: AlarmsServed rests on it.
AlarmsSound == TypeOK /\ NextAlarmEarly /\ ClockNeverBlocks

\* The race of clock_handler() and do_clocktick() for sched_ticks does no lasting
\* harm: whenever the clock task is back in its receive, a quantum is running.
QuantumRestored == pc = "receive" => sched_ticks \in 1 .. SCHED_RATE

\* The run queues are well formed (TypeOK), and the quantum outlives the race.
SchedSound == TypeOK /\ QuantumRestored

\* An image is not moved while a device transfers to or from it.
ImagePinned ==
  [][\A u \in physio \cap physio' : u \in shadow <=> u \in shadow']_vars

\* A synchronous alarm that went off reaches its server, also when it goes off
\* while SYN_ALRM is sending.
SyncDelivered ==
  \A s \in Sync : (s \in syn_table ~> syn = s) /\ (syn = s ~> syn # s)

\* Once the users only compute and the devices are quiet, each ready user gets
\* the processor again and again.
FairShare == \A u \in Users : Contains(USER_Q, u) ~> (bill_ptr = u \/ ~Contains(USER_Q, u))

\* A ready shadow is moved in, transfers of the owner notwithstanding.
ShadowsRun == \A u \in Users : Contains(SHADOW_Q, u) ~> ~Contains(SHADOW_Q, u)

\* The alarms of the clock task are those of AlarmClock: never early, once, and
\* in the end (realtime lags behind by pending_ticks).
AC == INSTANCE AlarmClock WITH
  left <- [p \in Alarmed |-> IF p_alarm[p] = Off THEN MaxDelta + 1
                             ELSE Max({0, p_alarm[p] - pending_ticks})],
  rung <- rung \cup syn_table \cup ({syn} \cap Sync)
AlarmsServed == AC!Spec
=============================================================================
