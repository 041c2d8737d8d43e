------------------------------- MODULE Kernel -------------------------------
(***************************************************************************)
(* The process layer of the kernel: message passing, scheduling, held and  *)
(* blocked interrupts (kernel/proc.c), kernel signals and the kernel calls *)
(* that change a process' runnability (kernel/system.c), and the sharing   *)
(* of one memory slot by forked images (kernel/stshadow.c).                *)
(*                                                                         *)
(* The whole process table is one record, k; every C function that changes *)
(* it is an operator from one record to the next, so that a handler that   *)
(* calls three functions is the composition of three operators.  The       *)
(* actions are the entries into the kernel: a trap by the running process, *)
(* a step of the task that runs, an interrupt.  A task is never preempted  *)
(* by another process, hence one step per call it makes.                   *)
(*                                                                         *)
(* Message contents are left out; who waits for whom is what matters here. *)
(***************************************************************************)
EXTENDS Integers, FiniteSets, SequencesExt

CONSTANTS
  NR_TASKS,     \* number of task slots, HARDWARE and IDLE included
  NR_PROCS,     \* number of slots for MM, FS and the users
  Sig,          \* the signals of this instance
  SIGSTKFLT,    \* stack fault: MM does not report the end of this one
  SIGTRAP,      \* sent to a traced process at EXEC
  Slots,        \* memory slots for user images, a set of positive numbers
  Talks,        \* pairs <<c, d>>: task or server c makes calls to d
  MaxPending,   \* bound on p_pendcount
  Driver,       \* the tasks that own an interrupt
  Calls         \* the kinds of kernel call and event of this instance

(***************************************************************************)
(* Process numbers, as in com.h and const.h.                               *)
(***************************************************************************)
HARDWARE == -1
SYSTASK  == -2
CLOCK    == -3
IDLE     == -4
MM       == 0
FS       == 1
LOW_USER == 2
ANY      == NR_PROCS + 100

Proc   == (-NR_TASKS) .. (NR_PROCS - 1)
Task   == {p \in Proc : p < 0} \ {IDLE, HARDWARE}
Server == {MM, FS}
User   == LOW_USER .. (NR_PROCS - 1)

istaskp(p)      == p < 0 /\ p # IDLE
isuserp(p)      == p >= LOW_USER
isrxhardware(n) == n \in {ANY, HARDWARE}
issysentn(n)    == n \in {FS, MM}

Flag == {"P_SLOT_FREE", "SENDING", "RECEIVING", "PENDING", "SIG_PENDING",
         "P_STOP"}

TASK_Q   == 0
SERVER_Q == 1
USER_Q   == 2
SHADOW_Q == 3
Queue    == {TASK_Q, SERVER_Q, USER_Q, SHADOW_Q}

\* What the kernel can panic with.
Panic == {"none", "no shadow?", "only shadow(s)", "physio"}

CallKinds == {"fork", "exec", "xit", "trace", "kill", "trap", "tasksig", "tick",
              "hold"}

ASSUME SizeAssumption ==
  /\ NR_TASKS \in Nat /\ NR_TASKS >= 4
  /\ NR_PROCS \in Nat /\ NR_PROCS > LOW_USER
ASSUME SigAssumption  == SIGSTKFLT \in Sig /\ SIGTRAP \in Sig /\ SIGSTKFLT # SIGTRAP
ASSUME SigFinite      == IsFiniteSet(Sig)
ASSUME SlotAssumption == Slots \subseteq Nat \ {0} /\ 1 \in Slots
ASSUME TalksAssumption ==
  Talks \subseteq {t \in (Task \cup Server) \X (Task \cup Server) : t[1] # t[2]}
ASSUME BoundAssumption == MaxPending \in Nat
ASSUME DriverAssumption == Driver \subseteq Task \ {SYSTASK}
ASSUME CallsAssumption == Calls \subseteq CallKinds

VARIABLES
  k,           \* the process table and the scheduling queues
  unholding,   \* restart() is flushing the held interrupts
  alloc,       \* ghost: memory slots MM has handed out to user images
  stopped      \* ghost: the processes that are STOPPED for MM

vars == <<k, unholding, alloc, stopped>>

-----------------------------------------------------------------------------
(***************************************************************************)
(* Scheduling                                                              *)
(***************************************************************************)
isshadowp(s, p) == p \in User /\ s.shadow[p] # 0

\* The linked lists of the process table as sequences: insertion at the head,
\* and removal by position or by value (no change if p is not there).
Push(p, q) == [j \in 1 .. Len(q) + 1 |-> IF j = 1 THEN p ELSE q[j - 1]]
UnlinkAt(q, i) == [j \in 1 .. Len(q) - 1 |-> IF j < i THEN q[j] ELSE q[j + 1]]
Unlink(q, p) ==
  IF Contains(q, p) THEN UnlinkAt(q, CHOOSE i \in DOMAIN q : q[i] = p) ELSE q

\* Mutant: shadows are queued with the users in place.
QueueOf_NoShadow(s, p) ==
  IF istaskp(p) THEN TASK_Q ELSE IF ~isuserp(p) THEN SERVER_Q ELSE USER_Q

\* The ready queue that ready() and unready() choose for p.
QueueOf(s, p) ==
  IF istaskp(p) THEN TASK_Q
  ELSE IF ~isuserp(p) THEN SERVER_Q
  ELSE IF isshadowp(s, p) THEN SHADOW_Q ELSE USER_Q

pick_proc(s) ==
  IF s.rdy[TASK_Q] # << >>
  THEN [s EXCEPT !.proc_ptr = Head(s.rdy[TASK_Q])]
  ELSE IF s.rdy[SERVER_Q] # << >>
  THEN [s EXCEPT !.proc_ptr = Head(s.rdy[SERVER_Q])]
  ELSE LET p == IF s.rdy[USER_Q] # << >> THEN Head(s.rdy[USER_Q]) ELSE IDLE
       IN  [s EXCEPT !.proc_ptr = p, !.bill_ptr = p]

\* A user goes to the head of USER_Q, everyone else to the tail; the first
\* ready task runs next.
ready(s, p) ==
  LET q == QueueOf(s, p)
  IN  [s EXCEPT !.rdy[q] = IF q = USER_Q THEN Push(p, @) ELSE Append(@, p),
                !.proc_ptr = IF q = TASK_Q /\ s.rdy[q] = << >> THEN p ELSE @]

\* Take p off its queue, if it is there; choose anew only if p was running.
unready(s, p) ==
  LET q == QueueOf(s, p)
      t == [s EXCEPT !.rdy[q] = Unlink(@, p)]
  IN  IF s.rdy[q] # << >> /\ Head(s.rdy[q]) = p /\ s.proc_ptr = p
      THEN pick_proc(t)
      ELSE t

sched(s) ==
  IF s.rdy[USER_Q] = << >>
  THEN s
  ELSE pick_proc([s EXCEPT !.rdy[USER_Q] = Append(UnlinkAt(@, 1), Head(@))])

\* p_flags gains or loses bits, and the queues follow: "if (p_flags == 0)
\* unready" before setting bits, "if (p_flags == 0) ready" after clearing.
Block(s, p, bits) ==
  LET t == IF s.flags[p] = {} THEN unready(s, p) ELSE s
  IN  [t EXCEPT !.flags[p] = @ \cup bits]

\* p_getfrom and p_sendto are read only while RECEIVING or SENDING is set;
\* here they return to their initial value when the flag is cleared, so that
\* stale values do not tell states apart.
Clear(s, p, bits) ==
  [s EXCEPT !.flags[p] = @ \ bits,
            !.getfrom[p] = IF "RECEIVING" \in bits THEN ANY ELSE @,
            !.sendto[p] = IF "SENDING" \in bits THEN HARDWARE ELSE @]

\* Mutant: ready() without looking at the flags that are left.
Release_Always(s, p, bits) == ready(Clear(s, p, bits), p)

Release(s, p, bits) ==
  LET t == Clear(s, p, bits)
  IN  IF t.flags[p] = {} THEN ready(t, p) ELSE t

-----------------------------------------------------------------------------
(***************************************************************************)
(* Message passing.  The bounds check of the message buffer (EFAULT) is    *)
(* left out: it precedes every change of state.                            *)
(***************************************************************************)
\* d is blocked in receive() and would take a message from c now.
Accepts(s, d, c) ==
  /\ "RECEIVING" \in s.flags[d] /\ "SENDING" \notin s.flags[d]
  /\ s.getfrom[d] \in {ANY, c}

\* The walk along p_sendto that starts at d comes by the caller c.
Locked(s, c, d) ==
  LET walk[n \in 0 .. NR_TASKS + NR_PROCS] ==
        IF n = 0 THEN d
        ELSE IF "SENDING" \in s.flags[walk[n - 1]] THEN s.sendto[walk[n - 1]]
        ELSE walk[n - 1]
  IN  /\ "SENDING" \in s.flags[d]
      /\ \E n \in 1 .. NR_TASKS + NR_PROCS : walk[n] = c

\* Mutant: no deadlock check.
send_result_NoCheck(s, c, d) ==
  IF (isuserp(c) /\ ~issysentn(d)) \/ "P_SLOT_FREE" \in s.flags[d] THEN "E_BAD_DEST" ELSE "OK"

send_result(s, c, d) ==
  IF isuserp(c) /\ ~issysentn(d) THEN "E_BAD_DEST"
  ELSE IF "P_SLOT_FREE" \in s.flags[d] THEN "E_BAD_DEST"
  ELSE IF Locked(s, c, d) THEN "ELOCKED"
  ELSE "OK"

\* mini_send() once its checks have passed: hand over, or block and queue.
mini_send(s, c, d) ==
  IF Accepts(s, d, c)
  THEN Release(s, d, {"RECEIVING"})
  ELSE [Block(s, c, {"SENDING"}) EXCEPT !.sendto[c] = d,
                                        !.callerq[d] = Append(@, c)]

\* The process inform() reports: the first of the table with PENDING.
Informed(s) ==
  CHOOSE p \in 0 .. NR_PROCS - 1 :
    /\ "PENDING" \in s.flags[p]
    /\ \A q \in 0 .. p - 1 : "PENDING" \notin s.flags[q]

CanInform(s) == \E p \in 0 .. NR_PROCS - 1 : "PENDING" \in s.flags[p]

\* One signal of p is over: MM said so, or it is a stack fault.
EndOne(s, p) ==
  IF s.pendcount[p] = 0 THEN s
  ELSE LET t == [s EXCEPT !.pendcount[p] = @ - 1]
       IN  IF t.pendcount[p] = 0 THEN Release(t, p, {"SIG_PENDING"}) ELSE t

inform(s) ==
  IF ~CanInform(s) THEN s
  ELSE LET p == Informed(s)
           t == mini_send([s EXCEPT !.sig_procs = @ - 1], HARDWARE, MM)
           u == [t EXCEPT !.pending[p] = {}, !.flags[p] = @ \ {"PENDING"},
                          !.court[p] = @ + Cardinality(s.pending[p] \ {SIGSTKFLT})]
       IN  pick_proc(IF SIGSTKFLT \in s.pending[p] THEN EndOne(u, p) ELSE u)

\* Mutant: receive(ANY) does not look at the caller queue.
Acceptable_Named(s, c, src) == {i \in 1 .. Len(s.callerq[c]) : src = s.callerq[c][i]}

\* Positions of c's caller queue with a message c would take from src.
Acceptable(s, c, src) ==
  {i \in 1 .. Len(s.callerq[c]) : src = ANY \/ src = s.callerq[c][i]}

\* Mutants: the head of the caller queue is unlinked, not the sender that was
\* found; a blocked interrupt is overlooked; MM is not informed.
mini_rec_Head(s, c, src) ==
  LET from == Acceptable(s, c, src)
      i == CHOOSE j \in from : \A l \in from : j <= l
  IN  IF "SENDING" \notin s.flags[c] /\ from # {}
      THEN Release([s EXCEPT !.callerq[c] = UnlinkAt(@, 1)],
                   s.callerq[c][i], {"SENDING"})
      ELSE IF "SENDING" \notin s.flags[c] /\ c \in s.int_blocked /\ isrxhardware(src)
      THEN [s EXCEPT !.int_blocked = @ \ {c}]
      ELSE [Block(s, c, {"RECEIVING"}) EXCEPT !.getfrom[c] = src]
mini_rec_NoBlocked(s, c, src) ==
  LET from == Acceptable(s, c, src)
      i == CHOOSE j \in from : \A l \in from : j <= l
      t == [Block(s, c, {"RECEIVING"}) EXCEPT !.getfrom[c] = src]
  IN  IF "SENDING" \notin s.flags[c] /\ from # {}
      THEN Release([s EXCEPT !.callerq[c] = UnlinkAt(@, i)],
                   s.callerq[c][i], {"SENDING"})
      ELSE IF s.sig_procs > 0 /\ c = MM /\ src = ANY THEN inform(t) ELSE t
mini_rec_NoInform(s, c, src) ==
  LET from == Acceptable(s, c, src)
      i == CHOOSE j \in from : \A l \in from : j <= l
  IN  IF "SENDING" \notin s.flags[c] /\ from # {}
      THEN Release([s EXCEPT !.callerq[c] = UnlinkAt(@, i)],
                   s.callerq[c][i], {"SENDING"})
      ELSE IF "SENDING" \notin s.flags[c] /\ c \in s.int_blocked /\ isrxhardware(src)
      THEN [s EXCEPT !.int_blocked = @ \ {c}]
      ELSE [Block(s, c, {"RECEIVING"}) EXCEPT !.getfrom[c] = src]

mini_rec(s, c, src) ==
  LET from == Acceptable(s, c, src)
      i == CHOOSE j \in from : \A l \in from : j <= l
      t == [Block(s, c, {"RECEIVING"}) EXCEPT !.getfrom[c] = src]
  IN  IF "SENDING" \notin s.flags[c] /\ from # {}
      THEN Release([s EXCEPT !.callerq[c] = UnlinkAt(@, i)],
                   s.callerq[c][i], {"SENDING"})
      ELSE IF "SENDING" \notin s.flags[c] /\ c \in s.int_blocked /\ isrxhardware(src)
      THEN [s EXCEPT !.int_blocked = @ \ {c}]
      ELSE IF s.sig_procs > 0 /\ c = MM /\ src = ANY THEN inform(t) ELSE t

\* The trap of the running process: function is SEND, RECEIVE or BOTH.
sys_call(s, function, src_dest) ==
  LET c == s.proc_ptr
      sent == mini_send(s, c, src_dest)
  IN  IF isuserp(c) /\ function # "BOTH" THEN s
      ELSE IF function = "RECEIVE" THEN mini_rec(s, c, src_dest)
      ELSE IF src_dest = ANY \/ send_result(s, c, src_dest) # "OK" THEN s
      ELSE IF function = "SEND" THEN sent
      ELSE mini_rec(sent, c, src_dest)

-----------------------------------------------------------------------------
(***************************************************************************)
(* Interrupts                                                              *)
(***************************************************************************)
\* interrupt() while the kernel or a lock_*() gateway is switching.
hold(s, t) ==
  IF Contains(s.held, t) THEN s ELSE [s EXCEPT !.held = Append(@, t)]

\* Mutant: a task that is woken while no task runs does not preempt.
interrupt_NoPreempt(s, t) ==
  IF "RECEIVING" \in s.flags[t] /\ "SENDING" \notin s.flags[t]
     /\ isrxhardware(s.getfrom[t])
  THEN [Clear(s, t, {"RECEIVING"}) EXCEPT !.int_blocked = @ \ {t},
                                          !.rdy[TASK_Q] = Append(@, t)]
  ELSE [s EXCEPT !.int_blocked = @ \cup {t}]

\* interrupt() otherwise: wake the task, or record the blockage.
interrupt(s, t) ==
  IF "RECEIVING" \in s.flags[t] /\ "SENDING" \notin s.flags[t]
     /\ isrxhardware(s.getfrom[t])
  THEN [Clear(s, t, {"RECEIVING"}) EXCEPT
                 !.int_blocked = @ \ {t},
                 !.rdy[TASK_Q] = Append(@, t),
                 !.proc_ptr = IF s.rdy[TASK_Q] = << >> THEN t ELSE @]
  ELSE [s EXCEPT !.int_blocked = @ \cup {t}]

\* One round of the loop in unhold().
unhold(s) == interrupt([s EXCEPT !.held = Tail(@)], Head(s.held))

-----------------------------------------------------------------------------
(***************************************************************************)
(* Shadowing.  Without relocation hardware a forked image must run at its  *)
(* parent's address, core[p].  Of the processes that share it one is in    *)
(* place (shadow[p] = 0); the others keep their image in a slot of their   *)
(* own and wait in SHADOW_Q until their images are exchanged.              *)
(***************************************************************************)
Live(s)       == {p \in User : "P_SLOT_FREE" \notin s.flags[p]}
Sharers(s, p) == {q \in Live(s) \ {p} : s.core[q] = s.core[p]}
First(S)      == CHOOSE p \in S : \A q \in S : p <= q

\* q gets value v for p_shadow, changing queues if it is ready.
SetShadow(s, q, v) ==
  LET t == IF s.flags[q] = {} THEN unready(s, q) ELSE s
      u == [t EXCEPT !.shadow[q] = v]
  IN  IF s.flags[q] = {} THEN ready(u, q) ELSE u

\* Mutant: the slot that the sharer moves into is reported as free.
Freed_Own(s, p) == IF s.shadow[p] # 0 THEN s.shadow[p] ELSE s.core[p]

\* The slot that rmshadow(p) reports as free ...
Freed(s, p) ==
  IF s.shadow[p] # 0 THEN s.shadow[p]
  ELSE IF Sharers(s, p) # {} THEN s.shadow[First(Sharers(s, p))]
  ELSE s.core[p]

\* ... and what it does to the table: the first sharer moves in.  It cannot
\* be moved if it is busy: a device transfers to or from it (p_physio).
rmshadow(s, p, busy) ==
  IF s.shadow[p] # 0 THEN [s EXCEPT !.shadow[p] = 0]
  ELSE IF Sharers(s, p) = {} THEN s
  ELSE IF s.shadow[First(Sharers(s, p))] = 0 THEN [s EXCEPT !.panic = "no shadow?"]
  ELSE IF busy THEN [s EXCEPT !.panic = "physio"]
  ELSE SetShadow(s, First(Sharers(s, p)), 0)

\* p and the process in place exchange images.
unshadow(s, p) ==
  LET owners == {q \in Sharers(s, p) : s.shadow[q] = 0}
      q == First(owners)
      t == unready(s, p)
      u == IF s.flags[q] = {} THEN unready(t, q) ELSE t
      v == ready([u EXCEPT !.shadow[q] = s.shadow[p], !.shadow[p] = 0], p)
  IN  IF owners = {} THEN [s EXCEPT !.panic = "only shadow(s)"]
      ELSE IF s.flags[q] = {} THEN ready(v, q) ELSE v

-----------------------------------------------------------------------------
(***************************************************************************)
(* Kernel signals and kernel calls                                         *)
(***************************************************************************)

cause_sig(s, p, sig) ==
  LET t == [s EXCEPT !.pending[p] = @ \cup {sig}, !.pendcount[p] = @ + 1]
      u == [Block(t, p, {"PENDING", "SIG_PENDING"}) EXCEPT !.sig_procs = @ + 1]
  IN  IF sig \in s.pending[p] THEN s
      ELSE IF "PENDING" \in s.flags[p] THEN t
      ELSE IF "RECEIVING" \in u.flags[MM] /\ u.getfrom[MM] = ANY THEN inform(u)
      ELSE u

\* The child's entry is a copy of the parent's; mkshadow() then moves the
\* parent out to slot v, so that the child runs first.
do_fork(s, p, c, v) ==
  [s EXCEPT !.flags[c]     = s.flags[p] \ {"PENDING", "SIG_PENDING", "P_STOP"},
            !.callerq[c]   = s.callerq[p],
            !.getfrom[c]   = s.getfrom[p],
            !.sendto[c]    = s.sendto[p],
            !.pending[c]   = {},
            !.pendcount[c] = 0,
            !.core[c]      = s.core[p],
            !.shadow       = [@ EXCEPT ![c] = s.shadow[p], ![p] = v]]

\* EXEC moves p to slot v, at its own address.
do_fresh(s, p, v, busy) == [rmshadow(s, p, busy) EXCEPT !.core[p] = v]

do_exec(s, p, traced) ==
  Release(IF traced THEN cause_sig(s, p, SIGTRAP) ELSE s, p, {"RECEIVING"})

\* Mutant: the exit of a process with signals is counted if SIG_PENDING is set.
do_xit_SigPending(s, p, busy) ==
  LET t == rmshadow(IF s.flags[p] = {} THEN unready(s, p) ELSE s, p, busy)
      u == IF "SENDING" \in s.flags[p]
           THEN [t EXCEPT !.callerq = [d \in Proc |-> Unlink(@[d], p)]]
           ELSE t
  IN  [Clear(u, p, Flag) EXCEPT
                !.sig_procs = IF "SIG_PENDING" \in s.flags[p] THEN @ - 1 ELSE @,
                !.pending[p] = {}, !.pendcount[p] = 0, !.court[p] = 0,
                !.core[p] = 1, !.flags[p] = {"P_SLOT_FREE"}]

\* (The map of a free slot is never read; core[p] returns to its initial
\* value.)
do_xit(s, p, busy) ==
  LET t == rmshadow(IF s.flags[p] = {} THEN unready(s, p) ELSE s, p, busy)
      u == IF "SENDING" \in s.flags[p]
           THEN [t EXCEPT !.callerq = [d \in Proc |-> Unlink(@[d], p)]]
           ELSE t
  IN  [Clear(u, p, Flag) EXCEPT
                !.sig_procs = IF "PENDING" \in s.flags[p] THEN @ - 1 ELSE @,
                !.pending[p] = {}, !.pendcount[p] = 0, !.court[p] = 0,
                !.core[p] = 1, !.flags[p] = {"P_SLOT_FREE"}]

do_endsig(s, p) == EndOne([s EXCEPT !.court[p] = @ - 1], p)

do_trace(s, p, request) ==
  IF "P_SLOT_FREE" \in s.flags[p] THEN s
  ELSE IF request = "T_STOP" THEN Block(s, p, {"P_STOP"})
  ELSE Release(s, p, {"P_STOP"})

\* The tick of the clock task: p's alarm goes off (p = IDLE: nobody's), the
\* quantum is over, the first shadow moves in.  It does not (flip is FALSE)
\* while flipwait counts down from the last exchange or a device transfers
\* data to or from one of the two images (p_physio): unshadow() returns.
do_clocktick(s, p, sig, expired, flip) ==
  LET t == IF p = IDLE THEN s ELSE cause_sig(s, p, sig)
      u == IF expired THEN sched(t) ELSE t
  IN  IF flip /\ u.rdy[SHADOW_Q] # << >>
      THEN unshadow(u, Head(u.rdy[SHADOW_Q]))
      ELSE u

-----------------------------------------------------------------------------
(***************************************************************************)
(* Initial state: stmain.c has readied every task but HARDWARE and IDLE,   *)
(* the servers and INIT, in the order of their numbers.                    *)
(***************************************************************************)
TasksInOrder ==
  [i \in 1 .. NR_TASKS - 2 |->
     IF i <= NR_TASKS - 4 THEN i - 1 - NR_TASKS ELSE i - NR_TASKS]

Init ==
  /\ k = [flags     |-> [p \in Proc |-> IF p <= LOW_USER THEN {} ELSE {"P_SLOT_FREE"}],
          callerq   |-> [p \in Proc |-> << >>],
          getfrom   |-> [p \in Proc |-> ANY],
          sendto    |-> [p \in Proc |-> HARDWARE],
          rdy       |-> [q \in Queue |-> CASE q = TASK_Q   -> TasksInOrder
                                          [] q = SERVER_Q -> <<MM, FS>>
                                          [] q = USER_Q   -> <<LOW_USER>>
                                          [] q = SHADOW_Q -> << >>],
          proc_ptr  |-> TasksInOrder[1],
          bill_ptr  |-> HARDWARE,
          int_blocked |-> {},
          held      |-> << >>,
          pending   |-> [p \in User |-> {}],
          pendcount |-> [p \in User |-> 0],
          court     |-> [p \in User |-> 0],
          sig_procs |-> 0,
          core      |-> [p \in User |-> 1],
          shadow    |-> [p \in User |-> 0],
          panic     |-> "none"]
  /\ unholding = FALSE
  /\ alloc = {1}
  /\ stopped = {}

-----------------------------------------------------------------------------
(***************************************************************************)
(* Actions                                                                 *)
(***************************************************************************)
Running(p) == ~unholding /\ k.panic = "none" /\ k.proc_ptr = p

\* Bound: no more signals for p than MaxPending at a time.
MaySignal(p) == k.pendcount[p] < MaxPending

\* panic() does not return: the table is left as it was.
Halting(s, t) == IF t.panic = "none" THEN t ELSE [s EXCEPT !.panic = t.panic]

\* Every return from the kernel goes through restart(), which starts to
\* flush the held interrupts if there are any.
Restart == unholding' = (k'.held # << >>)

\* What is relied on of a caller.  A user may try anything.  A task or a
\* server receives, calls those it talks to and never itself, and sends to
\* a user only the answer that user waits for (or finds the slot free).
Trusted(c, function, d) ==
  \/ isuserp(c)
  \/ <<c, d>> \in Talks
  \/ function = "RECEIVE" /\ d = ANY
  \/ function = "RECEIVE" /\ d = HARDWARE /\ istaskp(c)
  \/ /\ function = "SEND" /\ d \in User
     /\ \/ "P_SLOT_FREE" \in k.flags[d]
        \/ Accepts(k, d, c) /\ k.getfrom[d] = c

SysCall ==
  \E function \in {"SEND", "RECEIVE", "BOTH"}, d \in Proc \cup {ANY} :
    /\ Running(k.proc_ptr) /\ k.proc_ptr # IDLE
    /\ Trusted(k.proc_ptr, function, d)
    /\ k' = sys_call(k, function, d)
    /\ Restart
    /\ UNCHANGED <<alloc, stopped>>

Interrupt ==
  \E t \in Driver :
    /\ Running(k.proc_ptr)
    /\ k' = interrupt(k, t)
    /\ Restart
    /\ UNCHANGED <<alloc, stopped>>

\* An interrupt inside a lock_*() gateway of a task, or inside unhold().
HoldInterrupt ==
  \E t \in Driver :
    /\ "hold" \in Calls /\ k.panic = "none" /\ (unholding \/ istaskp(k.proc_ptr))
    /\ k' = hold(k, t)
    /\ UNCHANGED <<unholding, alloc, stopped>>

Unhold ==
  /\ unholding /\ k.panic = "none"
  /\ k' = unhold(k)
  /\ Restart
  /\ UNCHANGED <<alloc, stopped>>

\* An exception of the running user process.
UserTrap ==
  \E p \in User, sig \in Sig :
    /\ "trap" \in Calls /\ Running(p) /\ MaySignal(p)
    /\ k' = cause_sig(k, p, sig)
    /\ Restart
    /\ UNCHANGED <<alloc, stopped>>

\* A task, TTY for one, signals a live process.
TaskSignal ==
  \E t \in Driver, p \in Live(k), sig \in Sig \ {SIGSTKFLT} :
    /\ "tasksig" \in Calls /\ Running(t) /\ MaySignal(p)
    /\ k' = cause_sig(k, p, sig)
    /\ UNCHANGED <<unholding, alloc, stopped>>

ClockTick ==
  \E p \in Live(k) \cup {IDLE}, sig \in Sig \ {SIGSTKFLT}, expired, flip \in BOOLEAN :
    /\ "tick" \in Calls /\ Running(CLOCK) /\ (p # IDLE => MaySignal(p))
    /\ k' = do_clocktick(k, p, sig, expired, flip)
    /\ UNCHANGED <<unholding, alloc, stopped>>

(***************************************************************************)
(* The kernel calls, by the system task, while server s waits for the      *)
(* answer to its request.                                                  *)
(***************************************************************************)
Serves(s) ==
  /\ Running(SYSTASK)
  /\ "RECEIVING" \in k.flags[s] /\ "SENDING" \notin k.flags[s]
  /\ k.getfrom[s] = SYSTASK

\* p has made a call to MM that MM is working on.
InCall(p) ==
  /\ "RECEIVING" \in k.flags[p] /\ "SENDING" \notin k.flags[p]
  /\ k.getfrom[p] = MM

\* MM copies the parent's slot: STOPPED goes with it, P_STOP does not.
Fork ==
  \E p \in Live(k), c \in User \ Live(k), v \in Slots \ alloc :
    /\ "fork" \in Calls /\ Serves(MM) /\ InCall(p)
    /\ k' = do_fork(k, p, c, v)
    /\ alloc' = alloc \cup {v}
    /\ stopped' = IF p \in stopped THEN stopped \cup {c} ELSE stopped
    /\ UNCHANGED unholding

Fresh ==
  \E p \in Live(k), v \in Slots \ alloc, busy \in BOOLEAN :
    /\ "exec" \in Calls /\ Serves(MM) /\ InCall(p)
    /\ k' = Halting(k, do_fresh(k, p, v, busy))
    /\ alloc' = IF k'.panic = "none" THEN (alloc \cup {v}) \ {Freed(k, p)} ELSE alloc
    /\ UNCHANGED <<unholding, stopped>>

Exec ==
  \E p \in Live(k), traced \in BOOLEAN :
    /\ "exec" \in Calls /\ Serves(MM) /\ InCall(p) /\ (traced => MaySignal(p))
    /\ k' = do_exec(k, p, traced)
    /\ UNCHANGED <<unholding, alloc, stopped>>

Xit ==
  \E p \in Live(k), busy \in BOOLEAN :
    /\ "xit" \in Calls /\ Serves(MM) /\ p # LOW_USER
    /\ k' = Halting(k, do_xit(k, p, busy))
    /\ alloc' = IF k'.panic = "none" THEN alloc \ {Freed(k, p)} ELSE alloc
    /\ stopped' = stopped \ {p}
    /\ UNCHANGED unholding

Kill ==
  \E p \in Live(k), sig \in Sig \ {SIGSTKFLT} :
    /\ "kill" \in Calls /\ Serves(FS) /\ MaySignal(p)
    /\ k' = cause_sig(k, p, sig)
    /\ UNCHANGED <<unholding, alloc, stopped>>

EndSig ==
  \E p \in Live(k) :
    /\ Serves(MM) /\ k.court[p] > 0
    /\ k' = do_endsig(k, p)
    /\ UNCHANGED <<unholding, alloc, stopped>>

\* MM resumes what is STOPPED for it; the kernel does not ask whether P_STOP
\* is set.
Trace ==
  \E p \in Live(k), request \in {"T_STOP", "T_RESUME"} :
    /\ "trace" \in Calls /\ Serves(MM)
    /\ request = "T_RESUME" => p \in stopped
    /\ k' = do_trace(k, p, request)
    /\ stopped' = IF request = "T_STOP" THEN stopped \cup {p} ELSE stopped \ {p}
    /\ UNCHANGED <<unholding, alloc>>

\* Nothing happens after a panic.
Halted == k.panic # "none" /\ UNCHANGED vars

Next ==
  \/ SysCall \/ Interrupt \/ HoldInterrupt \/ Unhold
  \/ UserTrap \/ TaskSignal \/ ClockTick
  \/ Fork \/ Fresh \/ Exec \/ Xit \/ Kill \/ EndSig \/ Trace
  \/ Halted

Spec == Init /\ [][Next]_vars

-----------------------------------------------------------------------------
(***************************************************************************)
(* Properties                                                              *)
(***************************************************************************)
\* q lists the members of S, each once.
NoDup(q) == \A i, j \in DOMAIN q : q[i] = q[j] => i = j
Lists(q, S) == NoDup(q) /\ \A p \in Proc : Contains(q, p) <=> p \in S

Table ==
  [flags : [Proc -> SUBSET Flag], callerq : [Proc -> Seq(Proc)],
   getfrom : [Proc -> Proc \cup {ANY}], sendto : [Proc -> Proc],
   rdy : [Queue -> Seq(Proc)], proc_ptr : Proc, bill_ptr : Proc,
   int_blocked : SUBSET Task, held : Seq(Task),
   pending : [User -> SUBSET Sig], pendcount : [User -> Nat],
   court : [User -> Nat], sig_procs : Nat, core : [User -> Slots],
   shadow : [User -> Slots \cup {0}], panic : Panic]

\* Every field of the process table has its type: no count goes below zero,
\* no pointer leaves the table.
TypeOK ==
  /\ k \in Table
  /\ unholding \in BOOLEAN
  /\ alloc \subseteq Slots
  /\ stopped \subseteq User

\* "A process is runnable iff p_flags == 0" (proc.h): a process is in the
\* ready queue of its class, once, exactly while none of its flags is set,
\* and in no other queue.  HARDWARE and IDLE are in none.  This holds as long
\* as every process that is STOPPED for MM is P_STOP for the kernel, and that
\* holds as long as none is born STOPPED.  The child of a stopped process is,
\* without P_STOP, and T_RESUME queues it a second time.
StopsAgree == \A p \in stopped : "P_STOP" \in k.flags[p]
BornRunning == [][\A p \in User : "P_SLOT_FREE" \in k.flags[p] => p \notin stopped']_vars
Runnable(s) == {p \in Proc \ {HARDWARE, IDLE} : s.flags[p] = {}}
Queued(s, R) ==
  \A q \in Queue : Lists(s.rdy[q], {p \in R : QueueOf(s, p) = q})
ReadyQueues == Queued(k, Runnable(k))

\* The running process is always the first of the highest queue that is not
\* empty, IDLE if all are, and a user that runs is the one that is billed:
\* choosing again would change nothing.
Settled(s) == pick_proc(s) = s
Scheduled == Settled(k)

\* A process is queued on the process it sends to, once, exactly while it is
\* blocked sending; nobody is left behind on another queue.
Senders(s, d) == {p \in Proc : "SENDING" \in s.flags[p] /\ s.sendto[p] = d}
CallersListed(s) == \A d \in Proc : Lists(s.callerq[d], Senders(s, d))
CallerQueues == CallersListed(k)

\* No rendezvous is missed: a process that waits to receive has no sender
\* queued whose message it would take.
NoMissedRendezvous ==
  \A d \in Proc : \A i \in DOMAIN k.callerq[d] : ~Accepts(k, d, k.callerq[d][i])

\* The deadlock check works: no cycle of processes blocked sending to each
\* other (every set of senders has one that sends out of the set).
NoSendCycle ==
  LET senders == {p \in Proc : "SENDING" \in k.flags[p]}
  IN  \A S \in (SUBSET senders) \ {{}} : \E p \in S : k.sendto[p] \notin S

\* No interrupt is lost: a task does not wait for an interrupt that has been
\* recorded as blocked.
NoLostInterrupt ==
  \A t \in k.int_blocked :
    ~(/\ "RECEIVING" \in k.flags[t] /\ "SENDING" \notin k.flags[t]
      /\ isrxhardware(k.getfrom[t]))

\* MM never waits for work while the kernel has signals to tell it about.
SignalsReachMM ==
  k.sig_procs > 0 => ~("RECEIVING" \in k.flags[MM] /\ k.getfrom[MM] = ANY)

\* The counts agree with the flags: sig_procs with PENDING, p_pendcount with
\* the signals that are pending or that MM is still working on.
SigCounted(s) ==
  /\ s.sig_procs = Cardinality({p \in User : "PENDING" \in s.flags[p]})
  /\ \A p \in User :
       /\ "PENDING" \in s.flags[p] <=> s.pending[p] # {}
       /\ "SIG_PENDING" \in s.flags[p] <=> s.pendcount[p] > 0
       /\ s.pendcount[p] = Cardinality(s.pending[p]) + s.court[p]
SignalCounts == SigCounted(k)

\* The table is well formed, and no signal is counted twice or forgotten by
\* whatever raises, hands over, ends or drops it (cause_sig, inform, do_endsig,
\* do_fork, do_xit).
CountsSound == TypeOK /\ SignalCounts

\* The pseudo process HARDWARE, in whose name inform() sends, never blocks:
\* MM takes every KSIG at once.
HardwareNeverBlocks == k.flags[HARDWARE] = {}

\* Of the processes that share an address exactly one is in place, no two
\* images are in the same slot, and MM has handed out the slots in use, no
\* more (a leak) and no fewer (a slot freed while in use).  stshadow.c never
\* misses the process in place or finds two; nothing keeps it from the panic
\* over a sharer in physio.
Image(p) == IF k.shadow[p] # 0 THEN k.shadow[p] ELSE k.core[p]
ImageOwnership ==
  /\ k.panic \notin {"no shadow?", "only shadow(s)"}
  /\ \A p \in Live(k) : \E q \in Live(k) : k.core[q] = k.core[p] /\ k.shadow[q] = 0
  /\ \A p, q \in Live(k) : Image(p) = Image(q) => p = q
  /\ alloc = {Image(p) : p \in Live(k)}

\* A process whose image is not at its address never runs: the process in
\* proc_ptr is in place (restart() would run another process' memory).
RunsInPlace == k.proc_ptr \in User => k.shadow[k.proc_ptr] = 0
=============================================================================
