---------------------------- MODULE KernelProofs ----------------------------
(***************************************************************************)
(* Proofs about Kernel.  First the functions of proc.c and the kernel's    *)
(* signals: the scheduling queues, the caller queues and the flags agree,  *)
(* whichever function changes them.  Then the inductive invariant IInv,    *)
(* which every action preserves; type correctness and the safety           *)
(* properties of the queues follow.                                        *)
(***************************************************************************)
EXTENDS Kernel, FiniteSetTheorems, WellFoundedInduction, TLAPS

-----------------------------------------------------------------------------
(***************************************************************************)
(* Queues, ready and unready, and mini_send.                               *)
(***************************************************************************)
\* Linking a process in at the tail, as ready() and mini_send() do, keeps a
\* queue a list of distinct processes.
LEMMA AppendLists ==
  ASSUME NEW q \in Seq(Proc), NEW S, NEW p \in Proc, p \notin S, Lists(q, S)
  PROVE  Append(q, p) \in Seq(Proc) /\ Lists(Append(q, p), S \cup {p})
<1> DEFINE r == Append(q, p)
<1>1. /\ r \in Seq(Proc) /\ Len(r) = Len(q) + 1 /\ DOMAIN r = 1 .. Len(q) + 1
      /\ DOMAIN q = 1 .. Len(q) /\ Len(q) \in Nat
      /\ \A i \in 1 .. Len(q) : r[i] = q[i]
      /\ r[Len(q) + 1] = p
  OBVIOUS
<1> HIDE DEF r
<1>2. NoDup(r)
  BY <1>1 DEF Lists, NoDup, Contains
<1>3. ASSUME NEW x \in Proc PROVE Contains(r, x) <=> x \in S \cup {p}
  BY <1>1 DEF Lists, Contains
<1> QED BY <1>1, <1>2, <1>3 DEF Lists, r

\* Linking a user in at the head, as ready() does, likewise.
LEMMA PushLists ==
  ASSUME NEW q \in Seq(Proc), NEW S, NEW p \in Proc, p \notin S, Lists(q, S)
  PROVE  Push(p, q) \in Seq(Proc) /\ Lists(Push(p, q), S \cup {p})
<1> DEFINE r == Push(p, q)
<1>0. DOMAIN q = 1 .. Len(q) /\ Len(q) \in Nat /\ q \in [1 .. Len(q) -> Proc]
  OBVIOUS
<1>1. /\ r \in Seq(Proc) /\ Len(r) = Len(q) + 1 /\ DOMAIN r = 1 .. Len(q) + 1
      /\ \A i \in 1 .. Len(q) : r[i + 1] = q[i]
      /\ \A i \in 2 .. Len(r) : r[i] = q[i - 1]
      /\ r[1] = p
  BY <1>0 DEF Push
<1> HIDE DEF r
<1>2. ASSUME NEW i \in 2 .. Len(r) PROVE i - 1 \in 1 .. Len(q) /\ r[i] = q[i - 1] /\ r[i] # p /\ r[i] \in S
  <2>1. i - 1 \in 1 .. Len(q) /\ r[i] = q[i - 1] /\ r[i] \in Proc
    BY <1>0, <1>1
  <2>2. Contains(q, r[i]) BY <2>1, <1>0 DEF Contains
  <2> QED BY <2>1, <2>2 DEF Lists
<1>3. ASSUME NEW i \in DOMAIN r, NEW j \in DOMAIN r, r[i] = r[j] PROVE i = j
  <2>1. CASE i = 1 \/ j = 1 BY <2>1, <1>3, <1>2, <1>1, <1>0
  <2>2. CASE i # 1 /\ j # 1
    <3>1. i \in 2 .. Len(r) /\ j \in 2 .. Len(r) BY <2>2, <1>1, <1>0
    <3>2. i - 1 \in DOMAIN q /\ j - 1 \in DOMAIN q /\ q[i - 1] = q[j - 1] BY <3>1, <1>0, <1>2, <1>3
    <3>3. i - 1 = j - 1 BY <3>2 DEF Lists, NoDup
    <3> QED BY <3>3, <3>1, <1>0, <1>1
  <2> QED BY <2>1, <2>2
<1>4. ASSUME NEW x \in Proc, Contains(r, x) PROVE x \in S \cup {p}
  <2>1. PICK i \in 1 .. Len(r) : r[i] = x BY <1>4 DEF Contains
  <2>2. CASE i = 1 BY <2>1, <2>2, <1>1
  <2>3. CASE i # 1 BY <2>1, <2>3, <1>2, <1>1, <1>0
  <2> QED BY <2>2, <2>3
<1>5. ASSUME NEW x \in Proc, x \in S \cup {p} PROVE Contains(r, x)
  <2>1. CASE x = p
    <3>1. 1 \in 1 .. Len(r) BY <1>0, <1>1
    <3> QED BY <3>1, <2>1, <1>1 DEF Contains
  <2>2. CASE x \in S
    <3>1. PICK i \in 1 .. Len(q) : q[i] = x BY <2>2 DEF Lists, Contains
    <3>2. i + 1 \in 1 .. Len(r) /\ r[i + 1] = x BY <3>1, <1>0, <1>1
    <3> QED BY <3>2 DEF Contains
  <2> QED BY <1>5, <2>1, <2>2
<1> QED BY <1>1, <1>3, <1>4, <1>5 DEF Lists, NoDup, r

\* Taking one entry out leaves a queue one shorter.
LEMMA UnlinkAtType ==
  ASSUME NEW q \in Seq(Proc), NEW i \in 1 .. Len(q)
  PROVE  /\ UnlinkAt(q, i) \in Seq(Proc) /\ Len(UnlinkAt(q, i)) = Len(q) - 1
         /\ DOMAIN UnlinkAt(q, i) = 1 .. Len(q) - 1
<1>0. DOMAIN q = 1 .. Len(q) /\ Len(q) \in Nat /\ q \in [1 .. Len(q) -> Proc]
  OBVIOUS
<1> QED BY <1>0 DEF UnlinkAt

\* Taking entry i out, as mini_rec() does with a sender it accepts, removes
\* exactly that process.
LEMMA UnlinkAtLists ==
  ASSUME NEW q \in Seq(Proc), NEW S, NEW i \in 1 .. Len(q), Lists(q, S)
  PROVE  UnlinkAt(q, i) \in Seq(Proc) /\ Lists(UnlinkAt(q, i), S \ {q[i]})
<1> DEFINE r == UnlinkAt(q, i)
           old(j) == IF j < i THEN j ELSE j + 1
<1>0. DOMAIN q = 1 .. Len(q) /\ Len(q) \in Nat /\ q \in [1 .. Len(q) -> Proc]
  OBVIOUS
<1>1. r \in Seq(Proc) /\ Len(r) = Len(q) - 1 /\ DOMAIN r = 1 .. Len(q) - 1
  BY <1>0 DEF UnlinkAt
<1>2. ASSUME NEW j \in DOMAIN r
      PROVE  old(j) \in DOMAIN q /\ old(j) # i /\ r[j] = q[old(j)]
  BY <1>0, <1>1 DEF UnlinkAt
<1> HIDE DEF r
<1>3. ASSUME NEW j \in DOMAIN r, NEW l \in DOMAIN r, r[j] = r[l] PROVE j = l
  <2>1. old(j) = old(l) BY <1>2, <1>3 DEF Lists, NoDup
  <2> QED BY <2>1, <1>0, <1>1
<1>4. ASSUME NEW x \in Proc, Contains(r, x) PROVE x \in S \ {q[i]}
  <2>1. PICK j \in DOMAIN r : r[j] = x BY <1>4, <1>1 DEF Contains
  <2>2. old(j) \in DOMAIN q /\ old(j) # i /\ q[old(j)] = x BY <2>1, <1>2
  <2> HIDE DEF old
  <2>3. x # q[i] BY <2>2, <1>0 DEF Lists, NoDup
  <2>4. Contains(q, x) BY <2>2, <1>0 DEF Contains
  <2> QED BY <2>3, <2>4 DEF Lists
<1>5. ASSUME NEW x \in Proc, x \in S \ {q[i]} PROVE Contains(r, x)
  <2>1. PICK j \in 1 .. Len(q) : q[j] = x
    BY <1>5, <1>0 DEF Lists, Contains
  <2>2. j # i BY <1>5, <2>1
  <2>3. CASE j < i
    <3>1. j \in 1 .. Len(r) /\ r[j] = x BY <2>1, <2>3, <1>0, <1>1, <1>2
    <3> QED BY <3>1 DEF Contains
  <2>4. CASE j > i
    <3>1. j - 1 \in 1 .. Len(r) /\ r[j - 1] = x BY <2>1, <2>4, <1>0, <1>1, <1>2
    <3> QED BY <3>1 DEF Contains
  <2> QED BY <2>2, <2>3, <2>4
<1> QED BY <1>1, <1>3, <1>4, <1>5 DEF Lists, NoDup, r

\* The search of unready() and do_xit() removes p, wherever it is.
LEMMA UnlinkLists ==
  ASSUME NEW q \in Seq(Proc), NEW S, NEW p \in Proc, Lists(q, S)
  PROVE  Unlink(q, p) \in Seq(Proc) /\ Lists(Unlink(q, p), S \ {p})
<1>1. CASE Contains(q, p)
  <2> DEFINE i == CHOOSE j \in DOMAIN q : q[j] = p
  <2>1. i \in 1 .. Len(q) /\ q[i] = p
    BY <1>1 DEF Contains
  <2> HIDE DEF i
  <2>2. UnlinkAt(q, i) \in Seq(Proc) /\ Lists(UnlinkAt(q, i), S \ {p})
    BY <2>1, UnlinkAtLists
  <2> QED BY <1>1, <2>2 DEF Unlink, i
<1>2. CASE ~Contains(q, p)
  BY <1>2 DEF Unlink, Lists
<1> QED BY <1>1, <1>2

\* sched() moves the head to the tail and loses nobody.
LEMMA RotateLists ==
  ASSUME NEW q \in Seq(Proc), NEW S, q # << >>, Lists(q, S)
  PROVE  /\ Append(UnlinkAt(q, 1), Head(q)) \in Seq(Proc)
         /\ Lists(Append(UnlinkAt(q, 1), Head(q)), S)
<1>1. Head(q) = q[1] /\ 1 \in 1 .. Len(q) /\ q[1] \in Proc
  OBVIOUS
<1>2. UnlinkAt(q, 1) \in Seq(Proc) /\ Lists(UnlinkAt(q, 1), S \ {q[1]})
  BY <1>1, UnlinkAtLists
<1>3. q[1] \in S
  BY <1>1 DEF Lists, Contains
<1>4. (S \ {q[1]}) \cup {q[1]} = S /\ q[1] \notin S \ {q[1]}
  BY <1>3
<1>5. /\ Append(UnlinkAt(q, 1), q[1]) \in Seq(Proc)
      /\ Lists(Append(UnlinkAt(q, 1), q[1]), (S \ {q[1]}) \cup {q[1]})
  BY <1>1, <1>2, <1>4, AppendLists
<1> QED BY <1>1, <1>4, <1>5

\* t differs from s in the queues and the two pointers at most.
QueuesOnly(s, t) ==
  /\ t \in Table
  /\ t.flags = s.flags /\ t.callerq = s.callerq /\ t.getfrom = s.getfrom
  /\ t.sendto = s.sendto /\ t.int_blocked = s.int_blocked /\ t.held = s.held
  /\ t.pending = s.pending /\ t.pendcount = s.pendcount /\ t.court = s.court
  /\ t.sig_procs = s.sig_procs /\ t.core = s.core /\ t.shadow = s.shadow
  /\ t.panic = s.panic

\* ready() and unready() always choose one of the four queues.
LEMMA QueueOfType ==
  ASSUME NEW s, NEW p PROVE QueueOf(s, p) \in Queue
BY DEF QueueOf, Queue, TASK_Q, SERVER_Q, USER_Q, SHADOW_Q

\* The fixed process numbers are entries of the table; ANY is not.
LEMMA ProcFacts ==
  /\ IDLE \in Proc /\ HARDWARE \in Proc /\ MM \in Proc /\ FS \in Proc
  /\ SYSTASK \in Proc /\ CLOCK \in Proc /\ LOW_USER \in Proc /\ ANY \notin Proc
BY SizeAssumption DEF IDLE, HARDWARE, MM, FS, SYSTASK, CLOCK, LOW_USER, ANY, Proc

\* pick_proc() changes nothing but proc_ptr and bill_ptr.
LEMMA PickFrame ==
  ASSUME NEW s \in Table
  PROVE  QueuesOnly(s, pick_proc(s)) /\ pick_proc(s).rdy = s.rdy
<1>1. \A q \in Queue : s.rdy[q] # << >> => Head(s.rdy[q]) \in Proc
  BY DEF Table
<1>2. {TASK_Q, SERVER_Q, USER_Q} \subseteq Queue
  BY DEF Queue
<1> QED BY <1>1, <1>2, ProcFacts DEF pick_proc, QueuesOnly, Table

\* ready() changes nothing but the queues and proc_ptr.
LEMMA ReadyFrame ==
  ASSUME NEW s \in Table, NEW p \in Proc
  PROVE  QueuesOnly(s, ready(s, p))
<1> DEFINE q == QueueOf(s, p)
<1>1. q \in Queue BY QueueOfType
<1>2. Append(s.rdy[q], p) \in Seq(Proc) /\ Push(p, s.rdy[q]) \in Seq(Proc)
  BY <1>1 DEF Table, Push
<1> HIDE DEF q
<1> QED BY <1>1, <1>2 DEF ready, QueuesOnly, Table, q

\* Which queue a process belongs to depends on p_shadow only.
LEMMA SameQueueOf ==
  ASSUME NEW s, NEW t, t.shadow = s.shadow, NEW p PROVE QueueOf(t, p) = QueueOf(s, p)
BY DEF QueueOf, isshadowp

\* ready() queues a process that was not queued, and nobody else.
LEMMA ReadyQueued ==
  ASSUME NEW s \in Table, NEW p \in Proc, NEW R \in SUBSET Proc, Queued(s, R), p \notin R
  PROVE  Queued(ready(s, p), R \cup {p})
<1> DEFINE t == ready(s, p)
           q == QueueOf(s, p)
           In(x) == {y \in R : QueueOf(s, y) = x}
           In2(x) == {y \in R \cup {p} : QueueOf(t, y) = x}
<1>1. q \in Queue BY QueueOfType
<1>2. QueuesOnly(s, t) BY ReadyFrame
<1>3. \A x \in Proc : QueueOf(t, x) = QueueOf(s, x) BY <1>2, SameQueueOf DEF QueuesOnly
<1>4. ASSUME NEW x \in Queue, x # q PROVE Lists(t.rdy[x], In2(x))
  <2>1. t.rdy[x] = s.rdy[x] BY <1>4, <1>1 DEF ready, Table
  <2>2. In2(x) = In(x) BY <1>4, <1>3
  <2>3. Lists(s.rdy[x], In(x)) BY DEF Queued
  <2> QED BY <2>1, <2>2, <2>3
<1>5. Lists(t.rdy[q], In2(q))
  <2>1. t.rdy[q] = IF q = USER_Q THEN Push(p, s.rdy[q]) ELSE Append(s.rdy[q], p)
    BY <1>1 DEF ready, Table
  <2>2. In2(q) = In(q) \cup {p} /\ p \notin In(q) BY <1>3
  <2>3. Lists(s.rdy[q], In(q)) /\ s.rdy[q] \in Seq(Proc) BY <1>1 DEF Queued, Table
  <2> HIDE DEF t, q, In, In2
  <2> QED BY <2>1, <2>2, <2>3, PushLists, AppendLists
<1> QED BY <1>4, <1>5 DEF Queued

\* unready() changes nothing but one queue, proc_ptr and bill_ptr.
LEMMA UnreadyFrame ==
  ASSUME NEW s \in Table, NEW p \in Proc
  PROVE  /\ QueuesOnly(s, unready(s, p))
         /\ unready(s, p).rdy = [s.rdy EXCEPT ![QueueOf(s, p)] = Unlink(@, p)]
<1> DEFINE q == QueueOf(s, p)
           t == [s EXCEPT !.rdy[q] = Unlink(@, p)]
<1>1. q \in Queue BY QueueOfType
<1>2. Unlink(s.rdy[q], p) \in Seq(Proc)
  <2>1. s.rdy[q] \in Seq(Proc) BY <1>1 DEF Table
  <2>2. ASSUME NEW i \in DOMAIN s.rdy[q] PROVE UnlinkAt(s.rdy[q], i) \in Seq(Proc)
    BY <2>1, UnlinkAtType
  <2> QED BY <2>1, <2>2 DEF Unlink, Contains
<1> HIDE DEF q
<1>3. QueuesOnly(s, t) /\ t.rdy = [s.rdy EXCEPT ![q] = Unlink(@, p)]
  BY <1>1, <1>2 DEF QueuesOnly, Table
<1> HIDE DEF t
<1>4. t \in Table BY <1>3 DEF QueuesOnly
<1>5. QueuesOnly(t, pick_proc(t)) /\ pick_proc(t).rdy = t.rdy BY <1>4, PickFrame
<1>6. QueuesOnly(s, pick_proc(t)) BY <1>3, <1>5 DEF QueuesOnly
<1>7. unready(s, p) \in {t, pick_proc(t)} BY DEF unready, t, q
<1> QED BY <1>3, <1>5, <1>6, <1>7 DEF q

\* unready() takes p off the queues, and nobody else.
LEMMA UnreadyQueued ==
  ASSUME NEW s \in Table, NEW p \in Proc, NEW R \in SUBSET Proc, Queued(s, R)
  PROVE  Queued(unready(s, p), R \ {p})
<1> DEFINE t == unready(s, p)
           q == QueueOf(s, p)
           In(x) == {y \in R : QueueOf(s, y) = x}
           In2(x) == {y \in R \ {p} : QueueOf(t, y) = x}
<1>1. q \in Queue BY QueueOfType
<1>2. QueuesOnly(s, t) /\ t.rdy = [s.rdy EXCEPT ![q] = Unlink(@, p)] BY UnreadyFrame
<1>3. \A x \in Proc : QueueOf(t, x) = QueueOf(s, x) BY <1>2, SameQueueOf DEF QueuesOnly
<1>4. ASSUME NEW x \in Queue, x # q PROVE Lists(t.rdy[x], In2(x))
  <2>1. t.rdy[x] = s.rdy[x] BY <1>4, <1>1, <1>2 DEF Table
  <2>2. In2(x) = In(x) BY <1>4, <1>3
  <2>3. Lists(s.rdy[x], In(x)) BY DEF Queued
  <2> QED BY <2>1, <2>2, <2>3
<1>5. Lists(t.rdy[q], In2(q))
  <2>1. t.rdy[q] = Unlink(s.rdy[q], p)
    BY <1>1, <1>2 DEF Table
  <2>2. In2(q) = In(q) \ {p} BY <1>3
  <2>3. Lists(s.rdy[q], In(q)) /\ s.rdy[q] \in Seq(Proc) BY <1>1 DEF Queued, Table
  <2> HIDE DEF t, q, In, In2
  <2> QED BY <2>1, <2>2, <2>3, UnlinkLists
<1> QED BY <1>4, <1>5 DEF Queued

\* The head of a queue stays when unready() removes someone behind it.
LEMMA UnlinkHead ==
  ASSUME NEW q \in Seq(Proc), NEW p, q # << >>, Head(q) # p
  PROVE  Unlink(q, p) # << >> /\ Head(Unlink(q, p)) = Head(q)
<1>1. CASE Contains(q, p)
  <2> DEFINE i == CHOOSE j \in DOMAIN q : q[j] = p
  <2>1. i \in 1 .. Len(q) /\ q[i] = p /\ Len(q) \in Nat BY <1>1 DEF Contains
  <2>2. i > 1 BY <2>1
  <2> HIDE DEF i
  <2>3. UnlinkAt(q, i) \in Seq(Proc) /\ Len(UnlinkAt(q, i)) = Len(q) - 1 BY <2>1, UnlinkAtType
  <2>4. Len(UnlinkAt(q, i)) >= 1 /\ UnlinkAt(q, i)[1] = q[1] BY <2>1, <2>2, <2>3 DEF UnlinkAt
  <2>5. UnlinkAt(q, i) # << >> /\ Head(UnlinkAt(q, i)) = Head(q) BY <2>3, <2>4
  <2> QED BY <1>1, <2>5 DEF Unlink, i
<1>2. CASE ~Contains(q, p) BY <1>2 DEF Unlink
<1> QED BY <1>1, <1>2

\* unready() on an empty queue changes nothing.
LEMMA UnlinkEmpty == ASSUME NEW p PROVE Unlink(<< >>, p) = << >>
BY DEF Unlink, Contains

\* When choosing again would change nothing, case by case.
LEMMA SettledCases ==
  ASSUME NEW s \in Table
  PROVE  Settled(s) <=>
           \/ s.rdy[TASK_Q] # << >> /\ s.proc_ptr = Head(s.rdy[TASK_Q])
           \/ /\ s.rdy[TASK_Q] = << >> /\ s.rdy[SERVER_Q] # << >>
              /\ s.proc_ptr = Head(s.rdy[SERVER_Q])
           \/ /\ s.rdy[TASK_Q] = << >> /\ s.rdy[SERVER_Q] = << >> /\ s.rdy[USER_Q] # << >>
              /\ s.proc_ptr = Head(s.rdy[USER_Q]) /\ s.bill_ptr = s.proc_ptr
           \/ /\ s.rdy[TASK_Q] = << >> /\ s.rdy[SERVER_Q] = << >> /\ s.rdy[USER_Q] = << >>
              /\ s.proc_ptr = IDLE /\ s.bill_ptr = IDLE
BY DEF Settled, pick_proc, Table

\* pick_proc() leaves the right process running.
LEMMA PickSettled == ASSUME NEW s \in Table PROVE Settled(pick_proc(s))
<1>1. pick_proc(s) \in Table /\ pick_proc(s).rdy = s.rdy BY PickFrame DEF QueuesOnly
<1> QED BY <1>1, SettledCases DEF pick_proc, Table

\* The head of a queue is one of the processes the queue holds.
LEMMA HeadQueued ==
  ASSUME NEW s \in Table, NEW R \in SUBSET Proc, Queued(s, R), NEW q \in Queue, s.rdy[q] # << >>
  PROVE  Head(s.rdy[q]) \in R /\ QueueOf(s, Head(s.rdy[q])) = q
<1>1. s.rdy[q] \in Seq(Proc) BY DEF Table
<1>2. Head(s.rdy[q]) \in Proc /\ Contains(s.rdy[q], Head(s.rdy[q]))
  <2>1. 1 \in 1 .. Len(s.rdy[q]) /\ s.rdy[q][1] = Head(s.rdy[q]) /\ Head(s.rdy[q]) \in Proc BY <1>1
  <2> QED BY <2>1 DEF Contains
<1> QED BY <1>2 DEF Queued, Lists

\* unready() chooses anew only if p was running; that is enough, because
\* taking off a process that was not running disturbs no head that runs.
LEMMA UnreadySettled ==
  ASSUME NEW s \in Table, NEW R \in SUBSET Proc, Queued(s, R), Settled(s),
         NEW p \in Proc, p # IDLE
  PROVE  /\ Settled(unready(s, p))
         /\ s.proc_ptr # p => unready(s, p).proc_ptr = s.proc_ptr
<1> DEFINE q == QueueOf(s, p)
           t == [s EXCEPT !.rdy[q] = Unlink(@, p)]
<1>1. q \in Queue BY QueueOfType
<1>2. unready(s, p).rdy = [s.rdy EXCEPT ![q] = Unlink(@, p)] /\ unready(s, p) \in Table
  BY UnreadyFrame DEF QueuesOnly
<1>3. t \in Table /\ t.proc_ptr = s.proc_ptr /\ t.bill_ptr = s.bill_ptr
      /\ t.rdy = [s.rdy EXCEPT ![q] = Unlink(@, p)]
  BY <1>1, <1>2 DEF Table
<1>4. CASE s.rdy[q] # << >> /\ Head(s.rdy[q]) = p /\ s.proc_ptr = p
  BY <1>3, <1>4, PickSettled DEF unready
<1>5. CASE ~(s.rdy[q] # << >> /\ Head(s.rdy[q]) = p /\ s.proc_ptr = p)
  <2>1. s.proc_ptr # p
    BY <1>5, <1>1, HeadQueued, SettledCases DEF Queue
  <2>2. unready(s, p) = t BY <1>5 DEF unready
  <2>3. \A x \in Queue : /\ s.rdy[x] = << >> => t.rdy[x] = << >>
                         /\ s.rdy[x] # << >> /\ Head(s.rdy[x]) # p =>
                              t.rdy[x] # << >> /\ Head(t.rdy[x]) = Head(s.rdy[x])
    BY <1>1, <1>3, UnlinkHead, UnlinkEmpty DEF Table
  <2> HIDE DEF t, q
  <2>4. Settled(t) BY <2>1, <2>3, <1>3, SettledCases DEF Queue
  <2> QED BY <1>3, <2>2, <2>4
<1> QED BY <1>4, <1>5

\* ready() does not call pick_proc(); that is enough when p is a task, or a
\* task or server runs.
LEMMA ReadySettled ==
  ASSUME NEW s \in Table, NEW R \in SUBSET Proc, Queued(s, R), Settled(s),
         NEW p \in Proc, p # HARDWARE, p \in Task \/ s.proc_ptr \in Task \cup Server
  PROVE  /\ Settled(ready(s, p))
         /\ s.proc_ptr \in Task => ready(s, p).proc_ptr = s.proc_ptr
         /\ ready(s, p).proc_ptr \in Task \cup {s.proc_ptr}
<1> DEFINE q == QueueOf(s, p)
           t == ready(s, p)
<1>1. q \in Queue BY QueueOfType
<1>2. t \in Table BY ReadyFrame DEF QueuesOnly
<1>3. /\ \A x \in Queue \ {q} : t.rdy[x] = s.rdy[x]
      /\ q # USER_Q => t.rdy[q] = Append(s.rdy[q], p)
      /\ t.bill_ptr = s.bill_ptr
      /\ t.proc_ptr = IF q = TASK_Q /\ s.rdy[q] = << >> THEN p ELSE s.proc_ptr
  BY <1>1 DEF ready, Table
<1>4. q # USER_Q => /\ t.rdy[q] # << >>
                    /\ Head(t.rdy[q]) = IF s.rdy[q] = << >> THEN p ELSE Head(s.rdy[q])
  <2>1. s.rdy[q] \in Seq(Proc) BY <1>1 DEF Table
  <2> QED BY <1>3, <2>1
<1>5. p \in Task => q = TASK_Q
  BY DEF QueueOf, istaskp, Task
<1>6. \A x \in Proc : /\ x \in Task => QueueOf(s, x) = TASK_Q
                      /\ x \in Server => QueueOf(s, x) = SERVER_Q
                      /\ QueueOf(s, x) = TASK_Q => x # IDLE
  BY SizeAssumption DEF QueueOf, istaskp, isuserp, Task, Server, TASK_Q, SERVER_Q, USER_Q, SHADOW_Q, MM, FS, LOW_USER, IDLE, HARDWARE, Proc
<1>7. Settled(t) /\ (s.proc_ptr \in Task => t.proc_ptr = s.proc_ptr)
  <2>0. s.proc_ptr \in Proc /\ IDLE \notin Task \cup Server BY DEF Table, Task, Server, IDLE, MM, FS
  <2>1. s.proc_ptr \in Task => s.rdy[TASK_Q] # << >>
    BY <2>0, <1>6, HeadQueued, SettledCases DEF Queue, TASK_Q, SERVER_Q, USER_Q, SHADOW_Q
  <2>2. s.proc_ptr \in Server => s.rdy[TASK_Q] # << >> \/ s.rdy[SERVER_Q] # << >>
    BY <2>0, <1>6, HeadQueued, SettledCases DEF Queue, TASK_Q, SERVER_Q, USER_Q, SHADOW_Q
  <2> HIDE DEF t, q
  <2> QED BY <2>0, <2>1, <2>2, <1>1, <1>2, <1>3, <1>4, <1>5, <1>6, SettledCases DEF Queue, TASK_Q, SERVER_Q, USER_Q, SHADOW_Q
<1>8. t.proc_ptr \in Task \cup {s.proc_ptr}
  BY <1>3 DEF QueueOf, istaskp, Task, TASK_Q, SERVER_Q, USER_Q, SHADOW_Q
<1> QED BY <1>7, <1>8

\* Whether the choice is settled depends on the queues and the two pointers.
LEMMA SettledSame ==
  ASSUME NEW s \in Table, NEW t \in Table, t.rdy = s.rdy, t.proc_ptr = s.proc_ptr,
         t.bill_ptr = s.bill_ptr
  PROVE  Settled(t) <=> Settled(s)
BY SettledCases

\* What the queues hold does not depend on the other fields.
LEMMA QueuedSame ==
  ASSUME NEW s, NEW t, t.rdy = s.rdy, t.shadow = s.shadow, NEW R
  PROVE  Queued(t, R) <=> Queued(s, R)
BY SameQueueOf DEF Queued

(* The fields that Block and Release leave alone. *)
\* t differs from s in flags and partners, the queues and pointers at most.
Keeps(s, t) ==
  /\ t \in Table
  /\ t.callerq = s.callerq /\ t.int_blocked = s.int_blocked /\ t.held = s.held
  /\ t.pending = s.pending /\ t.pendcount = s.pendcount /\ t.court = s.court
  /\ t.sig_procs = s.sig_procs /\ t.core = s.core /\ t.shadow = s.shadow
  /\ t.panic = s.panic

\* "if (p_flags == 0) unready()", then set bits: the queues follow the flags.
LEMMA BlockLemma ==
  ASSUME NEW s \in Table, Queued(s, Runnable(s)), NEW p \in Proc \ {IDLE, HARDWARE},
         NEW bits \in SUBSET Flag, bits # {}
  PROVE  LET t == Block(s, p, bits)
         IN  /\ Keeps(s, t) /\ t.getfrom = s.getfrom /\ t.sendto = s.sendto
             /\ t.flags = [s.flags EXCEPT ![p] = @ \cup bits]
             /\ Queued(t, Runnable(t))
             /\ Settled(s) => Settled(t) /\ (s.proc_ptr # p => t.proc_ptr = s.proc_ptr)
<1> DEFINE r == IF s.flags[p] = {} THEN unready(s, p) ELSE s
           t == [r EXCEPT !.flags[p] = @ \cup bits]
<1>1. QueuesOnly(s, r)
  BY UnreadyFrame DEF QueuesOnly
<1>2. Queued(r, Runnable(s) \ {p})
  <2>1. CASE s.flags[p] = {}
    <3>1. Runnable(s) \in SUBSET Proc BY DEF Runnable
    <3>2. Queued(unready(s, p), Runnable(s) \ {p}) BY <3>1, UnreadyQueued
    <3> QED BY <2>1, <3>2
  <2>2. CASE s.flags[p] # {}
    <3>1. Runnable(s) \ {p} = Runnable(s) BY <2>2 DEF Runnable
    <3> QED BY <2>2, <3>1
  <2> QED BY <2>1, <2>2
<1>3. Settled(s) => Settled(r) /\ (s.proc_ptr # p => r.proc_ptr = s.proc_ptr)
  <2>1. Runnable(s) \in SUBSET Proc BY DEF Runnable
  <2> QED BY <2>1, UnreadySettled
<1> HIDE DEF r
<1>4. r \in Table /\ r.flags = s.flags BY <1>1 DEF QueuesOnly
<1>5. /\ t \in Table /\ t.flags = [s.flags EXCEPT ![p] = @ \cup bits] /\ t.rdy = r.rdy
      /\ t.shadow = r.shadow /\ t.proc_ptr = r.proc_ptr /\ t.bill_ptr = r.bill_ptr
  BY <1>4 DEF Table
<1>6. Keeps(s, t) /\ t.getfrom = s.getfrom /\ t.sendto = s.sendto
  BY <1>1, <1>4, <1>5 DEF Table, QueuesOnly, Keeps
<1>7. Block(s, p, bits) = t BY DEF Block, r
<1> HIDE DEF t
<1>8. Runnable(t) = Runnable(s) \ {p}
  BY <1>5 DEF Runnable, Table
<1>9. Queued(t, Runnable(t)) BY <1>2, <1>5, <1>8, QueuedSame
<1>10. Settled(r) => Settled(t) BY <1>4, <1>5, SettledSame
<1> QED BY <1>3, <1>5, <1>6, <1>7, <1>9, <1>10

\* Clearing bits changes the flags and the two partners, no more.
LEMMA ClearFrame ==
  ASSUME NEW s \in Table, NEW p \in Proc, NEW bits \in SUBSET Flag
  PROVE  LET t == Clear(s, p, bits)
         IN  /\ Keeps(s, t) /\ t.rdy = s.rdy /\ t.proc_ptr = s.proc_ptr
             /\ t.bill_ptr = s.bill_ptr
             /\ t.flags = [s.flags EXCEPT ![p] = @ \ bits]
             /\ t.getfrom = [s.getfrom EXCEPT ![p] = IF "RECEIVING" \in bits THEN ANY ELSE @]
             /\ t.sendto = [s.sendto EXCEPT ![p] = IF "SENDING" \in bits THEN HARDWARE ELSE @]
BY ProcFacts DEF Clear, Table, Keeps

\* Clear bits, then "if (p_flags == 0) ready()": the queues follow the flags.
LEMMA ReleaseLemma ==
  ASSUME NEW s \in Table, Queued(s, Runnable(s)), NEW p \in Proc \ {IDLE, HARDWARE},
         NEW bits \in SUBSET Flag, s.flags[p] # {}
  PROVE  LET t == Release(s, p, bits)
         IN  /\ Keeps(s, t)
             /\ t.flags = [s.flags EXCEPT ![p] = @ \ bits]
             /\ t.getfrom = [s.getfrom EXCEPT ![p] = IF "RECEIVING" \in bits THEN ANY ELSE @]
             /\ t.sendto = [s.sendto EXCEPT ![p] = IF "SENDING" \in bits THEN HARDWARE ELSE @]
             /\ Queued(t, Runnable(t))
             /\ Settled(s) /\ (p \in Task \/ s.proc_ptr \in Task \cup Server) =>
                  /\ Settled(t) /\ t.proc_ptr \in Task \cup {s.proc_ptr}
                  /\ s.proc_ptr \in Task => t.proc_ptr = s.proc_ptr
<1> DEFINE r == Clear(s, p, bits)
           t == Release(s, p, bits)
<1>1. /\ Keeps(s, r) /\ r.rdy = s.rdy /\ r.proc_ptr = s.proc_ptr /\ r.bill_ptr = s.bill_ptr
      /\ r.flags = [s.flags EXCEPT ![p] = @ \ bits]
      /\ r.getfrom = [s.getfrom EXCEPT ![p] = IF "RECEIVING" \in bits THEN ANY ELSE @]
      /\ r.sendto = [s.sendto EXCEPT ![p] = IF "SENDING" \in bits THEN HARDWARE ELSE @]
  BY ClearFrame
<1>2. t = IF r.flags[p] = {} THEN ready(r, p) ELSE r BY DEF Release
<1> HIDE DEF r, t
<1>3. r \in Table /\ r.shadow = s.shadow BY <1>1 DEF Keeps
<1>4. QueuesOnly(r, t) BY <1>2, <1>3, ReadyFrame DEF QueuesOnly
<1>5. /\ Keeps(s, t) /\ t.flags = r.flags /\ t.getfrom = r.getfrom /\ t.sendto = r.sendto
  BY <1>1, <1>4 DEF Keeps, QueuesOnly
<1>6. Queued(r, Runnable(s)) BY <1>1, <1>3, QueuedSame
<1>7. Runnable(s) \in SUBSET Proc /\ p \notin Runnable(s) BY DEF Runnable
<1>8. Runnable(t) = IF r.flags[p] = {} THEN Runnable(s) \cup {p} ELSE Runnable(s)
  <2>1. r.flags = [s.flags EXCEPT ![p] = @ \ bits] /\ t.flags = r.flags BY <1>1, <1>5
  <2>2. \A x \in Proc \ {p} : r.flags[x] = s.flags[x] BY <2>1 DEF Table
  <2> QED BY <2>1, <2>2, <1>7 DEF Runnable
<1>9. Queued(t, Runnable(t)) BY <1>2, <1>3, <1>6, <1>7, <1>8, ReadyQueued
<1>10. Settled(s) => Settled(r) BY <1>1, <1>3, SettledSame
<1>11. Settled(s) /\ (p \in Task \/ s.proc_ptr \in Task \cup Server) =>
                  /\ Settled(t) /\ t.proc_ptr \in Task \cup {s.proc_ptr}
                  /\ s.proc_ptr \in Task => t.proc_ptr = s.proc_ptr
  BY <1>1, <1>2, <1>3, <1>6, <1>7, <1>10, ReadySettled
<1> QED BY <1>1, <1>5, <1>9, <1>11 DEF t

\* Which flags go together: only users have signals and stops; a free slot is
\* nothing else; a process blocked in sendrec waits for one process; nobody is
\* blocked sending to a user or to a pseudo process.
FlagsOK(s) ==
  /\ s.flags[HARDWARE] = {} /\ s.flags[IDLE] = {}
  /\ \A p \in Proc :
       /\ p \notin User => s.flags[p] \subseteq {"SENDING", "RECEIVING"}
       /\ "P_SLOT_FREE" \in s.flags[p] => s.flags[p] = {"P_SLOT_FREE"}
       /\ "RECEIVING" \in s.flags[p] /\ "SENDING" \in s.flags[p] => s.getfrom[p] # ANY
       /\ "SENDING" \in s.flags[p] =>
            s.sendto[p] \in Task \cup Server /\ (p \in User => s.sendto[p] \in Server)

\* The part of the inductive invariant that every function of proc.c preserves
\* by itself.
Good(s) ==
  /\ s \in Table
  /\ Queued(s, Runnable(s))
  /\ FlagsOK(s)
  /\ CallersListed(s)
  /\ SigCounted(s)

\* The table consists of tasks, servers, users, HARDWARE and IDLE, and the
\* macros of proc.h tell them apart.
LEMMA Kinds ==
  /\ User \subseteq Proc /\ Task \subseteq Proc /\ Server \subseteq Proc
  /\ HARDWARE \notin User /\ IDLE \notin User /\ MM \notin User /\ FS \notin User
  /\ HARDWARE \notin Task \cup Server /\ IDLE \notin Task \cup Server
  /\ MM \notin Task /\ FS \notin Task /\ MM \in Server /\ FS \in Server
  /\ SYSTASK \in Task /\ CLOCK \in Task
  /\ (Task \cup Server) \cap User = {}
  /\ Proc = Task \cup Server \cup User \cup {HARDWARE, IDLE}
  /\ \A p \in Proc : (isuserp(p) <=> p \in User) /\ (istaskp(p) <=> p \in Task \cup {HARDWARE})
BY SizeAssumption DEF User, Task, Server, Proc, HARDWARE, IDLE, MM, FS, SYSTASK, CLOCK, LOW_USER,
   isuserp, istaskp

\* An update of one process' flags leaves the others alone.
LEMMA FlagsAt ==
  ASSUME NEW f \in [Proc -> SUBSET Flag], NEW p \in Proc, NEW v, NEW g, g = [f EXCEPT ![p] = v]
  PROVE  g[p] = v /\ \A x \in Proc \ {p} : g[x] = f[x]
OBVIOUS

\* The signal counts depend on the two signal flags and the counters only.
LEMMA SigSame ==
  ASSUME NEW s, NEW t, SigCounted(s), t.sig_procs = s.sig_procs, t.pending = s.pending,
         t.pendcount = s.pendcount, t.court = s.court,
         \A p \in User : /\ "PENDING" \in t.flags[p] <=> "PENDING" \in s.flags[p]
                         /\ "SIG_PENDING" \in t.flags[p] <=> "SIG_PENDING" \in s.flags[p]
  PROVE  SigCounted(t)
<1>1. {p \in User : "PENDING" \in t.flags[p]} = {p \in User : "PENDING" \in s.flags[p]}
  OBVIOUS
<1> QED BY <1>1 DEF SigCounted

\* The caller queues agree with the flags as long as SENDING and p_sendto
\* do not change.
LEMMA CallersSame ==
  ASSUME NEW s, NEW t, CallersListed(s), t.callerq = s.callerq,
         \A p \in Proc : /\ "SENDING" \in t.flags[p] <=> "SENDING" \in s.flags[p]
                         /\ "SENDING" \in s.flags[p] => t.sendto[p] = s.sendto[p]
  PROVE  CallersListed(t)
<1>1. \A d \in Proc : Senders(t, d) = Senders(s, d) BY DEF Senders
<1> QED BY <1>1 DEF CallersListed

\* A receiver that gets its message is released as a whole: queues, flags
\* and caller queues still agree.
LEMMA ReleaseReceiver ==
  ASSUME NEW s, Good(s), NEW p \in Proc \ {IDLE, HARDWARE}, "RECEIVING" \in s.flags[p]
  PROVE  LET t == Release(s, p, {"RECEIVING"})
         IN  /\ Good(t) /\ Keeps(s, t) /\ t.flags = [s.flags EXCEPT ![p] = @ \ {"RECEIVING"}]
             /\ t.getfrom = [s.getfrom EXCEPT ![p] = ANY] /\ t.sendto = s.sendto
             /\ Settled(s) /\ (p \in Task \/ s.proc_ptr \in Task \cup Server) =>
                  /\ Settled(t) /\ t.proc_ptr \in Task \cup {s.proc_ptr}
                  /\ s.proc_ptr \in Task => t.proc_ptr = s.proc_ptr
<1> DEFINE t == Release(s, p, {"RECEIVING"})
<1>0. s \in Table /\ Queued(s, Runnable(s)) /\ {"RECEIVING"} \in SUBSET Flag /\ s.flags[p] # {}
  BY DEF Good, Flag
<1>1. /\ Keeps(s, t)
      /\ t.flags = [s.flags EXCEPT ![p] = @ \ {"RECEIVING"}]
      /\ t.getfrom = [s.getfrom EXCEPT ![p] = ANY]
      /\ t.sendto = [s.sendto EXCEPT ![p] = @]
      /\ Queued(t, Runnable(t))
      /\ Settled(s) /\ (p \in Task \/ s.proc_ptr \in Task \cup Server) =>
                  /\ Settled(t) /\ t.proc_ptr \in Task \cup {s.proc_ptr}
                  /\ s.proc_ptr \in Task => t.proc_ptr = s.proc_ptr
  BY <1>0, ReleaseLemma
<1> HIDE DEF t
<1>2. t \in Table /\ t.sendto = s.sendto BY <1>0, <1>1 DEF Keeps, Table
<1>3. t.flags[p] = s.flags[p] \ {"RECEIVING"} /\ \A x \in Proc \ {p} : t.flags[x] = s.flags[x]
  BY <1>0, <1>1, FlagsAt DEF Table
<1>4. SigCounted(t)
  <2>1. \A x \in User : /\ "PENDING" \in t.flags[x] <=> "PENDING" \in s.flags[x]
                        /\ "SIG_PENDING" \in t.flags[x] <=> "SIG_PENDING" \in s.flags[x]
    BY <1>3, Kinds
  <2> QED BY <2>1, <1>1, SigSame DEF Good, Keeps
<1>5. CallersListed(t) BY <1>1, <1>2, <1>3, CallersSame DEF Good, Keeps
<1>6. FlagsOK(t)
  <2>0. FlagsOK(s) BY DEF Good
  <2>1. t.flags[HARDWARE] = {} /\ t.flags[IDLE] = {} BY <2>0, <1>3, ProcFacts DEF FlagsOK
  <2>2. ASSUME NEW x \in Proc
        PROVE  /\ x \notin User => t.flags[x] \subseteq {"SENDING", "RECEIVING"}
               /\ "P_SLOT_FREE" \in t.flags[x] => t.flags[x] = {"P_SLOT_FREE"}
    BY <2>0, <1>3 DEF FlagsOK
  <2>3. ASSUME NEW x \in Proc, "RECEIVING" \in t.flags[x], "SENDING" \in t.flags[x]
        PROVE  t.getfrom[x] # ANY
    BY <2>0, <2>3, <1>0, <1>1, <1>2, <1>3 DEF FlagsOK, Table
  <2>4. ASSUME NEW x \in Proc, "SENDING" \in t.flags[x]
        PROVE  t.sendto[x] \in Task \cup Server /\ (x \in User => t.sendto[x] \in Server)
    BY <2>0, <2>4, <1>2, <1>3 DEF FlagsOK
  <2> QED BY <2>1, <2>2, <2>3, <2>4 DEF FlagsOK
<1> QED BY <1>1, <1>2, <1>4, <1>5, <1>6 DEF Good, t

\* The same for a process that blocks in receive().
LEMMA BlockReceiver ==
  ASSUME NEW s, Good(s), NEW p \in Proc \ {IDLE, HARDWARE}, NEW src \in Proc \cup {ANY},
         "P_SLOT_FREE" \notin s.flags[p], "SENDING" \in s.flags[p] => src # ANY
  PROVE  LET t == [Block(s, p, {"RECEIVING"}) EXCEPT !.getfrom[p] = src]
         IN  /\ Good(t) /\ Keeps(s, t) /\ t.flags = [s.flags EXCEPT ![p] = @ \cup {"RECEIVING"}]
             /\ t.getfrom = [s.getfrom EXCEPT ![p] = src] /\ t.sendto = s.sendto
             /\ Settled(s) => Settled(t) /\ (s.proc_ptr # p => t.proc_ptr = s.proc_ptr)
             /\ Settled(Block(s, p, {"RECEIVING"})) => Settled(t)
<1> DEFINE b == Block(s, p, {"RECEIVING"})
           t == [b EXCEPT !.getfrom[p] = src]
<1>0. s \in Table /\ Queued(s, Runnable(s)) /\ {"RECEIVING"} \in SUBSET Flag
  BY DEF Good, Flag
<1>1. /\ Keeps(s, b) /\ b.getfrom = s.getfrom /\ b.sendto = s.sendto
      /\ b.flags = [s.flags EXCEPT ![p] = @ \cup {"RECEIVING"}]
      /\ Queued(b, Runnable(b))
      /\ Settled(s) => Settled(b) /\ (s.proc_ptr # p => b.proc_ptr = s.proc_ptr)
  BY <1>0, BlockLemma
<1> HIDE DEF b
<1>2. /\ t \in Table /\ Keeps(s, t) /\ t.flags = b.flags /\ t.sendto = s.sendto /\ t.rdy = b.rdy
      /\ t.getfrom = [s.getfrom EXCEPT ![p] = src] /\ t.proc_ptr = b.proc_ptr
      /\ t.bill_ptr = b.bill_ptr /\ t.shadow = b.shadow
  BY <1>1 DEF Keeps, Table
<1> HIDE DEF t
<1>3. t.flags[p] = s.flags[p] \cup {"RECEIVING"} /\ \A x \in Proc \ {p} : t.flags[x] = s.flags[x]
  BY <1>0, <1>1, <1>2, FlagsAt DEF Table
<1>4. SigCounted(t)
  <2>1. \A x \in User : /\ "PENDING" \in t.flags[x] <=> "PENDING" \in s.flags[x]
                        /\ "SIG_PENDING" \in t.flags[x] <=> "SIG_PENDING" \in s.flags[x]
    BY <1>3, Kinds
  <2> QED BY <2>1, <1>2, SigSame DEF Good, Keeps
<1>5. CallersListed(t)
  <2>1. \A x \in Proc : "SENDING" \in t.flags[x] <=> "SENDING" \in s.flags[x]
    BY <1>3
  <2> QED BY <2>1, <1>2, CallersSame DEF Good, Keeps
<1>6. FlagsOK(t)
  <2>0. FlagsOK(s) BY DEF Good
  <2>1. t.flags[HARDWARE] = {} /\ t.flags[IDLE] = {} BY <2>0, <1>3, ProcFacts DEF FlagsOK
  <2>2. ASSUME NEW x \in Proc
        PROVE  /\ x \notin User => t.flags[x] \subseteq {"SENDING", "RECEIVING"}
               /\ "P_SLOT_FREE" \in t.flags[x] => t.flags[x] = {"P_SLOT_FREE"}
    BY <2>0, <1>3 DEF FlagsOK
  <2>3. ASSUME NEW x \in Proc, "RECEIVING" \in t.flags[x], "SENDING" \in t.flags[x]
        PROVE  t.getfrom[x] # ANY
    BY <2>0, <2>3, <1>0, <1>1, <1>2, <1>3 DEF FlagsOK, Table
  <2>4. ASSUME NEW x \in Proc, "SENDING" \in t.flags[x]
        PROVE  t.sendto[x] \in Task \cup Server /\ (x \in User => t.sendto[x] \in Server)
    BY <2>0, <2>4, <1>2, <1>3 DEF FlagsOK
  <2> QED BY <2>1, <2>2, <2>3, <2>4 DEF FlagsOK
<1>7. Queued(t, Runnable(t))
  <2>1. Runnable(t) = Runnable(b) BY <1>2 DEF Runnable
  <2> QED BY <2>1, <1>1, <1>2, QueuedSame
<1>8. Settled(b) => Settled(t) BY <1>1, <1>2, SettledSame DEF Keeps
<1> QED BY <1>1, <1>2, <1>4, <1>5, <1>6, <1>7, <1>8 DEF Good, t, b

\* mini_send() preserves the agreement, whether the message is handed over
\* or the sender blocks and is queued on its destination.
LEMMA MiniSend ==
  ASSUME NEW s, Good(s), NEW c \in Proc \ {IDLE, HARDWARE}, s.flags[c] = {},
         NEW d \in Proc \ {IDLE, HARDWARE}, d \in User => Accepts(s, d, c), c \in User => d \in Server
  PROVE  LET t == mini_send(s, c, d)
         IN  /\ Good(t) /\ t.flags[c] \in {{}, {"SENDING"}}
             /\ Settled(s) /\ c \notin User /\ s.proc_ptr = c =>
                  Settled(t) /\ (t.flags[c] = {} => t.proc_ptr \in Task \cup Server)
             /\ t.flags[c] # {} /\ Settled(s) => Settled(t)
<1> DEFINE t == mini_send(s, c, d)
<1>0. s \in Table /\ Queued(s, Runnable(s)) /\ {"SENDING"} \in SUBSET Flag
  BY DEF Good, Flag
<1>1. CASE Accepts(s, d, c)
  <2>1. t = Release(s, d, {"RECEIVING"}) BY <1>1 DEF mini_send
  <2>2. "RECEIVING" \in s.flags[d] BY <1>1 DEF Accepts
  <2> HIDE DEF t
  <2>3. LET r == Release(s, d, {"RECEIVING"})
        IN  /\ Good(r) /\ r.flags = [s.flags EXCEPT ![d] = @ \ {"RECEIVING"}]
            /\ Settled(s) /\ (d \in Task \/ s.proc_ptr \in Task \cup Server) =>
                  /\ Settled(r) /\ r.proc_ptr \in Task \cup {s.proc_ptr}
                  /\ s.proc_ptr \in Task => r.proc_ptr = s.proc_ptr
    BY <2>2, ReleaseReceiver
  <2>4. t.flags[c] = {} BY <1>0, <2>1, <2>3 DEF Table
  <2>5. c \notin User => c \in Task \cup Server BY Kinds
  <2> QED BY <2>1, <2>3, <2>4, <2>5 DEF t
<1>2. CASE ~Accepts(s, d, c)
  <2> DEFINE b == Block(s, c, {"SENDING"})
             u == [b EXCEPT !.sendto[c] = d, !.callerq[d] = Append(@, c)]
  <2>1. t = u BY <1>2 DEF mini_send
  <2>2. /\ Keeps(s, b) /\ b.getfrom = s.getfrom /\ b.sendto = s.sendto
        /\ b.flags = [s.flags EXCEPT ![c] = @ \cup {"SENDING"}]
        /\ Queued(b, Runnable(b))
        /\ Settled(s) => Settled(b)
    BY <1>0, BlockLemma
  <2> HIDE DEF b
  <2>3. b \in Table /\ Append(b.callerq[d], c) \in Seq(Proc) BY <2>2 DEF Keeps, Table
  <2>4. /\ u \in Table /\ u.flags = b.flags /\ u.getfrom = s.getfrom /\ u.rdy = b.rdy
        /\ u.sendto = [s.sendto EXCEPT ![c] = d] /\ u.callerq = [s.callerq EXCEPT ![d] = Append(@, c)]
        /\ u.proc_ptr = b.proc_ptr /\ u.bill_ptr = b.bill_ptr /\ u.shadow = b.shadow
        /\ u.sig_procs = s.sig_procs /\ u.pending = s.pending /\ u.pendcount = s.pendcount
        /\ u.court = s.court
    BY <2>2, <2>3 DEF Keeps, Table
  <2> HIDE DEF u
  <2>5. u.flags[c] = {"SENDING"} /\ \A x \in Proc \ {c} : u.flags[x] = s.flags[x]
    <3>1. s.flags \in [Proc -> SUBSET Flag] BY <1>0 DEF Table
    <3>2. u.flags = [s.flags EXCEPT ![c] = {"SENDING"}] BY <2>2, <2>4
    <3> QED BY <3>1, <3>2, FlagsAt
  <2>6. SigCounted(u)
    <3>1. \A x \in User : /\ "PENDING" \in u.flags[x] <=> "PENDING" \in s.flags[x]
                          /\ "SIG_PENDING" \in u.flags[x] <=> "SIG_PENDING" \in s.flags[x]
      BY <2>5, Kinds
    <3> QED BY <3>1, <2>4, SigSame DEF Good
  <2>7. FlagsOK(u)
    <3>0. FlagsOK(s) BY DEF Good
    <3>1. u.flags[HARDWARE] = {} /\ u.flags[IDLE] = {} BY <3>0, <2>5, ProcFacts DEF FlagsOK
    <3>2. ASSUME NEW x \in Proc
          PROVE  /\ x \notin User => u.flags[x] \subseteq {"SENDING", "RECEIVING"}
                 /\ "P_SLOT_FREE" \in u.flags[x] => u.flags[x] = {"P_SLOT_FREE"}
                 /\ "RECEIVING" \in u.flags[x] /\ "SENDING" \in u.flags[x] => u.getfrom[x] # ANY
      BY <3>0, <2>4, <2>5 DEF FlagsOK
    <3>3. ASSUME NEW x \in Proc, "SENDING" \in u.flags[x]
          PROVE  u.sendto[x] \in Task \cup Server /\ (x \in User => u.sendto[x] \in Server)
      <4>1. d \in Task \cup Server BY <1>2, Kinds
      <4>2. u.sendto[c] = d /\ \A y \in Proc \ {c} : u.sendto[y] = s.sendto[y] BY <1>0, <2>4 DEF Table
      <4>3. CASE x = c BY <4>1, <4>2, <4>3
      <4>4. CASE x # c BY <4>2, <4>4, <3>0, <3>3, <2>5 DEF FlagsOK
      <4> QED BY <4>3, <4>4
    <3> QED BY <3>1, <3>2, <3>3 DEF FlagsOK
  <2>8. CallersListed(u)
    <3>1. ASSUME NEW x \in Proc, x # d PROVE Lists(u.callerq[x], Senders(u, x))
      <4>1. u.callerq[x] = s.callerq[x] BY <3>1, <2>4, <1>0 DEF Table
      <4>2. Senders(u, x) = Senders(s, x) BY <3>1, <2>4, <2>5, <1>0 DEF Senders, Table
      <4> QED BY <4>1, <4>2 DEF Good, CallersListed
    <3>2. Lists(u.callerq[d], Senders(u, d))
      <4>1. u.callerq[d] = Append(s.callerq[d], c) /\ s.callerq[d] \in Seq(Proc) BY <2>4, <1>0 DEF Table
      <4>2. c \in Senders(u, d) /\ c \notin Senders(s, d)
        BY <2>4, <2>5, <1>0 DEF Senders, Table
      <4>3. \A x \in Proc \ {c} : x \in Senders(u, d) <=> x \in Senders(s, d)
        BY <2>4, <2>5, <1>0 DEF Senders, Table
      <4>4. Senders(u, d) = Senders(s, d) \cup {c}
        BY <4>2, <4>3 DEF Senders
      <4>5. Lists(s.callerq[d], Senders(s, d)) BY DEF Good, CallersListed
      <4> QED BY <4>1, <4>2, <4>4, <4>5, AppendLists
    <3> QED BY <3>1, <3>2 DEF CallersListed
  <2>9. Queued(u, Runnable(u))
    <3>1. Runnable(u) = Runnable(b) BY <2>4 DEF Runnable
    <3> QED BY <3>1, <2>2, <2>4, QueuedSame
  <2>10. Settled(s) => Settled(u) BY <2>2, <2>3, <2>4, SettledSame
  <2> QED BY <2>1, <2>4, <2>5, <2>6, <2>7, <2>8, <2>9, <2>10 DEF Good, t
<1> QED BY <1>1, <1>2

\* A change of the remaining fields does not matter.
LEMMA GoodSame ==
  ASSUME NEW s, Good(s), NEW r \in Table, r.flags = s.flags, r.callerq = s.callerq,
         r.getfrom = s.getfrom, r.sendto = s.sendto, r.rdy = s.rdy, r.proc_ptr = s.proc_ptr,
         r.bill_ptr = s.bill_ptr, r.shadow = s.shadow, r.pending = s.pending,
         r.pendcount = s.pendcount, r.court = s.court, r.sig_procs = s.sig_procs
  PROVE  Good(r) /\ (Settled(s) <=> Settled(r))
<1>1. Runnable(r) = Runnable(s) BY DEF Runnable
<1>2. Queued(r, Runnable(r)) BY <1>1, QueuedSame DEF Good
<1>3. CallersListed(r) BY CallersSame DEF Good
<1>4. SigCounted(r) BY SigSame DEF Good
<1>5. FlagsOK(r) BY DEF Good, FlagsOK
<1>6. Settled(s) <=> Settled(r) BY SettledSame DEF Good
<1> QED BY <1>2, <1>3, <1>4, <1>5, <1>6 DEF Good

-----------------------------------------------------------------------------
(***************************************************************************)
(* Kernel signals.                                                         *)
(***************************************************************************)
\* A non-empty set of numbers has a least one.
LEMMA LeastOfNat ==
  ASSUME NEW S \in SUBSET Nat, S # {}
  PROVE  \E x \in S : \A y \in S : x <= y
<1> DEFINE R == OpToRel(<, Nat)
<1>1. IsWellFoundedOn(R, Nat) BY NatLessThanWellFounded
<1>2. \A x, y \in Nat : y < x => <<y, x>> \in R BY DEF OpToRel
<1> HIDE DEF R
<1>3. PICK x \in S : \A y \in S : ~(<<y, x>> \in R)
  BY <1>1, WFMin
<1>4. ASSUME NEW y \in S PROVE x <= y
  <2>1. ~(y < x) BY <1>2, <1>3
  <2> QED BY <2>1
<1> QED BY <1>4

\* A user is neither a task nor a server nor a pseudo process.
LEMMA UserKind ==
  ASSUME NEW p \in User
  PROVE  p \in Proc \ {IDLE, HARDWARE} /\ p # MM /\ p # FS /\ p \notin Task /\ p \notin Server
BY Kinds

\* The first of a set of users, as the loops over the table find it.
LEMMA FirstType ==
  ASSUME NEW S \in SUBSET User, S # {}
  PROVE  First(S) \in S
<1>1. S \in SUBSET Nat BY DEF User, LOW_USER
<1>2. \E x \in S : \A y \in S : x <= y BY <1>1, LeastOfNat
<1> QED BY <1>2 DEF First

\* The pending signals of a process can be counted.
LEMMA PendingFinite ==
  ASSUME NEW s \in Table, NEW p \in User
  PROVE  /\ s.pending[p] \in SUBSET Sig /\ IsFiniteSet(s.pending[p])
         /\ Cardinality(s.pending[p]) \in Nat
         /\ Cardinality(s.pending[p]) = 0 <=> s.pending[p] = {}
<1>1. s.pending[p] \in SUBSET Sig BY DEF Table
<1>2. IsFiniteSet(s.pending[p]) BY <1>1, SigFinite, FS_Subset
<1> QED BY <1>1, <1>2, FS_CardinalityType, FS_EmptySet

\* So can the users.
LEMMA UserFinite == IsFiniteSet(User)
BY SizeAssumption, FS_Interval DEF User, LOW_USER

\* The process inform() finds is a user with PENDING set.
LEMMA InformedType ==
  ASSUME NEW s \in Table, FlagsOK(s), CanInform(s)
  PROVE  Informed(s) \in User /\ "PENDING" \in s.flags[Informed(s)]
<1> DEFINE S == {p \in 0 .. NR_PROCS - 1 : "PENDING" \in s.flags[p]}
<1>1. S \in SUBSET Nat /\ S # {} BY SizeAssumption DEF CanInform
<1>2. PICK x \in S : \A y \in S : x <= y BY <1>1, LeastOfNat
<1>3. x \in 0 .. NR_PROCS - 1 /\ "PENDING" \in s.flags[x] /\ \A q \in 0 .. x - 1 : "PENDING" \notin s.flags[q]
  BY <1>2, SizeAssumption
<1>4. Informed(s) \in 0 .. NR_PROCS - 1 /\ "PENDING" \in s.flags[Informed(s)]
  BY <1>3 DEF Informed
<1>5. Informed(s) \in Proc BY <1>4, SizeAssumption DEF Proc
<1> QED BY <1>4, <1>5 DEF FlagsOK

\* Clearing RECEIVING keeps the flags consistent.
LEMMA FlagsReceived ==
  ASSUME NEW s \in Table, FlagsOK(s), NEW p \in Proc, NEW t,
         t.flags = [s.flags EXCEPT ![p] = @ \ {"RECEIVING"}],
         t.getfrom = [s.getfrom EXCEPT ![p] = ANY], t.sendto = s.sendto
  PROVE  FlagsOK(t)
<1>1. t.flags[p] = s.flags[p] \ {"RECEIVING"} /\ \A x \in Proc \ {p} : t.flags[x] = s.flags[x]
  BY FlagsAt DEF Table
<1>2. t.flags[HARDWARE] = {} /\ t.flags[IDLE] = {} BY <1>1, ProcFacts DEF FlagsOK
<1>3. ASSUME NEW x \in Proc
      PROVE  /\ x \notin User => t.flags[x] \subseteq {"SENDING", "RECEIVING"}
             /\ "P_SLOT_FREE" \in t.flags[x] => t.flags[x] = {"P_SLOT_FREE"}
  BY <1>1 DEF FlagsOK
<1>4. ASSUME NEW x \in Proc, "RECEIVING" \in t.flags[x], "SENDING" \in t.flags[x]
      PROVE  t.getfrom[x] # ANY
  BY <1>1, <1>4 DEF FlagsOK, Table
<1>5. ASSUME NEW x \in Proc, "SENDING" \in t.flags[x]
      PROVE  t.sendto[x] \in Task \cup Server /\ (x \in User => t.sendto[x] \in Server)
  BY <1>1, <1>5 DEF FlagsOK
<1> QED BY <1>2, <1>3, <1>4, <1>5 DEF FlagsOK

\* So does any change of the signal and stop flags of live users.
LEMMA FlagsSame ==
  ASSUME NEW s, NEW t, FlagsOK(s), t.getfrom = s.getfrom, t.sendto = s.sendto,
         \A x \in Proc : /\ x \notin User => t.flags[x] = s.flags[x]
                         /\ "SENDING" \in t.flags[x] <=> "SENDING" \in s.flags[x]
                         /\ "RECEIVING" \in t.flags[x] <=> "RECEIVING" \in s.flags[x]
                         /\ "P_SLOT_FREE" \in t.flags[x] => t.flags[x] = s.flags[x]
  PROVE  FlagsOK(t)
BY ProcFacts, Kinds DEF FlagsOK

\* The end of one signal: the count goes down, and at zero the process is
\* released.
LEMMA EndOneLemma ==
  ASSUME NEW s \in Table, Queued(s, Runnable(s)), NEW p \in User, s.pendcount[p] > 0,
         "SIG_PENDING" \in s.flags[p]
  PROVE  LET t == EndOne(s, p)
         IN  /\ t \in Table /\ Queued(t, Runnable(t))
             /\ t.pendcount = [s.pendcount EXCEPT ![p] = @ - 1]
             /\ t.flags = IF s.pendcount[p] = 1 THEN [s.flags EXCEPT ![p] = @ \ {"SIG_PENDING"}]
                          ELSE s.flags
             /\ t.getfrom = s.getfrom /\ t.sendto = s.sendto /\ t.callerq = s.callerq
             /\ t.pending = s.pending /\ t.court = s.court /\ t.sig_procs = s.sig_procs
             /\ t.held = s.held /\ t.int_blocked = s.int_blocked
             /\ Settled(s) /\ s.proc_ptr \in Task => Settled(t) /\ t.proc_ptr = s.proc_ptr
<1> DEFINE r == [s EXCEPT !.pendcount[p] = @ - 1]
           t == EndOne(s, p)
<1>0. p \in Proc \ {IDLE, HARDWARE} /\ s.pendcount[p] \in Nat /\ s.pendcount[p] - 1 \in Nat
  <2>1. s.pendcount[p] \in Nat BY DEF Table
  <2> QED BY <2>1, Kinds
<1>1. /\ r \in Table /\ r.pendcount = [s.pendcount EXCEPT ![p] = @ - 1] /\ r.flags = s.flags
      /\ r.getfrom = s.getfrom /\ r.sendto = s.sendto /\ r.callerq = s.callerq
      /\ r.pending = s.pending /\ r.court = s.court /\ r.sig_procs = s.sig_procs
      /\ r.held = s.held /\ r.int_blocked = s.int_blocked
      /\ r.rdy = s.rdy /\ r.proc_ptr = s.proc_ptr /\ r.bill_ptr = s.bill_ptr /\ r.shadow = s.shadow
  BY <1>0 DEF Table
<1>2. t = IF r.pendcount[p] = 0 THEN Release(r, p, {"SIG_PENDING"}) ELSE r
  BY DEF EndOne
<1> HIDE DEF r, t
<1>3. r.pendcount[p] = s.pendcount[p] - 1 BY <1>1 DEF Table
<1>4. Queued(r, Runnable(r))
  <2>1. Runnable(r) = Runnable(s) BY <1>1 DEF Runnable
  <2> QED BY <2>1, <1>1, QueuedSame
<1>5. Settled(s) => Settled(r) BY <1>1, SettledSame
<1>6. CASE s.pendcount[p] = 1
  <2> DEFINE v == Release(r, p, {"SIG_PENDING"})
  <2>1. /\ Keeps(r, v)
        /\ v.flags = [r.flags EXCEPT ![p] = @ \ {"SIG_PENDING"}]
        /\ v.getfrom = [r.getfrom EXCEPT ![p] = @]
        /\ v.sendto = [r.sendto EXCEPT ![p] = @]
        /\ Queued(v, Runnable(v))
        /\ Settled(r) /\ r.proc_ptr \in Task => Settled(v) /\ v.proc_ptr = r.proc_ptr
    BY <1>0, <1>1, <1>4, ReleaseLemma DEF Flag
  <2> HIDE DEF v
  <2>2. v.getfrom = r.getfrom /\ v.sendto = r.sendto BY <1>1, <2>1 DEF Table
  <2>3. t = v BY <1>2, <1>3, <1>6 DEF v
  <2> QED BY <1>1, <1>5, <1>6, <2>1, <2>2, <2>3 DEF Keeps, t
<1>7. CASE s.pendcount[p] # 1
  BY <1>0, <1>1, <1>2, <1>3, <1>4, <1>5, <1>7 DEF t
<1> QED BY <1>6, <1>7

\* A process with PENDING set has been counted, in sig_procs and in its own
\* p_pendcount.
LEMMA PendingCount ==
  ASSUME NEW s \in Table, SigCounted(s), NEW p \in User, "PENDING" \in s.flags[p]
  PROVE  s.sig_procs >= 1 /\ s.pendcount[p] >= 1 /\ "SIG_PENDING" \in s.flags[p]
<1> DEFINE P == {x \in User : "PENDING" \in s.flags[x]}
<1>1. IsFiniteSet(P) /\ Cardinality(P) \in Nat /\ (Cardinality(P) = 0 <=> P = {})
  <2>1. P \in SUBSET User OBVIOUS
  <2>2. IsFiniteSet(P) BY <2>1, UserFinite, FS_Subset
  <2> QED BY <2>2, FS_CardinalityType, FS_EmptySet
<1>2. s.sig_procs >= 1 BY <1>1 DEF SigCounted
<1>3. s.pendcount[p] = Cardinality(s.pending[p]) + s.court[p] /\ s.pending[p] # {} BY DEF SigCounted
<1>4. Cardinality(s.pending[p]) \in Nat /\ Cardinality(s.pending[p]) # 0 BY <1>3, PendingFinite
<1>5. s.court[p] \in Nat /\ s.pendcount[p] \in Nat BY DEF Table
<1>6. s.pendcount[p] >= 1 /\ s.pendcount[p] > 0 BY <1>3, <1>4, <1>5
<1>7. "SIG_PENDING" \in s.flags[p] BY <1>6 DEF SigCounted
<1> QED BY <1>2, <1>6, <1>7

\* How many are left of a finite set without one that may be in it.
LEMMA CountWithout ==
  ASSUME NEW P, IsFiniteSet(P), NEW x
  PROVE  /\ Cardinality(P \ {x}) \in Nat
         /\ Cardinality(P) = Cardinality(P \ {x}) + (IF x \in P THEN 1 ELSE 0)
<1>1. Cardinality(P) \in Nat BY FS_CardinalityType
<1>2. CASE x \in P
  <2>1. IsFiniteSet(P \ {x}) /\ Cardinality(P \ {x}) = Cardinality(P) - 1 BY <1>2, FS_RemoveElement
  <2>2. Cardinality(P \ {x}) \in Nat BY <2>1, FS_CardinalityType
  <2> QED BY <1>1, <1>2, <2>1, <2>2
<1>3. CASE x \notin P
  <2>1. P \ {x} = P BY <1>3
  <2>2. Cardinality(P \ {x}) = Cardinality(P) BY <2>1
  <2> QED BY <1>1, <1>3, <2>2
<1> QED BY <1>2, <1>3

\* Nobody that is stopped in s goes on in t.
Stays(s, t) == \A x \in User : "P_STOP" \in s.flags[x] => "P_STOP" \in t.flags[x]

\* inform() preserves the agreement when MM waits for anybody: MM takes the
\* KSIG at once, so HARDWARE does not block, and the counts follow the flags.
LEMMA InformLemma ==
  ASSUME NEW s, Good(s), "RECEIVING" \in s.flags[MM], "SENDING" \notin s.flags[MM],
         s.getfrom[MM] = ANY
  PROVE  LET w == inform(s)
         IN  /\ Good(w) /\ w.held = s.held /\ w.int_blocked = s.int_blocked
             /\ Settled(s) => Settled(w)
             /\ Settled(s) /\ s.proc_ptr \in Task => w.proc_ptr = s.proc_ptr
             /\ \A x \in User : "RECEIVING" \in w.flags[x] <=> "RECEIVING" \in s.flags[x]
             /\ Stays(s, w)
<1>1. CASE ~CanInform(s) BY <1>1 DEF inform, Stays
<1>2. CASE CanInform(s)
  <2> DEFINE p == Informed(s)
             s0 == [s EXCEPT !.sig_procs = @ - 1]
             t == Release(s0, MM, {"RECEIVING"})
             u == [t EXCEPT !.pending[p] = {}, !.flags[p] = @ \ {"PENDING"},
                            !.court[p] = @ + Cardinality(s.pending[p] \ {SIGSTKFLT})]
             v == IF SIGSTKFLT \in s.pending[p] THEN EndOne(u, p) ELSE u
             w == inform(s)
  <2>0. /\ s \in Table /\ Queued(s, Runnable(s)) /\ FlagsOK(s) /\ CallersListed(s) /\ SigCounted(s)
        /\ MM \in Proc \ {IDLE, HARDWARE} /\ {"RECEIVING"} \in SUBSET Flag
    BY ProcFacts DEF Good, Flag, MM, IDLE, HARDWARE
  <2>1. p \in User /\ "PENDING" \in s.flags[p] BY <1>2, <2>0, InformedType
  <2>2. w = pick_proc(v)
    <3>1. Accepts(s0, MM, HARDWARE) BY <2>0 DEF Accepts, Table
    <3> QED BY <3>1, <1>2 DEF inform, mini_send
  <2> HIDE DEF p, w
  <2>3. s.sig_procs >= 1 /\ s.sig_procs \in Nat /\ s.pendcount[p] >= 1 /\ "SIG_PENDING" \in s.flags[p]
    BY <2>0, <2>1, PendingCount DEF Table
  <2>4. /\ s0 \in Table /\ s0.flags = s.flags /\ s0.callerq = s.callerq /\ s0.getfrom = s.getfrom
        /\ s0.sendto = s.sendto /\ s0.rdy = s.rdy /\ s0.proc_ptr = s.proc_ptr
        /\ s0.bill_ptr = s.bill_ptr /\ s0.shadow = s.shadow /\ s0.held = s.held
        /\ s0.int_blocked = s.int_blocked /\ s0.pending = s.pending
        /\ s0.pendcount = s.pendcount /\ s0.court = s.court /\ s0.sig_procs = s.sig_procs - 1
    <3>1. s.sig_procs - 1 \in Nat BY <2>3
    <3> QED BY <3>1, <2>0 DEF Table
  <2> HIDE DEF s0
  <2>5. Queued(s0, Runnable(s0)) /\ (Settled(s) => Settled(s0)) /\ s0.flags[MM] # {}
    <3>1. Runnable(s0) = Runnable(s) BY <2>4 DEF Runnable
    <3> QED BY <3>1, <2>0, <2>4, QueuedSame, SettledSame
  <2>6. /\ Keeps(s0, t) /\ t.flags = [s0.flags EXCEPT ![MM] = @ \ {"RECEIVING"}]
        /\ t.getfrom = [s0.getfrom EXCEPT ![MM] = ANY] /\ t.sendto = [s0.sendto EXCEPT ![MM] = @]
        /\ Queued(t, Runnable(t))
        /\ Settled(s0) /\ s0.proc_ptr \in Task => Settled(t) /\ t.proc_ptr = s0.proc_ptr
    BY <2>0, <2>4, <2>5, ReleaseLemma
  <2> HIDE DEF t
  <2>7. /\ t \in Table /\ t.sendto = s.sendto /\ t.flags = [s.flags EXCEPT ![MM] = @ \ {"RECEIVING"}]
        /\ t.getfrom = [s.getfrom EXCEPT ![MM] = ANY]
    BY <2>0, <2>4, <2>6 DEF Keeps, Table
  <2>8. FlagsOK(t) BY <2>0, <2>7, ProcFacts, FlagsReceived
  <2>9. IsFiniteSet(s.pending[p]) /\ Cardinality(s.pending[p] \ {SIGSTKFLT}) \in Nat
        /\ Cardinality(s.pending[p]) \in Nat
        /\ Cardinality(s.pending[p]) = Cardinality(s.pending[p] \ {SIGSTKFLT})
                                      + (IF SIGSTKFLT \in s.pending[p] THEN 1 ELSE 0)
    BY <2>0, <2>1, PendingFinite, CountWithout
  <2>10. /\ u \in Table /\ u.flags = [t.flags EXCEPT ![p] = @ \ {"PENDING"}]
         /\ u.pending = [s.pending EXCEPT ![p] = {}]
         /\ u.court = [s.court EXCEPT ![p] = @ + Cardinality(s.pending[p] \ {SIGSTKFLT})]
         /\ u.getfrom = t.getfrom /\ u.sendto = t.sendto /\ u.callerq = s.callerq
         /\ u.pendcount = s.pendcount /\ u.sig_procs = s.sig_procs - 1 /\ u.held = s.held
         /\ u.int_blocked = s.int_blocked /\ u.rdy = t.rdy /\ u.proc_ptr = t.proc_ptr
         /\ u.bill_ptr = t.bill_ptr /\ u.shadow = t.shadow
    <3>1. t.court[p] \in Nat /\ t.court[p] + Cardinality(s.pending[p] \ {SIGSTKFLT}) \in Nat
      BY <2>1, <2>7, <2>9 DEF Table
    <3>2. /\ t.callerq = s.callerq /\ t.pendcount = s.pendcount /\ t.sig_procs = s.sig_procs - 1
          /\ t.held = s.held /\ t.int_blocked = s.int_blocked /\ t.pending = s.pending
          /\ t.court = s.court
      BY <2>4, <2>6 DEF Keeps
    <3>3. p \in User /\ p \in Proc BY <2>1, UserKind
    <3> QED BY <3>1, <3>2, <3>3, <2>7 DEF Table
  <2> HIDE DEF u
  <2>11. /\ u.flags[MM] = s.flags[MM] \ {"RECEIVING"} /\ u.flags[p] = s.flags[p] \ {"PENDING"}
         /\ \A x \in Proc \ {MM, p} : u.flags[x] = s.flags[x]
    <3>1. p \in Proc /\ p # MM BY <2>1, UserKind
    <3>2. s.flags \in [Proc -> SUBSET Flag] BY <2>0 DEF Table
    <3>3. u.flags = [[s.flags EXCEPT ![MM] = @ \ {"RECEIVING"}] EXCEPT ![p] = @ \ {"PENDING"}]
      BY <2>7, <2>10
    <3> QED BY <2>0, <3>1, <3>2, <3>3
  <2>12. Queued(u, Runnable(u)) /\ (Settled(t) => Settled(u))
    <3>1. Runnable(u) = Runnable(t)
      <4>1. t.flags[p] # {} /\ u.flags[p] # {}
        <5>1. t.flags[p] = s.flags[p] BY <2>0, <2>1, <2>7, UserKind DEF Table
        <5> QED BY <5>1, <2>1, <2>3, <2>11
      <4>2. \A x \in Proc \ {p} : u.flags[x] = t.flags[x] BY <2>10, <2>7 DEF Table
      <4> QED BY <4>1, <4>2 DEF Runnable
    <3> QED BY <3>1, <2>6, <2>7, <2>10, QueuedSame, SettledSame
  <2>13. /\ v \in Table /\ Queued(v, Runnable(v))
         /\ v.getfrom = u.getfrom /\ v.sendto = u.sendto /\ v.callerq = u.callerq
         /\ v.pending = u.pending /\ v.court = u.court /\ v.sig_procs = u.sig_procs
         /\ v.held = u.held /\ v.int_blocked = u.int_blocked
         /\ v.pendcount = [s.pendcount EXCEPT ![p] = @ - (IF SIGSTKFLT \in s.pending[p] THEN 1 ELSE 0)]
         /\ v.flags = IF SIGSTKFLT \in s.pending[p] /\ s.pendcount[p] = 1
                      THEN [u.flags EXCEPT ![p] = @ \ {"SIG_PENDING"}] ELSE u.flags
         /\ Settled(u) /\ u.proc_ptr \in Task => Settled(v) /\ v.proc_ptr = u.proc_ptr
    <3>1. CASE SIGSTKFLT \in s.pending[p]
      <4>1. u.pendcount[p] > 0 /\ "SIG_PENDING" \in u.flags[p] /\ u.pendcount = s.pendcount
        <5>1. s.pendcount[p] \in Nat BY <2>0, <2>1 DEF Table
        <5> QED BY <5>1, <2>3, <2>10, <2>11
      <4>2. v = EndOne(u, p) BY <3>1
      <4> HIDE DEF v
      <4>3. LET e == EndOne(u, p)
            IN  /\ e \in Table /\ Queued(e, Runnable(e))
                /\ e.pendcount = [u.pendcount EXCEPT ![p] = @ - 1]
                /\ e.flags = IF u.pendcount[p] = 1 THEN [u.flags EXCEPT ![p] = @ \ {"SIG_PENDING"}]
                             ELSE u.flags
                /\ e.getfrom = u.getfrom /\ e.sendto = u.sendto /\ e.callerq = u.callerq
                /\ e.pending = u.pending /\ e.court = u.court /\ e.sig_procs = u.sig_procs
                /\ e.held = u.held /\ e.int_blocked = u.int_blocked
                /\ Settled(u) /\ u.proc_ptr \in Task => Settled(e) /\ e.proc_ptr = u.proc_ptr
        BY <4>1, <2>1, <2>10, <2>12, EndOneLemma
      <4> QED BY <3>1, <4>1, <4>2, <4>3
    <3>2. CASE SIGSTKFLT \notin s.pending[p]
      <4>1. v = u BY <3>2
      <4>2. s.pendcount = [s.pendcount EXCEPT ![p] = @ - 0] BY <2>0, <2>1 DEF Table
      <4> HIDE DEF v
      <4> QED BY <3>2, <4>1, <4>2, <2>10, <2>12
    <3> QED BY <3>1, <3>2
  <2> HIDE DEF v
  <2>14. QueuesOnly(v, w) /\ w.rdy = v.rdy BY <2>2, <2>13, PickFrame
  <2>15. Queued(w, Runnable(w))
    <3>1. Runnable(w) = Runnable(v) BY <2>14 DEF Runnable, QueuesOnly
    <3> QED BY <3>1, <2>13, <2>14, QueuedSame DEF QueuesOnly
  <2>16. Settled(w) BY <2>2, <2>13, PickSettled
  <2>17. Settled(s) /\ s.proc_ptr \in Task => w.proc_ptr = s.proc_ptr
    BY <2>2, <2>4, <2>5, <2>6, <2>10, <2>12, <2>13 DEF Settled
  <2>18. /\ w.flags[MM] = s.flags[MM] \ {"RECEIVING"}
         /\ w.flags[p] = s.flags[p] \ (IF SIGSTKFLT \in s.pending[p] /\ s.pendcount[p] = 1
                                       THEN {"PENDING", "SIG_PENDING"} ELSE {"PENDING"})
         /\ \A x \in Proc \ {MM, p} : w.flags[x] = s.flags[x]
    <3>1. w.flags = v.flags BY <2>14 DEF QueuesOnly
    <3>2. p \in Proc /\ p # MM /\ u.flags \in [Proc -> SUBSET Flag] BY <2>1, <2>10, UserKind DEF Table
    <3> QED BY <3>1, <3>2, <2>11, <2>13
  <2>19. FlagsOK(w)
    <3>1. w.getfrom = t.getfrom /\ w.sendto = t.sendto BY <2>10, <2>13, <2>14 DEF QueuesOnly
    <3>2. /\ t.flags[MM] = s.flags[MM] \ {"RECEIVING"}
          /\ \A x \in Proc \ {MM} : t.flags[x] = s.flags[x]
      BY <2>0, <2>7 DEF Table
    <3>3. "P_SLOT_FREE" \notin s.flags[p] BY <2>0, <2>1, Kinds DEF FlagsOK
    <3>4. p \in Proc /\ p # MM BY <2>1, Kinds
    <3>5. ASSUME NEW x \in Proc
          PROVE  /\ x \notin User => w.flags[x] = t.flags[x]
                 /\ "SENDING" \in w.flags[x] <=> "SENDING" \in t.flags[x]
                 /\ "RECEIVING" \in w.flags[x] <=> "RECEIVING" \in t.flags[x]
                 /\ "P_SLOT_FREE" \in w.flags[x] => w.flags[x] = t.flags[x]
      BY <2>1, <2>18, <3>2, <3>3, <3>4
    <3> QED BY <3>1, <3>5, <2>8, FlagsSame
  <2>20. CallersListed(w)
    <3>1. w.callerq = s.callerq /\ w.sendto = s.sendto BY <2>7, <2>10, <2>13, <2>14 DEF QueuesOnly
    <3>2. \A x \in Proc : "SENDING" \in w.flags[x] <=> "SENDING" \in s.flags[x] BY <2>18
    <3> QED BY <3>1, <3>2, <2>0, CallersSame
  <2>21. SigCounted(w)
    <3> DEFINE P == {x \in User : "PENDING" \in s.flags[x]}
               Q == {x \in User : "PENDING" \in w.flags[x]}
    <3>0. p \in Proc /\ p # MM /\ MM \notin User /\ User \subseteq Proc BY <2>1, Kinds
    <3>1. \A x \in User \ {p} : w.flags[x] = s.flags[x] BY <3>0, <2>18
    <3>2. "PENDING" \notin w.flags[p] BY <2>18
    <3>3. Q = P \ {p} /\ p \in P BY <3>1, <3>2, <2>1
    <3>4. IsFiniteSet(P) BY UserFinite, FS_Subset
    <3>5. Cardinality(Q) = Cardinality(P) - 1 BY <3>3, <3>4, FS_RemoveElement
    <3>6. w.sig_procs = Cardinality(Q) BY <3>5, <2>0, <2>10, <2>13, <2>14 DEF SigCounted, QueuesOnly
    <3>7. /\ w.pending = [s.pending EXCEPT ![p] = {}]
          /\ w.court = [s.court EXCEPT ![p] = @ + Cardinality(s.pending[p] \ {SIGSTKFLT})]
          /\ w.pendcount = [s.pendcount EXCEPT ![p] = @ - (IF SIGSTKFLT \in s.pending[p] THEN 1 ELSE 0)]
      BY <2>10, <2>13, <2>14 DEF QueuesOnly
    <3>8. ASSUME NEW x \in User, x # p
          PROVE  /\ "PENDING" \in w.flags[x] <=> w.pending[x] # {}
                 /\ "SIG_PENDING" \in w.flags[x] <=> w.pendcount[x] > 0
                 /\ w.pendcount[x] = Cardinality(w.pending[x]) + w.court[x]
      <4>1. w.pending[x] = s.pending[x] /\ w.court[x] = s.court[x] /\ w.pendcount[x] = s.pendcount[x]
        BY <3>7, <3>8, <2>0 DEF Table
      <4> QED BY <4>1, <3>1, <3>8, <2>0 DEF SigCounted
    <3>9. /\ "PENDING" \in w.flags[p] <=> w.pending[p] # {}
          /\ "SIG_PENDING" \in w.flags[p] <=> w.pendcount[p] > 0
          /\ w.pendcount[p] = Cardinality(w.pending[p]) + w.court[p]
      <4>1. /\ w.pending[p] = {} /\ w.court[p] = s.court[p] + Cardinality(s.pending[p] \ {SIGSTKFLT})
            /\ w.pendcount[p] = s.pendcount[p] - (IF SIGSTKFLT \in s.pending[p] THEN 1 ELSE 0)
            /\ s.court[p] \in Nat /\ s.pendcount[p] \in Nat
        BY <3>7, <2>0, <2>1 DEF Table
      <4>2. s.pendcount[p] = Cardinality(s.pending[p]) + s.court[p] BY <2>0, <2>1 DEF SigCounted
      <4>3. Cardinality({}) = 0 BY FS_EmptySet
      <4>4. w.pendcount[p] = Cardinality(w.pending[p]) + w.court[p] BY <4>1, <4>2, <4>3, <2>9
      <4>5. "SIG_PENDING" \in w.flags[p] <=> w.pendcount[p] > 0 BY <4>1, <2>3, <2>18
      <4> QED BY <4>1, <4>4, <4>5, <3>2
    <3> QED BY <3>6, <3>8, <3>9 DEF SigCounted
  <2>22. /\ \A x \in User : "RECEIVING" \in w.flags[x] <=> "RECEIVING" \in s.flags[x]
         /\ Stays(s, w)
    BY <2>1, <2>18, Kinds DEF Stays
  <2>23. w \in Table /\ w.held = s.held /\ w.int_blocked = s.int_blocked
    BY <2>10, <2>13, <2>14 DEF QueuesOnly
  <2> QED BY <2>15, <2>16, <2>17, <2>19, <2>20, <2>21, <2>22, <2>23 DEF Good, w
<1> QED BY <1>1, <1>2

-----------------------------------------------------------------------------
(***************************************************************************)
(* cause_sig, and the process at the head of its queue.                    *)
(***************************************************************************)
\* cause_sig() preserves the agreement, and leaves a running task running.
LEMMA CauseSig ==
  ASSUME NEW s, Good(s), NEW p \in User, "P_SLOT_FREE" \notin s.flags[p], NEW sig \in Sig
  PROVE  LET w == cause_sig(s, p, sig)
         IN  /\ Good(w) /\ w.held = s.held /\ w.int_blocked = s.int_blocked
             /\ Settled(s) => Settled(w)
             /\ Settled(s) /\ s.proc_ptr \in Task => w.proc_ptr = s.proc_ptr
             /\ \A x \in User : "RECEIVING" \in w.flags[x] <=> "RECEIVING" \in s.flags[x]
             /\ Stays(s, w)
<1> DEFINE w == cause_sig(s, p, sig)
           t == [s EXCEPT !.pending[p] = @ \cup {sig}, !.pendcount[p] = @ + 1]
           b == Block(t, p, {"PENDING", "SIG_PENDING"})
           u == [b EXCEPT !.sig_procs = @ + 1]
<1>0. /\ s \in Table /\ Queued(s, Runnable(s)) /\ FlagsOK(s) /\ CallersListed(s) /\ SigCounted(s)
      /\ p \in Proc \ {IDLE, HARDWARE} /\ p # MM /\ {"PENDING", "SIG_PENDING"} \in SUBSET Flag
      /\ s.pendcount[p] \in Nat /\ s.court[p] \in Nat /\ s.sig_procs \in Nat
  BY UserKind DEF Good, Flag, Table
<1>1. CASE sig \in s.pending[p] BY <1>1 DEF cause_sig, Stays
<1>2. CASE sig \notin s.pending[p]
  <2>1. /\ t \in Table /\ t.flags = s.flags /\ t.callerq = s.callerq /\ t.getfrom = s.getfrom
        /\ t.sendto = s.sendto /\ t.rdy = s.rdy /\ t.proc_ptr = s.proc_ptr
        /\ t.bill_ptr = s.bill_ptr /\ t.shadow = s.shadow /\ t.held = s.held
        /\ t.int_blocked = s.int_blocked /\ t.pending = [s.pending EXCEPT ![p] = @ \cup {sig}]
        /\ t.pendcount = [s.pendcount EXCEPT ![p] = @ + 1]
        /\ t.court = s.court /\ t.sig_procs = s.sig_procs
    <3>1. s.pendcount[p] + 1 \in Nat BY <1>0
    <3> QED BY <3>1, <1>0 DEF Table
  <2>2. /\ w = IF "PENDING" \in s.flags[p] THEN t
               ELSE IF "RECEIVING" \in u.flags[MM] /\ u.getfrom[MM] = ANY THEN inform(u) ELSE u
    BY <1>2 DEF cause_sig
  <2> HIDE DEF t, w
  <2>3. Queued(t, Runnable(t)) /\ (Settled(s) => Settled(t))
    <3>1. Runnable(t) = Runnable(s) BY <2>1 DEF Runnable
    <3> QED BY <3>1, <1>0, <2>1, QueuedSame, SettledSame
  <2>4. ASSUME NEW x \in User
        PROVE  /\ t.pending[x] # {} <=> (x = p \/ s.pending[x] # {})
               /\ t.pendcount[x] > 0 <=> (x = p \/ s.pendcount[x] > 0)
               /\ t.pendcount[x] = Cardinality(t.pending[x]) + t.court[x]
    <3>1. CASE x # p
      <4>1. t.pending[x] = s.pending[x] /\ t.pendcount[x] = s.pendcount[x]
        BY <3>1, <1>0, <2>1 DEF Table
      <4> QED BY <4>1, <3>1, <1>0, <2>1 DEF SigCounted
    <3>2. CASE x = p
      <4>1. t.pending[p] = s.pending[p] \cup {sig} /\ t.pendcount[p] = s.pendcount[p] + 1
        BY <1>0, <2>1 DEF Table
      <4>2. Cardinality(t.pending[p]) = Cardinality(s.pending[p]) + 1 /\ Cardinality(s.pending[p]) \in Nat
        BY <4>1, <1>0, <1>2, PendingFinite, FS_AddElement
      <4>3. s.pendcount[p] = Cardinality(s.pending[p]) + s.court[p] BY <1>0 DEF SigCounted
      <4> QED BY <3>2, <4>1, <4>2, <4>3, <1>0, <2>1
    <3> QED BY <3>1, <3>2
  <2>5. CASE "PENDING" \in s.flags[p]
    <3>1. w = t BY <2>2, <2>5
    <3>2. FlagsOK(t) BY <1>0, <2>1, FlagsSame
    <3>3. CallersListed(t) BY <1>0, <2>1, CallersSame
    <3>4. SigCounted(t)
      <4>1. "SIG_PENDING" \in s.flags[p] /\ s.pending[p] # {}
        BY <1>0, <2>5, PendingCount DEF SigCounted
      <4>2. t.sig_procs = Cardinality({x \in User : "PENDING" \in t.flags[x]})
        BY <1>0, <2>1 DEF SigCounted
      <4>3. ASSUME NEW x \in User
            PROVE  /\ "PENDING" \in t.flags[x] <=> t.pending[x] # {}
                   /\ "SIG_PENDING" \in t.flags[x] <=> t.pendcount[x] > 0
        BY <4>1, <1>0, <2>1, <2>4, <2>5 DEF SigCounted
      <4> QED BY <4>2, <4>3, <2>4 DEF SigCounted
    <3> QED BY <3>1, <3>2, <3>3, <3>4, <2>1, <2>3 DEF Good, Stays, w
  <2>6. CASE "PENDING" \notin s.flags[p]
    <3>1. /\ Keeps(t, b) /\ b.getfrom = t.getfrom /\ b.sendto = t.sendto
          /\ b.flags = [t.flags EXCEPT ![p] = @ \cup {"PENDING", "SIG_PENDING"}]
          /\ Queued(b, Runnable(b))
          /\ Settled(t) => Settled(b) /\ (t.proc_ptr # p => b.proc_ptr = t.proc_ptr)
      BY <1>0, <2>1, <2>3, BlockLemma
    <3> HIDE DEF b
    <3>2. /\ u \in Table /\ u.flags = [s.flags EXCEPT ![p] = @ \cup {"PENDING", "SIG_PENDING"}]
          /\ u.callerq = s.callerq /\ u.getfrom = s.getfrom
          /\ u.sendto = s.sendto /\ u.rdy = b.rdy /\ u.proc_ptr = b.proc_ptr
          /\ u.bill_ptr = b.bill_ptr /\ u.shadow = b.shadow /\ u.held = s.held
          /\ u.int_blocked = s.int_blocked /\ u.pending = t.pending
          /\ u.pendcount = t.pendcount /\ u.court = t.court /\ u.sig_procs = s.sig_procs + 1
      <4>1. b \in Table /\ b.sig_procs = s.sig_procs /\ s.sig_procs + 1 \in Nat
        BY <1>0, <2>1, <3>1 DEF Keeps
      <4>2. /\ b.callerq = s.callerq /\ b.held = s.held /\ b.int_blocked = s.int_blocked
            /\ b.pending = t.pending /\ b.pendcount = t.pendcount /\ b.court = t.court
            /\ b.flags = [s.flags EXCEPT ![p] = @ \cup {"PENDING", "SIG_PENDING"}]
        BY <2>1, <3>1 DEF Keeps
      <4> QED BY <4>1, <4>2, <2>1, <3>1 DEF Table
    <3> HIDE DEF u
    <3>3. /\ u.flags[p] = s.flags[p] \cup {"PENDING", "SIG_PENDING"}
          /\ \A x \in Proc \ {p} : u.flags[x] = s.flags[x]
      BY <1>0, <3>2 DEF Table
    <3>4. Queued(u, Runnable(u)) /\ (Settled(b) => Settled(u))
      <4>1. Runnable(u) = Runnable(b) BY <2>1, <3>1, <3>2 DEF Runnable
      <4> QED BY <4>1, <3>1, <3>2, QueuedSame, SettledSame DEF Keeps
    <3>5. FlagsOK(u)
      <4>1. ASSUME NEW x \in Proc
            PROVE  /\ x \notin User => u.flags[x] = s.flags[x]
                   /\ "SENDING" \in u.flags[x] <=> "SENDING" \in s.flags[x]
                   /\ "RECEIVING" \in u.flags[x] <=> "RECEIVING" \in s.flags[x]
                   /\ "P_SLOT_FREE" \in u.flags[x] => u.flags[x] = s.flags[x]
        BY <3>3
      <4> QED BY <4>1, <1>0, <3>2, FlagsSame
    <3>6. CallersListed(u)
      <4>1. \A x \in Proc : "SENDING" \in u.flags[x] <=> "SENDING" \in s.flags[x] BY <3>3
      <4> QED BY <4>1, <1>0, <3>2, CallersSame
    <3>7. SigCounted(u)
      <4> DEFINE P == {x \in User : "PENDING" \in s.flags[x]}
                 Q == {x \in User : "PENDING" \in u.flags[x]}
      <4>1. \A x \in User \ {p} : u.flags[x] = s.flags[x] BY <3>3, UserKind
      <4>2. Q = P \cup {p} /\ p \notin P BY <2>6, <3>3, <4>1
      <4>3. IsFiniteSet(P) BY UserFinite, FS_Subset
      <4>4. Cardinality(Q) = Cardinality(P) + 1 BY <4>2, <4>3, FS_AddElement
      <4>5. u.sig_procs = Cardinality(Q) BY <4>4, <1>0, <3>2 DEF SigCounted
      <4>6. ASSUME NEW x \in User
            PROVE  /\ "PENDING" \in u.flags[x] <=> u.pending[x] # {}
                   /\ "SIG_PENDING" \in u.flags[x] <=> u.pendcount[x] > 0
                   /\ u.pendcount[x] = Cardinality(u.pending[x]) + u.court[x]
        BY <4>1, <1>0, <2>4, <3>2, <3>3 DEF SigCounted
      <4> QED BY <4>5, <4>6 DEF SigCounted
    <3>8. Good(u) BY <3>2, <3>4, <3>5, <3>6, <3>7 DEF Good
    <3>9. /\ \A x \in User : "RECEIVING" \in u.flags[x] <=> "RECEIVING" \in s.flags[x]
          /\ Stays(s, u)
      BY <3>3, UserKind DEF Stays
    <3>10. /\ Settled(s) => Settled(u)
           /\ Settled(s) /\ s.proc_ptr \in Task => u.proc_ptr = s.proc_ptr
      BY <2>1, <2>3, <3>1, <3>2, <3>4, UserKind
    <3>11. CASE "RECEIVING" \in u.flags[MM] /\ u.getfrom[MM] = ANY
      <4>1. "SENDING" \notin u.flags[MM] BY <3>5, <3>11, ProcFacts DEF FlagsOK
      <4>2. w = inform(u) BY <2>2, <2>6, <3>11
      <4>3. LET v == inform(u)
            IN  /\ Good(v) /\ v.held = u.held /\ v.int_blocked = u.int_blocked
                /\ Settled(u) => Settled(v)
                /\ Settled(u) /\ u.proc_ptr \in Task => v.proc_ptr = u.proc_ptr
                /\ \A x \in User : "RECEIVING" \in v.flags[x] <=> "RECEIVING" \in u.flags[x]
                /\ Stays(u, v)
        BY <4>1, <3>8, <3>11, InformLemma
      <4>4. Stays(s, w) BY <4>2, <4>3, <3>9 DEF Stays
      <4> QED BY <4>2, <4>3, <4>4, <3>2, <3>9, <3>10 DEF w
    <3>12. CASE ~("RECEIVING" \in u.flags[MM] /\ u.getfrom[MM] = ANY)
      <4>1. w = u BY <2>2, <2>6, <3>12
      <4> QED BY <4>1, <3>2, <3>8, <3>9, <3>10 DEF w
    <3> QED BY <3>11, <3>12
  <2> QED BY <2>5, <2>6
<1> QED BY <1>1, <1>2

\* The running process, known to be the first of its queue.
\* p runs and is the head of its queue.
OnTop(s, p) ==
  /\ s.proc_ptr = p /\ s.flags[p] = {}
  /\ s.rdy[QueueOf(s, p)] # << >> /\ Head(s.rdy[QueueOf(s, p)]) = p

\* If the running process blocks, the next choice is right, whatever the
\* choice was before.
LEMMA BlockOnTop ==
  ASSUME NEW s \in Table, NEW p \in Proc, OnTop(s, p), NEW bits \in SUBSET Flag
  PROVE  Settled(Block(s, p, bits))
<1> DEFINE q == QueueOf(s, p)
           t == [s EXCEPT !.rdy[q] = Unlink(@, p)]
           v == pick_proc(t)
           b == [v EXCEPT !.flags[p] = @ \cup bits]
<1>1. unready(s, p) = v BY DEF unready, OnTop
<1>2. Block(s, p, bits) = b BY <1>1 DEF Block, OnTop
<1>3. q \in Queue BY QueueOfType
<1>4. unready(s, p).rdy = [s.rdy EXCEPT ![q] = Unlink(@, p)] /\ unready(s, p) \in Table
  BY UnreadyFrame DEF QueuesOnly
<1>5. t \in Table BY <1>3, <1>4 DEF Table
<1> HIDE DEF t
<1>6. Settled(v) /\ v \in Table BY <1>5, PickSettled, PickFrame DEF QueuesOnly
<1> HIDE DEF v
<1>7. b \in Table /\ b.rdy = v.rdy /\ b.proc_ptr = v.proc_ptr /\ b.bill_ptr = v.bill_ptr
  BY <1>6 DEF Table
<1> HIDE DEF b
<1> QED BY <1>2, <1>6, <1>7, SettledSame

\* The running process is runnable and at the head of its queue.
LEMMA RunningOnTop ==
  ASSUME NEW s, Good(s), Settled(s), s.proc_ptr # IDLE
  PROVE  OnTop(s, s.proc_ptr) /\ s.proc_ptr \in Proc \ {IDLE, HARDWARE}
<1>1. s \in Table /\ Queued(s, Runnable(s)) /\ Runnable(s) \in SUBSET Proc
  BY DEF Good, Runnable
<1>2. \E q \in Queue : s.rdy[q] # << >> /\ s.proc_ptr = Head(s.rdy[q])
  BY <1>1, SettledCases DEF Queue
<1>3. PICK q \in Queue : s.rdy[q] # << >> /\ s.proc_ptr = Head(s.rdy[q])
  BY <1>2
<1>4. s.proc_ptr \in Runnable(s) /\ QueueOf(s, s.proc_ptr) = q
  BY <1>1, <1>3, HeadQueued
<1> QED BY <1>3, <1>4 DEF OnTop, Runnable

\* The queue of a process tells its class.
LEMMA QueueKind ==
  ASSUME NEW s, NEW p \in Proc
  PROVE  /\ p \in Task => QueueOf(s, p) = TASK_Q
         /\ p \in Server => QueueOf(s, p) = SERVER_Q
         /\ p \in User => QueueOf(s, p) # TASK_Q /\ QueueOf(s, p) # SERVER_Q
BY DEF QueueOf, istaskp, isuserp, Task, Server, User, TASK_Q, SERVER_Q, USER_Q, SHADOW_Q, MM, FS,
   LOW_USER, IDLE, Proc

\* A user that wakes a server stays at the head of its queue.
LEMMA ReleaseOnTop ==
  ASSUME NEW s \in Table, NEW c \in User, OnTop(s, c), NEW d \in Server, NEW bits \in SUBSET Flag
  PROVE  OnTop(Release(s, d, bits), c)
<1> DEFINE r == Clear(s, d, bits)
           t == Release(s, d, bits)
<1>0. c \in Proc /\ d \in Proc /\ c # d BY Kinds
<1>1. /\ Keeps(s, r) /\ r.rdy = s.rdy /\ r.proc_ptr = s.proc_ptr /\ r.bill_ptr = s.bill_ptr
      /\ r.flags = [s.flags EXCEPT ![d] = @ \ bits]
      /\ r.getfrom = [s.getfrom EXCEPT ![d] = IF "RECEIVING" \in bits THEN ANY ELSE @]
      /\ r.sendto = [s.sendto EXCEPT ![d] = IF "SENDING" \in bits THEN HARDWARE ELSE @]
  BY <1>0, ClearFrame
<1>2. t = IF r.flags[d] = {} THEN ready(r, d) ELSE r BY DEF Release
<1> HIDE DEF r, t
<1>3. r \in Table /\ r.shadow = s.shadow /\ r.flags[c] = s.flags[c]
  BY <1>0, <1>1 DEF Keeps, Table
<1>4. QueueOf(r, d) = SERVER_Q /\ QueueOf(r, c) = QueueOf(s, c) /\ QueueOf(s, c) # SERVER_Q
  <2>1. QueueOf(r, d) = SERVER_Q BY <1>0, QueueKind
  <2>2. QueueOf(s, c) # SERVER_Q BY <1>0, QueueKind
  <2>3. QueueOf(r, c) = QueueOf(s, c) BY <1>3, SameQueueOf
  <2> QED BY <2>1, <2>2, <2>3
<1>5. QueuesOnly(r, ready(r, d)) BY <1>0, <1>3, ReadyFrame
<1>6. /\ ready(r, d).proc_ptr = r.proc_ptr
      /\ ready(r, d).rdy = [r.rdy EXCEPT ![SERVER_Q] = Append(@, d)]
  BY <1>3, <1>4 DEF ready, Table, SERVER_Q, USER_Q, TASK_Q
<1>7. /\ t.proc_ptr = s.proc_ptr /\ t.flags[c] = s.flags[c] /\ t.shadow = s.shadow
      /\ t.rdy[QueueOf(s, c)] = s.rdy[QueueOf(s, c)]
  <2>1. QueueOf(s, c) \in Queue BY QueueOfType
  <2>2. /\ ready(r, d).flags = r.flags /\ ready(r, d).shadow = r.shadow
        /\ ready(r, d).rdy[QueueOf(s, c)] = r.rdy[QueueOf(s, c)]
    BY <2>1, <1>3, <1>4, <1>5, <1>6 DEF QueuesOnly, Table
  <2> QED BY <2>2, <1>1, <1>2, <1>3, <1>6
<1>8. QueueOf(t, c) = QueueOf(s, c) BY <1>7, SameQueueOf
<1> QED BY <1>7, <1>8 DEF OnTop, t

-----------------------------------------------------------------------------
(***************************************************************************)
(* Receiving.                                                              *)
(***************************************************************************)
\* Nobody is ever blocked sending to a user: users send to servers only,
\* and servers and tasks answer only users that wait.
LEMMA NobodyCallsUsers ==
  ASSUME NEW s, Good(s), NEW c \in User
  PROVE  s.callerq[c] = << >>
<1>1. Lists(s.callerq[c], Senders(s, c)) /\ c \in Proc /\ s.callerq[c] \in Seq(Proc)
  BY UserKind DEF Good, CallersListed, Table
<1>2. Senders(s, c) = {} BY UserKind DEF Good, FlagsOK, Senders
<1>3. ASSUME Len(s.callerq[c]) # 0 PROVE FALSE
  <2>1. 1 \in 1 .. Len(s.callerq[c]) /\ s.callerq[c][1] \in Proc BY <1>1, <1>3
  <2>2. Contains(s.callerq[c], s.callerq[c][1]) BY <2>1 DEF Contains
  <2> QED BY <1>1, <1>2, <2>1, <2>2 DEF Lists
<1> QED BY <1>1, <1>3

\* mini_rec() takes a sender off the caller queue and releases it.
LEMMA TakeSender ==
  ASSUME NEW s, Good(s), NEW c \in Proc, "SENDING" \notin s.flags[c], NEW i \in 1 .. Len(s.callerq[c])
  PROVE  LET x == s.callerq[c][i]
             r == [s EXCEPT !.callerq[c] = UnlinkAt(@, i)]
             t == Release(r, x, {"SENDING"})
         IN  /\ Good(t)
             /\ Settled(s) /\ s.proc_ptr \in Task \cup Server => Settled(t)
<1> DEFINE x == s.callerq[c][i]
           r == [s EXCEPT !.callerq[c] = UnlinkAt(@, i)]
           t == Release(r, x, {"SENDING"})
<1>0. /\ s \in Table /\ Queued(s, Runnable(s)) /\ FlagsOK(s) /\ CallersListed(s) /\ SigCounted(s)
      /\ {"SENDING"} \in SUBSET Flag
  BY DEF Good, Flag
<1>1. s.callerq[c] \in Seq(Proc) /\ x \in Proc /\ Lists(s.callerq[c], Senders(s, c))
  BY <1>0 DEF Table, CallersListed
<1>2. x \in Senders(s, c)
  <2>1. Contains(s.callerq[c], x) BY DEF Contains
  <2> QED BY <2>1, <1>1 DEF Lists
<1>3. "SENDING" \in s.flags[x] /\ s.sendto[x] = c /\ x \in Proc \ {IDLE, HARDWARE} /\ x # c
  BY <1>0, <1>2 DEF Senders, FlagsOK
<1>4. UnlinkAt(s.callerq[c], i) \in Seq(Proc) /\ Lists(UnlinkAt(s.callerq[c], i), Senders(s, c) \ {x})
  BY <1>1, UnlinkAtLists
<1> HIDE DEF x
<1>5. /\ r \in Table /\ r.callerq = [s.callerq EXCEPT ![c] = UnlinkAt(@, i)] /\ r.flags = s.flags
      /\ r.getfrom = s.getfrom /\ r.sendto = s.sendto /\ r.rdy = s.rdy /\ r.proc_ptr = s.proc_ptr
      /\ r.bill_ptr = s.bill_ptr /\ r.shadow = s.shadow /\ r.pending = s.pending
      /\ r.pendcount = s.pendcount /\ r.court = s.court /\ r.sig_procs = s.sig_procs
  BY <1>0, <1>4 DEF Table
<1> HIDE DEF r
<1>6. Queued(r, Runnable(r)) /\ (Settled(s) => Settled(r)) /\ r.flags[x] # {}
  <2>1. Runnable(r) = Runnable(s) BY <1>5 DEF Runnable
  <2> QED BY <2>1, <1>0, <1>3, <1>5, QueuedSame, SettledSame
<1>7. /\ Keeps(r, t) /\ t.flags = [r.flags EXCEPT ![x] = @ \ {"SENDING"}]
      /\ t.getfrom = [r.getfrom EXCEPT ![x] = @]
      /\ t.sendto = [r.sendto EXCEPT ![x] = HARDWARE]
      /\ Queued(t, Runnable(t))
      /\ Settled(r) /\ (x \in Task \/ r.proc_ptr \in Task \cup Server) => Settled(t)
  BY <1>0, <1>3, <1>5, <1>6, ReleaseLemma
<1> HIDE DEF t
<1>8. /\ t.flags[x] = s.flags[x] \ {"SENDING"} /\ \A y \in Proc \ {x} : t.flags[y] = s.flags[y]
      /\ t.getfrom = s.getfrom /\ \A y \in Proc \ {x} : t.sendto[y] = s.sendto[y]
  <2>1. /\ s.flags \in [Proc -> SUBSET Flag] /\ s.getfrom \in [Proc -> Proc \cup {ANY}]
        /\ s.sendto \in [Proc -> Proc]
    BY <1>0 DEF Table
  <2>2. /\ t.flags = [s.flags EXCEPT ![x] = @ \ {"SENDING"}]
        /\ t.getfrom = [s.getfrom EXCEPT ![x] = @] /\ t.sendto = [s.sendto EXCEPT ![x] = HARDWARE]
    BY <1>5, <1>7
  <2> QED BY <2>1, <2>2, <1>3
<1>9. FlagsOK(t)
  <2>1. t.flags[HARDWARE] = {} /\ t.flags[IDLE] = {} BY <1>0, <1>3, <1>8, ProcFacts DEF FlagsOK
  <2>2. ASSUME NEW y \in Proc
        PROVE  /\ y \notin User => t.flags[y] \subseteq {"SENDING", "RECEIVING"}
               /\ "P_SLOT_FREE" \in t.flags[y] => t.flags[y] = {"P_SLOT_FREE"}
               /\ "RECEIVING" \in t.flags[y] /\ "SENDING" \in t.flags[y] => t.getfrom[y] # ANY
    BY <1>0, <1>8 DEF FlagsOK
  <2>3. ASSUME NEW y \in Proc, "SENDING" \in t.flags[y]
        PROVE  t.sendto[y] \in Task \cup Server /\ (y \in User => t.sendto[y] \in Server)
    BY <1>0, <1>8, <2>3 DEF FlagsOK
  <2> QED BY <2>1, <2>2, <2>3 DEF FlagsOK
<1>10. CallersListed(t)
  <2>0. t.callerq = [s.callerq EXCEPT ![c] = UnlinkAt(@, i)] BY <1>5, <1>7 DEF Keeps
  <2>1. ASSUME NEW d \in Proc, d # c PROVE Lists(t.callerq[d], Senders(t, d))
    <3>1. t.callerq[d] = s.callerq[d] BY <2>0, <2>1, <1>0 DEF Table
    <3>2. \A y \in Proc : y \in Senders(t, d) <=> y \in Senders(s, d)
      BY <1>3, <1>8, <2>1 DEF Senders
    <3>3. Senders(t, d) = Senders(s, d) BY <3>2 DEF Senders
    <3> QED BY <3>1, <3>3, <1>0 DEF CallersListed
  <2>2. Lists(t.callerq[c], Senders(t, c))
    <3>1. t.callerq[c] = UnlinkAt(s.callerq[c], i) BY <2>0, <1>0 DEF Table
    <3>2. \A y \in Proc : y \in Senders(t, c) <=> y \in Senders(s, c) \ {x}
      BY <1>3, <1>8 DEF Senders
    <3>3. Senders(t, c) = Senders(s, c) \ {x} BY <3>2 DEF Senders
    <3> QED BY <3>1, <3>3, <1>4
  <2> QED BY <2>1, <2>2 DEF CallersListed
<1>11. SigCounted(t)
  <2>1. \A y \in User : /\ "PENDING" \in t.flags[y] <=> "PENDING" \in s.flags[y]
                        /\ "SIG_PENDING" \in t.flags[y] <=> "SIG_PENDING" \in s.flags[y]
    BY <1>8, UserKind
  <2>2. /\ t.sig_procs = s.sig_procs /\ t.pending = s.pending
        /\ t.pendcount = s.pendcount /\ t.court = s.court
    BY <1>5, <1>7 DEF Keeps
  <2> QED BY <2>1, <2>2, <1>0, SigSame
<1> QED BY <1>5, <1>6, <1>7, <1>9, <1>10, <1>11 DEF Good, Keeps, t, r, x

\* mini_rec() preserves the agreement and leaves the right process running,
\* in all its branches: a queued sender, a blocked interrupt, a signal for MM.
LEMMA MiniRec ==
  ASSUME NEW s, Good(s), NEW c \in Proc \ {IDLE, HARDWARE}, s.flags[c] \in {{}, {"SENDING"}},
         NEW src \in Proc \cup {ANY}, "SENDING" \in s.flags[c] => src # ANY,
         \/ Settled(s) /\ (c \notin User /\ s.flags[c] = {} => s.proc_ptr \in Task \cup Server)
         \/ c \in User /\ OnTop(s, c)
  PROVE  Good(mini_rec(s, c, src)) /\ Settled(mini_rec(s, c, src))
<1> DEFINE from == Acceptable(s, c, src)
           i == CHOOSE j \in from : \A l \in from : j <= l
           t == [Block(s, c, {"RECEIVING"}) EXCEPT !.getfrom[c] = src]
<1>0. s \in Table BY DEF Good
<1>1. CASE "SENDING" \notin s.flags[c] /\ from # {}
  <2>1. from \in SUBSET Nat /\ from \subseteq 1 .. Len(s.callerq[c]) BY DEF Acceptable
  <2>2. i \in 1 .. Len(s.callerq[c])
    <3>1. \E j \in from : \A l \in from : j <= l BY <1>1, <2>1, LeastOfNat
    <3> QED BY <3>1, <2>1
  <2>3. c \notin User
    <3>1. SUFFICES ASSUME c \in User PROVE FALSE OBVIOUS
    <3>2. s.callerq[c] = << >> BY <3>1, NobodyCallsUsers
    <3> QED BY <3>2, <2>2
  <2>4. mini_rec(s, c, src) = Release([s EXCEPT !.callerq[c] = UnlinkAt(@, i)], s.callerq[c][i], {"SENDING"})
    BY <1>1 DEF mini_rec
  <2> HIDE DEF i
  <2>5. s.flags[c] = {} BY <1>1
  <2>6. Settled(s) /\ s.proc_ptr \in Task \cup Server BY <2>3, <2>5
  <2>7. LET x == s.callerq[c][i]
            r == [s EXCEPT !.callerq[c] = UnlinkAt(@, i)]
            u == Release(r, x, {"SENDING"})
        IN  /\ Good(u)
            /\ Settled(s) /\ s.proc_ptr \in Task \cup Server => Settled(u)
    BY <1>1, <2>2, TakeSender
  <2> QED BY <2>4, <2>6, <2>7
<1>2. CASE /\ ~("SENDING" \notin s.flags[c] /\ from # {})
           /\ "SENDING" \notin s.flags[c] /\ c \in s.int_blocked /\ isrxhardware(src)
  <2> DEFINE r == [s EXCEPT !.int_blocked = @ \ {c}]
  <2>1. mini_rec(s, c, src) = r BY <1>2 DEF mini_rec
  <2>2. c \in Task /\ c \notin User BY <1>0, <1>2, Kinds DEF Table
  <2>3. /\ r \in Table /\ r.flags = s.flags /\ r.callerq = s.callerq /\ r.getfrom = s.getfrom
        /\ r.sendto = s.sendto /\ r.rdy = s.rdy /\ r.proc_ptr = s.proc_ptr
        /\ r.bill_ptr = s.bill_ptr /\ r.shadow = s.shadow /\ r.pending = s.pending
        /\ r.pendcount = s.pendcount /\ r.court = s.court /\ r.sig_procs = s.sig_procs
    BY <1>0 DEF Table
  <2> HIDE DEF r
  <2>4. Good(r) /\ (Settled(s) => Settled(r)) BY <2>3, GoodSame
  <2> QED BY <2>1, <2>2, <2>4
<1>3. CASE /\ ~("SENDING" \notin s.flags[c] /\ from # {})
           /\ ~("SENDING" \notin s.flags[c] /\ c \in s.int_blocked /\ isrxhardware(src))
  <2>1. mini_rec(s, c, src) = IF s.sig_procs > 0 /\ c = MM /\ src = ANY THEN inform(t) ELSE t
    BY <1>3 DEF mini_rec
  <2>2. "P_SLOT_FREE" \notin s.flags[c] BY DEF FlagsOK
  <2>3. /\ Good(t) /\ t.flags = [s.flags EXCEPT ![c] = @ \cup {"RECEIVING"}]
        /\ t.getfrom = [s.getfrom EXCEPT ![c] = src]
        /\ Settled(s) => Settled(t)
        /\ Settled(Block(s, c, {"RECEIVING"})) => Settled(t)
    BY <2>2, BlockReceiver
  <2> HIDE DEF t
  <2>4. Settled(t)
    <3>1. CASE Settled(s) BY <3>1, <2>3
    <3>2. CASE c \in User /\ OnTop(s, c)
      <4>1. {"RECEIVING"} \in SUBSET Flag BY DEF Flag
      <4>2. Settled(Block(s, c, {"RECEIVING"})) BY <3>2, <4>1, <1>0, BlockOnTop
      <4> QED BY <4>2, <2>3
    <3> QED BY <3>1, <3>2
  <2>5. CASE s.sig_procs > 0 /\ c = MM /\ src = ANY
    <3>1. s.flags[MM] = {} BY <2>5
    <3>2. "RECEIVING" \in t.flags[MM] /\ "SENDING" \notin t.flags[MM] /\ t.getfrom[MM] = ANY
      BY <2>3, <2>5, <3>1, <1>0 DEF Table
    <3>3. Good(inform(t)) /\ (Settled(t) => Settled(inform(t))) BY <3>2, <2>3, InformLemma
    <3> QED BY <2>1, <2>4, <2>5, <3>3
  <2>6. CASE ~(s.sig_procs > 0 /\ c = MM /\ src = ANY) BY <2>1, <2>3, <2>4, <2>6
  <2> QED BY <2>5, <2>6
<1> QED BY <1>1, <1>2, <1>3

-----------------------------------------------------------------------------
(***************************************************************************)
(* Traps and interrupts.                                                   *)
(***************************************************************************)
\* A trap preserves the agreement and the choice.  The case that needs care
\* is the BOTH of a user: between its two halves the choice may be unsettled,
\* the server just released should run, but the user blocks at once.
LEMMA SysCallGood ==
  ASSUME Good(k), Settled(k), SysCall
  PROVE  Good(k') /\ Settled(k')
<1> DEFINE c == k.proc_ptr
<1>1. PICK function \in {"SEND", "RECEIVE", "BOTH"}, d \in Proc \cup {ANY} :
        c # IDLE /\ Trusted(c, function, d) /\ k' = sys_call(k, function, d)
  BY DEF SysCall
<1>2. OnTop(k, c) /\ c \in Proc \ {IDLE, HARDWARE} /\ k.flags[c] = {} /\ k \in Table
  BY <1>1, RunningOnTop DEF OnTop, Good
<1> DEFINE sent == mini_send(k, c, d)
<1>3. (isuserp(c) <=> c \in User) /\ (c \notin User => c \in Task \cup Server) BY <1>2, Kinds
<1>4. k' = IF isuserp(c) /\ function # "BOTH" THEN k
           ELSE IF function = "RECEIVE" THEN mini_rec(k, c, d)
           ELSE IF d = ANY \/ send_result(k, c, d) # "OK" THEN k
           ELSE IF function = "SEND" THEN sent
           ELSE mini_rec(sent, c, d)
  BY <1>1 DEF sys_call
<1>5. CASE function = "RECEIVE"
  <2>1. Good(mini_rec(k, c, d)) /\ Settled(mini_rec(k, c, d))
    BY <1>2, <1>3, MiniRec
  <2> QED BY <1>4, <1>5, <2>1
<1>6. CASE d = ANY \/ send_result(k, c, d) # "OK"
  BY <1>4, <1>5, <1>6
<1>7. CASE function # "RECEIVE" /\ d # ANY /\ send_result(k, c, d) = "OK"
  <2>1. /\ d \in Proc /\ "P_SLOT_FREE" \notin k.flags[d] /\ (c \in User => d \in Server)
    BY <1>3, <1>7 DEF send_result, issysentn, Server
  <2>2. (c \notin User => d \in Task \cup Server \cup User) /\ (d \in User => Accepts(k, d, c))
    <3>1. <<c, d>> \in Talks => d \in Task \cup Server BY TalksAssumption
    <3>2. c \in User => d \notin User BY <2>1, Kinds
    <3>3. d \in Task \cup Server => d \notin User BY Kinds
    <3> QED BY <1>1, <1>3, <1>7, <2>1, <3>1, <3>2, <3>3 DEF Trusted
  <2>3. d \in Proc \ {IDLE, HARDWARE} BY <2>1, <2>2, Kinds
  <2>4. /\ Good(sent) /\ sent.flags[c] \in {{}, {"SENDING"}}
        /\ c \notin User => Settled(sent) /\ (sent.flags[c] = {} => sent.proc_ptr \in Task \cup Server)
        /\ sent.flags[c] # {} => Settled(sent)
    BY <1>2, <2>1, <2>2, <2>3, MiniSend
  <2>5. c \in User /\ sent.flags[c] = {} => OnTop(sent, c)
    <3>1. SUFFICES ASSUME c \in User, sent.flags[c] = {} PROVE OnTop(sent, c) OBVIOUS
    <3>2. CASE Accepts(k, d, c)
      <4>1. sent = Release(k, d, {"RECEIVING"}) BY <3>2 DEF mini_send
      <4>2. {"RECEIVING"} \in SUBSET Flag BY DEF Flag
      <4> QED BY <3>1, <4>1, <4>2, <1>2, <2>1, ReleaseOnTop
    <3>3. CASE ~Accepts(k, d, c)
      <4>1. sent = [Block(k, c, {"SENDING"}) EXCEPT !.sendto[c] = d, !.callerq[d] = Append(@, c)]
        BY <3>3 DEF mini_send
      <4>2. /\ Block(k, c, {"SENDING"}) \in Table
            /\ Block(k, c, {"SENDING"}).flags = [k.flags EXCEPT ![c] = @ \cup {"SENDING"}]
        BY <1>2, BlockLemma DEF Keeps, Good, Flag
      <4>3. sent.flags = [k.flags EXCEPT ![c] = @ \cup {"SENDING"}] BY <4>1, <4>2 DEF Table
      <4>4. "SENDING" \in sent.flags[c] BY <4>3, <1>2 DEF Table
      <4> QED BY <3>1, <4>4
    <3> QED BY <3>2, <3>3
  <2> HIDE DEF sent
  <2>6. CASE function = "SEND"
    <3>1. c \in User => k' = k BY <1>3, <1>4, <2>6
    <3>2. c \notin User => k' = sent BY <1>3, <1>4, <1>7, <2>6
    <3> QED BY <3>1, <3>2, <2>4
  <2>7. CASE function = "BOTH"
    <3>1. k' = mini_rec(sent, c, d) BY <1>4, <1>7, <2>7
    <3>2. Good(mini_rec(sent, c, d)) /\ Settled(mini_rec(sent, c, d))
      BY <1>2, <1>7, <2>1, <2>4, <2>5, MiniRec
    <3> QED BY <3>1, <3>2
  <2> QED BY <1>7, <2>6, <2>7
<1> QED BY <1>5, <1>6, <1>7

\* An interrupt that wakes a task, or is recorded as blocked.
LEMMA InterruptGood ==
  ASSUME NEW s, Good(s), Settled(s), NEW t \in Task
  PROVE  Good(interrupt(s, t)) /\ Settled(interrupt(s, t))
<1> DEFINE w == interrupt(s, t)
<1>0. s \in Table /\ t \in Proc \ {IDLE, HARDWARE} BY Kinds DEF Good
<1>1. CASE "RECEIVING" \in s.flags[t] /\ "SENDING" \notin s.flags[t] /\ isrxhardware(s.getfrom[t])
  <2> DEFINE r == Clear(s, t, {"RECEIVING"})
             v == Release(s, t, {"RECEIVING"})
  <2>1. s.flags[t] = {"RECEIVING"} BY <1>0, <1>1, Kinds DEF Good, FlagsOK
  <2>2. /\ Keeps(s, r) /\ r.rdy = s.rdy /\ r.proc_ptr = s.proc_ptr
        /\ r.flags = [s.flags EXCEPT ![t] = @ \ {"RECEIVING"}]
    BY <1>0, ClearFrame DEF Flag
  <2>3. r.flags[t] = {} /\ r \in Table BY <2>1, <2>2, <1>0 DEF Table, Keeps
  <2>4. v = ready(r, t) BY <2>3 DEF Release
  <2>5. QueueOf(r, t) = TASK_Q BY <1>0, QueueKind
  <2> HIDE DEF r
  <2>6. v = [r EXCEPT !.rdy[TASK_Q] = Append(@, t),
                      !.proc_ptr = IF r.rdy[TASK_Q] = << >> THEN t ELSE @]
    BY <2>4, <2>5 DEF ready, TASK_Q, USER_Q
  <2>7. w = [r EXCEPT !.int_blocked = @ \ {t}, !.rdy[TASK_Q] = Append(@, t),
                      !.proc_ptr = IF s.rdy[TASK_Q] = << >> THEN t ELSE @]
    BY <1>1 DEF interrupt, r
  <2>8. Good(v) /\ Settled(v)
    BY <1>0, <1>1, ReleaseReceiver
  <2> HIDE DEF v, w
  <2>9. v \in Table BY <2>8 DEF Good
  <2>10. /\ w \in Table /\ w.flags = v.flags /\ w.callerq = v.callerq /\ w.getfrom = v.getfrom
         /\ w.sendto = v.sendto /\ w.rdy = v.rdy /\ w.proc_ptr = v.proc_ptr
         /\ w.bill_ptr = v.bill_ptr /\ w.shadow = v.shadow /\ w.pending = v.pending
         /\ w.pendcount = v.pendcount /\ w.court = v.court /\ w.sig_procs = v.sig_procs
    BY <2>2, <2>3, <2>6, <2>7, <2>9 DEF Table
  <2> QED BY <2>8, <2>10, GoodSame DEF w
<1>2. CASE ~("RECEIVING" \in s.flags[t] /\ "SENDING" \notin s.flags[t] /\ isrxhardware(s.getfrom[t]))
  <2>1. w = [s EXCEPT !.int_blocked = @ \cup {t}] BY <1>2 DEF interrupt
  <2> HIDE DEF w
  <2>2. /\ w \in Table /\ w.flags = s.flags /\ w.callerq = s.callerq /\ w.getfrom = s.getfrom
        /\ w.sendto = s.sendto /\ w.rdy = s.rdy /\ w.proc_ptr = s.proc_ptr
        /\ w.bill_ptr = s.bill_ptr /\ w.shadow = s.shadow /\ w.pending = s.pending
        /\ w.pendcount = s.pendcount /\ w.court = s.court /\ w.sig_procs = s.sig_procs
    BY <2>1, <1>0 DEF Table
  <2> QED BY <2>2, GoodSame DEF w
<1> QED BY <1>1, <1>2

\* The list of held interrupts is independent of the rest.
LEMMA HeldGood ==
  ASSUME NEW s, Good(s), Settled(s), NEW h \in Seq(Task)
  PROVE  Good([s EXCEPT !.held = h]) /\ Settled([s EXCEPT !.held = h])
<1> DEFINE w == [s EXCEPT !.held = h]
<1>2. /\ w \in Table /\ w.flags = s.flags /\ w.callerq = s.callerq /\ w.getfrom = s.getfrom
      /\ w.sendto = s.sendto /\ w.rdy = s.rdy /\ w.proc_ptr = s.proc_ptr
      /\ w.bill_ptr = s.bill_ptr /\ w.shadow = s.shadow /\ w.pending = s.pending
      /\ w.pendcount = s.pendcount /\ w.court = s.court /\ w.sig_procs = s.sig_procs
  BY DEF Table, Good
<1> HIDE DEF w
<1>3. Good(w) /\ Settled(w) BY <1>2, GoodSame
<1> QED BY <1>3 DEF w

\* An interrupt while the kernel switches.
LEMMA HoldGood ==
  ASSUME NEW s, Good(s), Settled(s), NEW t \in Task
  PROVE  Good(hold(s, t)) /\ Settled(hold(s, t))
<1>1. Append(s.held, t) \in Seq(Task) BY DEF Good, Table
<1>2. hold(s, t) \in {s, [s EXCEPT !.held = Append(s.held, t)]} BY DEF hold
<1> QED BY <1>1, <1>2, HeldGood

\* One round of unhold().
LEMMA UnholdGood ==
  ASSUME NEW s, Good(s), Settled(s), s.held # << >>
  PROVE  Good(unhold(s)) /\ Settled(unhold(s))
<1>1. Tail(s.held) \in Seq(Task) /\ Head(s.held) \in Task BY DEF Good, Table
<1>2. Good([s EXCEPT !.held = Tail(s.held)]) /\ Settled([s EXCEPT !.held = Tail(s.held)])
  BY <1>1, HeldGood
<1> QED BY <1>1, <1>2, InterruptGood DEF unhold

-----------------------------------------------------------------------------
(***************************************************************************)
(* Shadowing.                                                              *)
(***************************************************************************)
(* What the shadow operations leave alone. *)
\* t differs from s in p_shadow, the queues and the pointers at most.
ShadowOnly(s, t) ==
  /\ t \in Table
  /\ t.flags = s.flags /\ t.callerq = s.callerq /\ t.getfrom = s.getfrom
  /\ t.sendto = s.sendto /\ t.pending = s.pending /\ t.pendcount = s.pendcount
  /\ t.court = s.court /\ t.sig_procs = s.sig_procs

\* A running task goes on running.
Steady(s, t) ==
  Settled(s) /\ s.proc_ptr \in Task => Settled(t) /\ t.proc_ptr = s.proc_ptr

\* Taking a user off its queue does not stop a running task.
LEMMA UnreadySteady ==
  ASSUME NEW s \in Table, NEW R \in SUBSET Proc, Queued(s, R), NEW p \in User
  PROVE  Steady(s, unready(s, p))
BY UnreadySettled, UserKind DEF Steady

\* Nor does queueing one.
LEMMA ReadySteady ==
  ASSUME NEW s \in Table, NEW R \in SUBSET Proc, Queued(s, R), NEW p \in User
  PROVE  Steady(s, ready(s, p))
BY ReadySettled, UserKind DEF Steady

\* p_shadow of a process that is not queued may change freely.
LEMMA ShadowQueued ==
  ASSUME NEW s \in Table, NEW R \in SUBSET Proc, Queued(s, R), NEW q \in User, q \notin R,
         NEW v \in Slots \cup {0}
  PROVE  LET t == [s EXCEPT !.shadow[q] = v]
         IN  ShadowOnly(s, t) /\ Queued(t, R) /\ Steady(s, t)
<1> DEFINE t == [s EXCEPT !.shadow[q] = v]
<1>1. /\ ShadowOnly(s, t) /\ t.shadow = [s.shadow EXCEPT ![q] = v] /\ t.rdy = s.rdy
      /\ t.proc_ptr = s.proc_ptr /\ t.bill_ptr = s.bill_ptr /\ t \in Table
  BY DEF ShadowOnly, Table
<1> HIDE DEF t
<1>2. ASSUME NEW y \in R PROVE QueueOf(t, y) = QueueOf(s, y)
  <2>1. y # q BY <1>2
  <2>2. y \in User => t.shadow[y] = s.shadow[y] BY <1>1, <2>1 DEF Table
  <2> QED BY <2>2 DEF QueueOf, isshadowp
<1>3. ASSUME NEW x \in Queue PROVE Lists(t.rdy[x], {y \in R : QueueOf(t, y) = x})
  <2>1. {y \in R : QueueOf(t, y) = x} = {y \in R : QueueOf(s, y) = x} BY <1>2
  <2> QED BY <2>1, <1>1 DEF Queued
<1>4. Queued(t, R) BY <1>3 DEF Queued
<1>5. Steady(s, t) BY <1>1, SettledSame DEF Steady
<1> QED BY <1>1, <1>4, <1>5 DEF t

\* A process that is ready changes queues when p_shadow changes.
LEMMA SetShadowLemma ==
  ASSUME NEW s \in Table, NEW R \in SUBSET Proc, Queued(s, R), NEW q \in User,
         NEW v \in Slots \cup {0}, q \in R <=> s.flags[q] = {}
  PROVE  LET t == SetShadow(s, q, v)
         IN  ShadowOnly(s, t) /\ Queued(t, R) /\ Steady(s, t)
<1>0. q \in Proc BY UserKind
<1>1. CASE s.flags[q] = {}
  <2> DEFINE a == unready(s, q)
             b == [a EXCEPT !.shadow[q] = v]
             c == ready(b, q)
  <2>0. SetShadow(s, q, v) = c BY <1>1 DEF SetShadow
  <2>1. QueuesOnly(s, a) /\ Queued(a, R \ {q}) /\ Steady(s, a)
    BY <1>0, UnreadyFrame, UnreadyQueued, UnreadySteady
  <2> HIDE DEF a
  <2>2. a \in Table /\ R \ {q} \in SUBSET Proc /\ q \notin R \ {q} BY <2>1 DEF QueuesOnly
  <2>3. ShadowOnly(a, b) /\ Queued(b, R \ {q}) /\ Steady(a, b)
    BY <2>1, <2>2, ShadowQueued
  <2> HIDE DEF b
  <2>4. b \in Table BY <2>3 DEF ShadowOnly
  <2>5. QueuesOnly(b, c) /\ Queued(c, (R \ {q}) \cup {q}) /\ Steady(b, c)
    BY <1>0, <2>2, <2>3, <2>4, ReadyFrame, ReadyQueued, ReadySteady
  <2> HIDE DEF c
  <2>6. (R \ {q}) \cup {q} = R BY <1>1
  <2>7. ShadowOnly(s, c) BY <2>1, <2>3, <2>5 DEF ShadowOnly, QueuesOnly
  <2>8. Steady(s, c) BY <2>1, <2>3, <2>5 DEF Steady
  <2> QED BY <2>0, <2>5, <2>6, <2>7, <2>8
<1>2. CASE s.flags[q] # {}
  <2>1. SetShadow(s, q, v) = [s EXCEPT !.shadow[q] = v] BY <1>2 DEF SetShadow
  <2>2. q \notin R BY <1>2
  <2> QED BY <2>1, <2>2, ShadowQueued
<1> QED BY <1>1, <1>2

\* A panic leaves the table as it is.
LEMMA PanicLemma ==
  ASSUME NEW s \in Table, NEW R, Queued(s, R), NEW m \in Panic
  PROVE  LET t == [s EXCEPT !.panic = m]
         IN  ShadowOnly(s, t) /\ Queued(t, R) /\ Steady(s, t)
<1> DEFINE t == [s EXCEPT !.panic = m]
<1>1. /\ ShadowOnly(s, t) /\ t.shadow = s.shadow /\ t.rdy = s.rdy
      /\ t.proc_ptr = s.proc_ptr /\ t.bill_ptr = s.bill_ptr /\ t \in Table
  BY DEF ShadowOnly, Table
<1> HIDE DEF t
<1> QED BY <1>1, QueuedSame, SettledSame DEF Steady, t

\* rmshadow() moves the first sharer in, between the queues if it is ready.
LEMMA RmShadow ==
  ASSUME NEW s \in Table, NEW R \in SUBSET Proc, Queued(s, R), NEW p \in User, p \notin R,
         \A q \in User \ {p} : q \in R <=> s.flags[q] = {}
  PROVE  LET t == rmshadow(s, p, FALSE)
         IN  ShadowOnly(s, t) /\ Queued(t, R) /\ Steady(s, t)
<1> DEFINE q == First(Sharers(s, p))
<1>0. 0 \in Slots \cup {0} OBVIOUS
<1>1. CASE s.shadow[p] # 0
  <2>1. rmshadow(s, p, FALSE) = [s EXCEPT !.shadow[p] = 0] BY <1>1 DEF rmshadow
  <2>2. LET t == [s EXCEPT !.shadow[p] = 0]
        IN  ShadowOnly(s, t) /\ Queued(t, R) /\ Steady(s, t)
    BY <1>0, ShadowQueued
  <2> QED BY <2>1, <2>2
<1>2. CASE s.shadow[p] = 0 /\ Sharers(s, p) = {}
  BY <1>2 DEF rmshadow, ShadowOnly, Steady
<1>3. CASE s.shadow[p] = 0 /\ Sharers(s, p) # {}
  <2>1. q \in User \ {p}
    <3>1. Sharers(s, p) \in SUBSET User /\ p \notin Sharers(s, p) BY DEF Sharers, Live
    <3> QED BY <3>1, <1>3, FirstType
  <2>2. rmshadow(s, p, FALSE) = IF s.shadow[q] = 0 THEN [s EXCEPT !.panic = "no shadow?"] ELSE SetShadow(s, q, 0)
    BY <1>3 DEF rmshadow
  <2> HIDE DEF q
  <2>3. LET t == SetShadow(s, q, 0)
        IN  ShadowOnly(s, t) /\ Queued(t, R) /\ Steady(s, t)
    BY <1>0, <2>1, SetShadowLemma
  <2>4. LET t == [s EXCEPT !.panic = "no shadow?"]
        IN  ShadowOnly(s, t) /\ Queued(t, R) /\ Steady(s, t)
    BY PanicLemma DEF Panic
  <2> QED BY <2>2, <2>3, <2>4
<1> QED BY <1>1, <1>2, <1>3

\* A change of p_shadow and of the queues alone preserves the agreement.
LEMMA ShadowGood ==
  ASSUME NEW s, Good(s), NEW t, ShadowOnly(s, t), Queued(t, Runnable(s))
  PROVE  Good(t)
<1>1. Runnable(t) = Runnable(s) BY DEF ShadowOnly, Runnable
<1>2. CallersListed(t) BY CallersSame DEF Good, ShadowOnly
<1>3. SigCounted(t) BY SigSame DEF Good, ShadowOnly
<1>4. FlagsOK(t) BY DEF Good, FlagsOK, ShadowOnly
<1> QED BY <1>1, <1>2, <1>3, <1>4 DEF Good, ShadowOnly

\* unshadow() exchanges two processes between USER_Q and SHADOW_Q.
LEMMA UnShadow ==
  ASSUME NEW s, Good(s), NEW p \in User, s.flags[p] = {}
  PROVE  Good(unshadow(s, p)) /\ Steady(s, unshadow(s, p))
<1> DEFINE owners == {q \in Sharers(s, p) : s.shadow[q] = 0}
           q == First(owners)
           R == Runnable(s)
<1>0. s \in Table /\ R \in SUBSET Proc /\ Queued(s, R) /\ p \in Proc /\ p \in R
  BY UserKind DEF Good, Runnable
<1>1. CASE owners = {}
  <2>1. unshadow(s, p) = [s EXCEPT !.panic = "only shadow(s)"] BY <1>1 DEF unshadow
  <2>2. LET t == [s EXCEPT !.panic = "only shadow(s)"]
        IN  ShadowOnly(s, t) /\ Queued(t, R) /\ Steady(s, t)
    BY <1>0, PanicLemma DEF Panic
  <2> QED BY <2>1, <2>2, ShadowGood
<1>2. CASE owners # {}
  <2> DEFINE t == unready(s, p)
             u == IF s.flags[q] = {} THEN unready(t, q) ELSE t
             a == [u EXCEPT !.shadow[q] = s.shadow[p]]
             b == [a EXCEPT !.shadow[p] = 0]
             v == ready(b, p)
             w == IF s.flags[q] = {} THEN ready(v, q) ELSE v
             R1 == R \ {p, q}
  <2>1. q \in User \ {p}
    <3>1. owners \in SUBSET User /\ p \notin owners BY DEF Sharers, Live
    <3> QED BY <3>1, <1>2, FirstType
  <2>2. q \in Proc /\ (q \in R <=> s.flags[q] = {}) BY <2>1, UserKind DEF Runnable
  <2>3. [u EXCEPT !.shadow[q] = s.shadow[p], !.shadow[p] = 0] = b OBVIOUS
  <2>4. unshadow(s, p) = w BY <1>2, <2>3 DEF unshadow
  <2> HIDE DEF q, owners, R
  <2>5. QueuesOnly(s, t) /\ Queued(t, R \ {p}) /\ Steady(s, t)
    BY <1>0, UnreadyFrame, UnreadyQueued, UnreadySteady
  <2> HIDE DEF t
  <2>6. t \in Table /\ R \ {p} \in SUBSET Proc BY <1>0, <2>5 DEF QueuesOnly
  <2>7. QueuesOnly(t, u) /\ Queued(u, R1) /\ Steady(t, u)
    <3>1. CASE s.flags[q] = {}
      <4>1. QueuesOnly(t, unready(t, q)) /\ Queued(unready(t, q), (R \ {p}) \ {q})
        BY <2>2, <2>5, <2>6, UnreadyFrame, UnreadyQueued
      <4>2. Steady(t, unready(t, q)) BY <2>1, <2>5, <2>6, UnreadySteady
      <4>3. (R \ {p}) \ {q} = R1 OBVIOUS
      <4>4. u = unready(t, q) BY <3>1
      <4> HIDE DEF u, R1
      <4> QED BY <4>1, <4>2, <4>3, <4>4
    <3>2. CASE s.flags[q] # {}
      <4>1. R \ {p} = R1 /\ u = t BY <2>2, <3>2
      <4>2. QueuesOnly(t, t) BY <2>6 DEF QueuesOnly
      <4>3. Steady(t, t) BY DEF Steady
      <4> HIDE DEF u, R1
      <4> QED BY <4>1, <4>2, <4>3, <2>5
    <3> QED BY <3>1, <3>2
  <2> HIDE DEF u
  <2>8. u \in Table /\ R1 \in SUBSET Proc /\ p \notin R1 /\ q \notin R1 /\ s.shadow[p] \in Slots \cup {0}
    BY <1>0, <2>7 DEF QueuesOnly, Table
  <2> HIDE DEF R1
  <2>9. ShadowOnly(u, a) /\ Queued(a, R1) /\ Steady(u, a)
    BY <2>1, <2>7, <2>8, ShadowQueued
  <2> HIDE DEF a
  <2>10. a \in Table BY <2>9 DEF ShadowOnly
  <2>11. ShadowOnly(a, b) /\ Queued(b, R1) /\ Steady(a, b)
    <3>1. 0 \in Slots \cup {0} OBVIOUS
    <3> QED BY <3>1, <2>8, <2>9, <2>10, ShadowQueued
  <2> HIDE DEF b
  <2>12. b \in Table BY <2>11 DEF ShadowOnly
  <2>13. QueuesOnly(b, v) /\ Queued(v, R1 \cup {p}) /\ Steady(b, v)
    BY <1>0, <2>8, <2>11, <2>12, ReadyFrame, ReadyQueued, ReadySteady
  <2> HIDE DEF v
  <2>14. v \in Table /\ R1 \cup {p} \in SUBSET Proc BY <1>0, <2>8, <2>13 DEF QueuesOnly
  <2>15. QueuesOnly(v, w) /\ Queued(w, R) /\ Steady(v, w)
    <3>1. CASE s.flags[q] = {}
      <4>1. q \notin R1 \cup {p} BY <2>1, <2>8
      <4>2. QueuesOnly(v, ready(v, q)) /\ Queued(ready(v, q), (R1 \cup {p}) \cup {q})
        BY <4>1, <2>2, <2>13, <2>14, ReadyFrame, ReadyQueued
      <4>3. Steady(v, ready(v, q)) BY <2>1, <2>13, <2>14, ReadySteady
      <4>4. (R1 \cup {p}) \cup {q} = R BY <1>0, <2>2, <3>1 DEF R1
      <4>5. w = ready(v, q) BY <3>1
      <4> HIDE DEF w
      <4> QED BY <4>2, <4>3, <4>4, <4>5
    <3>2. CASE s.flags[q] # {}
      <4>1. R1 \cup {p} = R /\ w = v BY <1>0, <2>2, <3>2 DEF R1
      <4>2. QueuesOnly(v, v) BY <2>14 DEF QueuesOnly
      <4>3. Steady(v, v) BY DEF Steady
      <4> HIDE DEF w
      <4> QED BY <4>1, <4>2, <4>3, <2>13
    <3> QED BY <3>1, <3>2
  <2> HIDE DEF w
  <2>16. ShadowOnly(s, w)
    BY <2>5, <2>7, <2>9, <2>11, <2>13, <2>15 DEF ShadowOnly, QueuesOnly
  <2>17. Steady(s, w)
    BY <2>5, <2>7, <2>9, <2>11, <2>13, <2>15 DEF Steady
  <2> QED BY <2>4, <2>15, <2>16, <2>17, ShadowGood DEF R
<1> QED BY <1>1, <1>2

-----------------------------------------------------------------------------
(***************************************************************************)
(* Scheduling, signals, tracing and the clock tick.                        *)
(***************************************************************************)
\* The round robin step.
LEMMA SchedGood ==
  ASSUME NEW s, Good(s)
  PROVE  Good(sched(s)) /\ Steady(s, sched(s))
<1>0. s \in Table /\ Queued(s, Runnable(s)) BY DEF Good
<1>1. CASE s.rdy[USER_Q] = << >> BY <1>1 DEF sched, Steady
<1>2. CASE s.rdy[USER_Q] # << >>
  <2> DEFINE t == [s EXCEPT !.rdy[USER_Q] = Append(UnlinkAt(@, 1), Head(@))]
             S == {p \in Runnable(s) : QueueOf(s, p) = USER_Q}
             w == pick_proc(t)
  <2>1. sched(s) = w BY <1>2 DEF sched
  <2>2. USER_Q \in Queue /\ s.rdy[USER_Q] \in Seq(Proc) /\ Lists(s.rdy[USER_Q], S)
    BY <1>0 DEF Queued, Queue, Table
  <2>3. /\ Append(UnlinkAt(s.rdy[USER_Q], 1), Head(s.rdy[USER_Q])) \in Seq(Proc)
        /\ Lists(Append(UnlinkAt(s.rdy[USER_Q], 1), Head(s.rdy[USER_Q])), S)
    BY <1>2, <2>2, RotateLists
  <2>4. /\ QueuesOnly(s, t) /\ t.proc_ptr = s.proc_ptr
        /\ t.rdy = [s.rdy EXCEPT ![USER_Q] = Append(UnlinkAt(@, 1), Head(@))]
    BY <1>0, <2>2, <2>3 DEF QueuesOnly, Table
  <2> HIDE DEF t
  <2>5. t \in Table /\ t.shadow = s.shadow /\ t.flags = s.flags BY <2>4 DEF QueuesOnly
  <2>6. Queued(t, Runnable(s))
    <3>1. ASSUME NEW x \in Queue PROVE Lists(t.rdy[x], {p \in Runnable(s) : QueueOf(t, p) = x})
      <4>1. {p \in Runnable(s) : QueueOf(t, p) = x} = {p \in Runnable(s) : QueueOf(s, p) = x}
        BY <2>5, SameQueueOf
      <4>2. CASE x = USER_Q
        <5>1. t.rdy[x] = Append(UnlinkAt(s.rdy[USER_Q], 1), Head(s.rdy[USER_Q]))
          BY <4>2, <2>2, <2>4, <1>0 DEF Table
        <5> QED BY <5>1, <4>1, <4>2, <2>3
      <4>3. CASE x # USER_Q
        <5>1. t.rdy[x] = s.rdy[x] BY <4>3, <2>2, <2>4, <1>0 DEF Table
        <5> QED BY <5>1, <4>1, <1>0 DEF Queued
      <4> QED BY <4>2, <4>3
    <3> QED BY <3>1 DEF Queued
  <2>7. QueuesOnly(t, w) /\ w.rdy = t.rdy /\ Settled(w) BY <2>5, PickFrame, PickSettled
  <2>8. Settled(s) /\ s.proc_ptr \in Task => w.proc_ptr = s.proc_ptr
    <3>1. SUFFICES ASSUME Settled(s), s.proc_ptr \in Task PROVE w.proc_ptr = s.proc_ptr OBVIOUS
    <3>2. s.proc_ptr # IDLE BY <3>1, Kinds
    <3>3. OnTop(s, s.proc_ptr) BY <3>1, <3>2, RunningOnTop
    <3>4. QueueOf(s, s.proc_ptr) = TASK_Q BY <3>1, Kinds, QueueKind
    <3>5. t.rdy[TASK_Q] = s.rdy[TASK_Q] BY <1>0, <2>2, <2>4 DEF Table, TASK_Q, USER_Q, Queue
    <3> QED BY <3>3, <3>4, <3>5, <2>5 DEF OnTop, pick_proc, Table
  <2> HIDE DEF w
  <2>9. ShadowOnly(s, w) /\ Queued(w, Runnable(s))
    <3>1. w.shadow = t.shadow /\ ShadowOnly(s, w) BY <2>4, <2>7 DEF QueuesOnly, ShadowOnly
    <3> QED BY <3>1, <2>6, <2>7, QueuedSame
  <2>10. Good(w) BY <2>9, ShadowGood
  <2> QED BY <2>1, <2>7, <2>8, <2>10 DEF Steady
<1> QED BY <1>1, <1>2

\* ENDSIG, when MM ends a signal it was told about.
LEMMA EndSigGood ==
  ASSUME NEW s, Good(s), NEW p \in User, s.court[p] > 0
  PROVE  Good(do_endsig(s, p)) /\ Steady(s, do_endsig(s, p))
<1> DEFINE r == [s EXCEPT !.court[p] = @ - 1]
           w == EndOne(r, p)
<1>0. /\ s \in Table /\ Queued(s, Runnable(s)) /\ FlagsOK(s) /\ CallersListed(s) /\ SigCounted(s)
      /\ p \in Proc \ {IDLE, HARDWARE}
  BY UserKind DEF Good
<1>1. s.court[p] \in Nat /\ s.court[p] - 1 \in Nat /\ s.pendcount[p] \in Nat
  <2>1. s.court[p] \in Nat /\ s.pendcount[p] \in Nat BY <1>0 DEF Table
  <2> QED BY <2>1
<1>2. /\ s.pendcount[p] = Cardinality(s.pending[p]) + s.court[p]
      /\ Cardinality(s.pending[p]) \in Nat
      /\ Cardinality(s.pending[p]) = 0 <=> s.pending[p] = {}
      /\ "PENDING" \in s.flags[p] <=> s.pending[p] # {}
      /\ "SIG_PENDING" \in s.flags[p] <=> s.pendcount[p] > 0
  BY <1>0, PendingFinite DEF SigCounted
<1>3. s.pendcount[p] > 0 /\ "SIG_PENDING" \in s.flags[p] BY <1>1, <1>2
<1>4. /\ r \in Table /\ r.court = [s.court EXCEPT ![p] = @ - 1]
      /\ r.flags = s.flags /\ r.callerq = s.callerq /\ r.getfrom = s.getfrom
      /\ r.sendto = s.sendto /\ r.rdy = s.rdy /\ r.proc_ptr = s.proc_ptr
      /\ r.bill_ptr = s.bill_ptr /\ r.shadow = s.shadow /\ r.pending = s.pending
      /\ r.pendcount = s.pendcount /\ r.sig_procs = s.sig_procs
  BY <1>0, <1>1 DEF Table
<1> HIDE DEF r
<1>5. Queued(r, Runnable(r)) /\ (Settled(s) => Settled(r))
  <2>1. Runnable(r) = Runnable(s) BY <1>4 DEF Runnable
  <2> QED BY <2>1, <1>0, <1>4, QueuedSame, SettledSame
<1>6. /\ w \in Table /\ Queued(w, Runnable(w))
      /\ w.pendcount = [r.pendcount EXCEPT ![p] = @ - 1]
      /\ w.flags = IF r.pendcount[p] = 1 THEN [r.flags EXCEPT ![p] = @ \ {"SIG_PENDING"}]
                   ELSE r.flags
      /\ w.getfrom = r.getfrom /\ w.sendto = r.sendto /\ w.callerq = r.callerq
      /\ w.pending = r.pending /\ w.court = r.court /\ w.sig_procs = r.sig_procs
      /\ w.held = r.held /\ w.int_blocked = r.int_blocked
      /\ Settled(r) /\ r.proc_ptr \in Task => Settled(w) /\ w.proc_ptr = r.proc_ptr
  BY <1>3, <1>4, <1>5, EndOneLemma
<1> HIDE DEF w
<1>7. /\ w.flags[p] = IF s.pendcount[p] = 1 THEN s.flags[p] \ {"SIG_PENDING"} ELSE s.flags[p]
      /\ \A x \in Proc \ {p} : w.flags[x] = s.flags[x]
  <2>1. s.flags \in [Proc -> SUBSET Flag] BY <1>0 DEF Table
  <2> QED BY <2>1, <1>0, <1>4, <1>6
<1>8. "P_SLOT_FREE" \notin s.flags[p] BY <1>0, <1>3 DEF FlagsOK
<1>9. FlagsOK(w)
  <2>1. ASSUME NEW x \in Proc
        PROVE  /\ x \notin User => w.flags[x] = s.flags[x]
               /\ "SENDING" \in w.flags[x] <=> "SENDING" \in s.flags[x]
               /\ "RECEIVING" \in w.flags[x] <=> "RECEIVING" \in s.flags[x]
               /\ "P_SLOT_FREE" \in w.flags[x] => w.flags[x] = s.flags[x]
    BY <1>7, <1>8
  <2> QED BY <2>1, <1>0, <1>4, <1>6, FlagsSame
<1>10. CallersListed(w)
  <2>1. \A x \in Proc : "SENDING" \in w.flags[x] <=> "SENDING" \in s.flags[x] BY <1>7
  <2> QED BY <2>1, <1>0, <1>4, <1>6, CallersSame
<1>11. SigCounted(w)
  <2>1. \A x \in User : "PENDING" \in w.flags[x] <=> "PENDING" \in s.flags[x] BY <1>7, UserKind
  <2>2. {x \in User : "PENDING" \in w.flags[x]} = {x \in User : "PENDING" \in s.flags[x]} BY <2>1
  <2>3. w.sig_procs = Cardinality({x \in User : "PENDING" \in w.flags[x]})
    BY <2>2, <1>0, <1>4, <1>6 DEF SigCounted
  <2>4. /\ w.pendcount[p] = s.pendcount[p] - 1 /\ w.court[p] = s.court[p] - 1
        /\ w.pending[p] = s.pending[p]
        /\ \A x \in User \ {p} : w.pendcount[x] = s.pendcount[x] /\ w.court[x] = s.court[x]
    BY <1>0, <1>4, <1>6 DEF Table
  <2>5. ASSUME NEW x \in User
        PROVE  /\ "PENDING" \in w.flags[x] <=> w.pending[x] # {}
               /\ "SIG_PENDING" \in w.flags[x] <=> w.pendcount[x] > 0
               /\ w.pendcount[x] = Cardinality(w.pending[x]) + w.court[x]
    <3>1. CASE x = p
      <4>1. "SIG_PENDING" \in w.flags[p] <=> w.pendcount[p] > 0
        BY <1>1, <1>3, <1>7, <2>4
      <4>2. w.pendcount[p] = Cardinality(w.pending[p]) + w.court[p]
        BY <1>1, <1>2, <2>4
      <4> QED BY <3>1, <4>1, <4>2, <1>2, <2>1, <2>4
    <3>2. CASE x # p
      <4>1. w.flags[x] = s.flags[x] BY <3>2, <1>7, UserKind
      <4> QED BY <3>2, <4>1, <2>4, <1>0, <1>4, <1>6 DEF SigCounted
    <3> QED BY <3>1, <3>2
  <2> QED BY <2>3, <2>5 DEF SigCounted
<1>12. Good(w) BY <1>6, <1>9, <1>10, <1>11 DEF Good
<1>13. Steady(s, w) BY <1>4, <1>5, <1>6 DEF Steady
<1>14. do_endsig(s, p) = w BY DEF do_endsig, w, r
<1> QED BY <1>12, <1>13, <1>14

\* The requests of ptrace that stop and resume a process.
LEMMA TraceGood ==
  ASSUME NEW s, Good(s), NEW p \in User, "P_SLOT_FREE" \notin s.flags[p],
         NEW request \in {"T_STOP", "T_RESUME"}, request = "T_RESUME" => "P_STOP" \in s.flags[p]
  PROVE  Good(do_trace(s, p, request)) /\ Steady(s, do_trace(s, p, request))
<1> DEFINE w == do_trace(s, p, request)
<1>0. /\ s \in Table /\ Queued(s, Runnable(s)) /\ FlagsOK(s) /\ CallersListed(s) /\ SigCounted(s)
      /\ p \in Proc \ {IDLE, HARDWARE} /\ {"P_STOP"} \in SUBSET Flag /\ p \notin Task
  BY UserKind DEF Good, Flag
<1>1. /\ Keeps(s, w) /\ w.getfrom = s.getfrom /\ w.sendto = s.sendto /\ Queued(w, Runnable(w))
      /\ Steady(s, w)
      /\ w.flags \in {[s.flags EXCEPT ![p] = @ \cup {"P_STOP"}], [s.flags EXCEPT ![p] = @ \ {"P_STOP"}]}
  <2>1. CASE request = "T_STOP"
    <3>1. w = Block(s, p, {"P_STOP"}) BY <2>1 DEF do_trace
    <3>2. LET t == Block(s, p, {"P_STOP"})
          IN  /\ Keeps(s, t) /\ t.getfrom = s.getfrom /\ t.sendto = s.sendto
              /\ t.flags = [s.flags EXCEPT ![p] = @ \cup {"P_STOP"}]
              /\ Queued(t, Runnable(t))
              /\ Settled(s) => Settled(t) /\ (s.proc_ptr # p => t.proc_ptr = s.proc_ptr)
      BY <1>0, BlockLemma
    <3> QED BY <1>0, <3>1, <3>2 DEF Steady
  <2>2. CASE request = "T_RESUME"
    <3>1. w = Release(s, p, {"P_STOP"}) BY <2>2 DEF do_trace
    <3>2. LET t == Release(s, p, {"P_STOP"})
          IN  /\ Keeps(s, t)
              /\ t.flags = [s.flags EXCEPT ![p] = @ \ {"P_STOP"}]
              /\ t.getfrom = [s.getfrom EXCEPT ![p] = @]
              /\ t.sendto = [s.sendto EXCEPT ![p] = @]
              /\ Queued(t, Runnable(t))
              /\ Settled(s) /\ s.proc_ptr \in Task => Settled(t) /\ t.proc_ptr = s.proc_ptr
      BY <1>0, <2>2, ReleaseLemma
    <3>3. w.getfrom = s.getfrom /\ w.sendto = s.sendto BY <1>0, <3>1, <3>2 DEF Table
    <3> QED BY <3>1, <3>2, <3>3 DEF Steady
  <2> QED BY <2>1, <2>2
<1> HIDE DEF w
<1>2. /\ w.flags[p] \in {s.flags[p] \cup {"P_STOP"}, s.flags[p] \ {"P_STOP"}}
      /\ \A x \in Proc \ {p} : w.flags[x] = s.flags[x]
  <2>1. s.flags \in [Proc -> SUBSET Flag] BY <1>0 DEF Table
  <2> QED BY <2>1, <1>0, <1>1
<1>3. FlagsOK(w)
  <2>1. ASSUME NEW x \in Proc
        PROVE  /\ x \notin User => w.flags[x] = s.flags[x]
               /\ "SENDING" \in w.flags[x] <=> "SENDING" \in s.flags[x]
               /\ "RECEIVING" \in w.flags[x] <=> "RECEIVING" \in s.flags[x]
               /\ "P_SLOT_FREE" \in w.flags[x] => w.flags[x] = s.flags[x]
    BY <1>2
  <2> QED BY <2>1, <1>0, <1>1, FlagsSame
<1>4. CallersListed(w)
  <2>1. \A x \in Proc : "SENDING" \in w.flags[x] <=> "SENDING" \in s.flags[x] BY <1>2
  <2> QED BY <2>1, <1>0, <1>1, CallersSame DEF Keeps
<1>5. SigCounted(w)
  <2>1. \A x \in User : /\ "PENDING" \in w.flags[x] <=> "PENDING" \in s.flags[x]
                        /\ "SIG_PENDING" \in w.flags[x] <=> "SIG_PENDING" \in s.flags[x]
    BY <1>2, UserKind
  <2>2. /\ w.sig_procs = s.sig_procs /\ w.pending = s.pending
        /\ w.pendcount = s.pendcount /\ w.court = s.court
    BY <1>1 DEF Keeps
  <2> QED BY <2>1, <2>2, <1>0, SigSame
<1> QED BY <1>1, <1>3, <1>4, <1>5 DEF Good, Keeps, w

\* EXEC releases the caller, unless SIGTRAP holds it back.
LEMMA ExecGood ==
  ASSUME NEW s, Good(s), Settled(s), s.proc_ptr \in Task, NEW p \in User,
         "RECEIVING" \in s.flags[p], NEW traced \in BOOLEAN
  PROVE  Good(do_exec(s, p, traced)) /\ Settled(do_exec(s, p, traced))
<1> DEFINE t == IF traced THEN cause_sig(s, p, SIGTRAP) ELSE s
<1>1. "P_SLOT_FREE" \notin s.flags[p] /\ p \in Proc \ {IDLE, HARDWARE} BY UserKind DEF Good, FlagsOK
<1>2. Good(t) /\ Settled(t) /\ t.proc_ptr \in Task /\ "RECEIVING" \in t.flags[p]
  <2>1. LET w == cause_sig(s, p, SIGTRAP)
        IN  Good(w) /\ Settled(w) /\ w.proc_ptr = s.proc_ptr /\ "RECEIVING" \in w.flags[p]
    BY <1>1, SigAssumption, CauseSig
  <2> QED BY <2>1
<1> HIDE DEF t
<1>3. Good(Release(t, p, {"RECEIVING"})) /\ Settled(Release(t, p, {"RECEIVING"}))
  BY <1>1, <1>2, ReleaseReceiver
<1> QED BY <1>3 DEF do_exec, t

\* A tick: an alarm, the end of a quantum, an exchange of images.
LEMMA TickGood ==
  ASSUME NEW s, Good(s), Settled(s), s.proc_ptr \in Task,
         NEW p \in User \cup {IDLE}, p \in User => "P_SLOT_FREE" \notin s.flags[p],
         NEW sig \in Sig, NEW expired \in BOOLEAN, NEW flip \in BOOLEAN
  PROVE  Good(do_clocktick(s, p, sig, expired, flip)) /\ Settled(do_clocktick(s, p, sig, expired, flip))
<1> DEFINE t == IF p = IDLE THEN s ELSE cause_sig(s, p, sig)
           u == IF expired THEN sched(t) ELSE t
           h == Head(u.rdy[SHADOW_Q])
<1>1. Good(t) /\ Settled(t) /\ t.proc_ptr \in Task
  <2>1. CASE p = IDLE BY <2>1
  <2>2. CASE p \in User
    <3>1. p # IDLE BY <2>2, UserKind
    <3>2. LET w == cause_sig(s, p, sig) IN Good(w) /\ Settled(w) /\ w.proc_ptr = s.proc_ptr
      BY <2>2, CauseSig
    <3> QED BY <3>1, <3>2
  <2> QED BY <2>1, <2>2
<1> HIDE DEF t
<1>2. Good(u) /\ Settled(u) /\ u.proc_ptr \in Task BY <1>1, SchedGood DEF Steady
<1> HIDE DEF u
<1>3. u.rdy[SHADOW_Q] # << >> => h \in User /\ u.flags[h] = {}
  <2>1. u \in Table /\ Queued(u, Runnable(u)) /\ Runnable(u) \in SUBSET Proc /\ SHADOW_Q \in Queue
    BY <1>2 DEF Good, Runnable, Queue
  <2>2. u.rdy[SHADOW_Q] # << >> => h \in Runnable(u) /\ QueueOf(u, h) = SHADOW_Q
    BY <2>1, HeadQueued
  <2>3. QueueOf(u, h) = SHADOW_Q => isshadowp(u, h)
    BY DEF QueueOf, TASK_Q, SERVER_Q, USER_Q, SHADOW_Q
  <2> QED BY <2>2, <2>3 DEF Runnable, isshadowp
<1>4. do_clocktick(s, p, sig, expired, flip) = IF flip /\ u.rdy[SHADOW_Q] # << >> THEN unshadow(u, h) ELSE u
  BY DEF do_clocktick, t, u
<1> HIDE DEF h
<1>5. u.rdy[SHADOW_Q] # << >> => Good(unshadow(u, h)) /\ Steady(u, unshadow(u, h))
  BY <1>2, <1>3, UnShadow
<1> QED BY <1>2, <1>4, <1>5 DEF Steady

-----------------------------------------------------------------------------
(***************************************************************************)
(* Creation and removal of processes.                                      *)
(***************************************************************************)
\* FRESH changes the address of a process that waits for MM.
LEMMA FreshGood ==
  ASSUME NEW s, Good(s), NEW p \in User, s.flags[p] # {}, NEW v \in Slots
  PROVE  Good(do_fresh(s, p, v, FALSE)) /\ Steady(s, do_fresh(s, p, v, FALSE))
<1> DEFINE t == rmshadow(s, p, FALSE)
           w == [t EXCEPT !.core[p] = v]
           R == Runnable(s)
<1>0. /\ s \in Table /\ R \in SUBSET Proc /\ Queued(s, R) /\ p \notin R
      /\ \A q \in User \ {p} : q \in R <=> s.flags[q] = {}
  BY UserKind DEF Good, Runnable
<1> HIDE DEF R
<1>1. ShadowOnly(s, t) /\ Queued(t, R) /\ Steady(s, t) BY <1>0, RmShadow
<1> HIDE DEF t
<1>2. Good(t) BY <1>1, ShadowGood DEF R
<1>3. t \in Table BY <1>1 DEF ShadowOnly
<1>4. /\ w \in Table /\ w.flags = t.flags /\ w.callerq = t.callerq /\ w.getfrom = t.getfrom
      /\ w.sendto = t.sendto /\ w.rdy = t.rdy /\ w.proc_ptr = t.proc_ptr
      /\ w.bill_ptr = t.bill_ptr /\ w.shadow = t.shadow /\ w.pending = t.pending
      /\ w.pendcount = t.pendcount /\ w.court = t.court /\ w.sig_procs = t.sig_procs
  BY <1>3 DEF Table
<1>5. do_fresh(s, p, v, FALSE) = w BY DEF do_fresh, t
<1> HIDE DEF w
<1>6. Good(w) /\ (Settled(t) <=> Settled(w)) BY <1>2, <1>4, GoodSame
<1> QED BY <1>1, <1>4, <1>5, <1>6 DEF Steady

\* FORK copies the parent's entry: the child, too, waits for MM, is queued
\* nowhere and has nobody queued on it.
LEMMA ForkGood ==
  ASSUME NEW s, Good(s), NEW p \in User, "RECEIVING" \in s.flags[p], "SENDING" \notin s.flags[p],
         NEW c \in User, "P_SLOT_FREE" \in s.flags[c], NEW v \in Slots
  PROVE  Good(do_fork(s, p, c, v)) /\ Steady(s, do_fork(s, p, c, v))
<1> DEFINE w == do_fork(s, p, c, v)
           kept == s.flags[p] \ {"PENDING", "SIG_PENDING", "P_STOP"}
           R == Runnable(s)
<1>0. /\ s \in Table /\ R \in SUBSET Proc /\ Queued(s, R) /\ FlagsOK(s) /\ CallersListed(s)
      /\ SigCounted(s) /\ p \in Proc \ {IDLE, HARDWARE} /\ c \in Proc \ {IDLE, HARDWARE}
  BY UserKind DEF Good, Runnable
<1>1. s.flags[c] = {"P_SLOT_FREE"} /\ "P_SLOT_FREE" \notin s.flags[p] /\ p # c
  BY <1>0 DEF FlagsOK
<1>2. s.callerq[p] = << >> /\ s.callerq[c] = << >> BY NobodyCallsUsers
<1>3. /\ w \in Table
      /\ w.flags = [s.flags EXCEPT ![c] = kept]
      /\ w.callerq = [s.callerq EXCEPT ![c] = s.callerq[p]]
      /\ w.getfrom = [s.getfrom EXCEPT ![c] = s.getfrom[p]]
      /\ w.sendto = [s.sendto EXCEPT ![c] = s.sendto[p]]
      /\ w.pending = [s.pending EXCEPT ![c] = {}]
      /\ w.pendcount = [s.pendcount EXCEPT ![c] = 0]
      /\ w.shadow = [s.shadow EXCEPT ![c] = s.shadow[p], ![p] = v]
      /\ w.court = s.court /\ w.sig_procs = s.sig_procs /\ w.rdy = s.rdy
      /\ w.proc_ptr = s.proc_ptr /\ w.bill_ptr = s.bill_ptr
  <2>1. kept \in SUBSET Flag BY <1>0 DEF Table
  <2> HIDE DEF kept
  <2>2. /\ s.callerq[p] \in Seq(Proc) /\ s.getfrom[p] \in Proc \cup {ANY} /\ s.sendto[p] \in Proc
        /\ s.core[p] \in Slots /\ s.shadow[p] \in Slots \cup {0}
    BY <1>0 DEF Table
  <2>3. w = [s EXCEPT !.flags[c] = kept,
            !.callerq[c]   = s.callerq[p],
            !.getfrom[c]   = s.getfrom[p],
            !.sendto[c]    = s.sendto[p],
            !.pending[c]   = {},
            !.pendcount[c] = 0,
            !.core[c]      = s.core[p],
            !.shadow       = [@ EXCEPT ![c] = s.shadow[p], ![p] = v]]
    BY DEF do_fork, kept
  <2> HIDE DEF w
  <2> QED BY <2>1, <2>2, <2>3, <1>0 DEF Table
<1> HIDE DEF w
<1>4. w.flags[c] = kept /\ \A x \in Proc \ {c} : w.flags[x] = s.flags[x]
  <2>1. s.flags \in [Proc -> SUBSET Flag] BY <1>0 DEF Table
  <2> QED BY <2>1, <1>0, <1>3
<1>5. /\ "RECEIVING" \in w.flags[c] /\ "SENDING" \notin w.flags[c] /\ "PENDING" \notin w.flags[c]
      /\ "SIG_PENDING" \notin w.flags[c] /\ "P_SLOT_FREE" \notin w.flags[c]
  BY <1>1, <1>4
<1> HIDE DEF kept
<1>6. Runnable(w) = R
  <2>1. w.flags[c] # {} /\ s.flags[c] # {} BY <1>1, <1>5
  <2> QED BY <2>1, <1>4 DEF Runnable, R
<1>7. Queued(w, R)
  <2>1. p \notin R /\ c \notin R BY <1>1 DEF Runnable, R
  <2>2. ASSUME NEW y \in R PROVE QueueOf(w, y) = QueueOf(s, y)
    <3>1. y # p /\ y # c BY <2>1, <2>2
    <3>2. y \in User => w.shadow[y] = s.shadow[y] BY <1>0, <1>3, <3>1 DEF Table
    <3> QED BY <3>2 DEF QueueOf, isshadowp
  <2>3. ASSUME NEW x \in Queue PROVE Lists(w.rdy[x], {y \in R : QueueOf(w, y) = x})
    <3>1. {y \in R : QueueOf(w, y) = x} = {y \in R : QueueOf(s, y) = x} BY <2>2
    <3> QED BY <3>1, <1>0, <1>3 DEF Queued
  <2> QED BY <2>3 DEF Queued
<1>8. FlagsOK(w)
  <2>1. w.flags[HARDWARE] = {} /\ w.flags[IDLE] = {} BY <1>0, <1>4, ProcFacts DEF FlagsOK
  <2>2. ASSUME NEW x \in Proc
        PROVE  /\ x \notin User => w.flags[x] \subseteq {"SENDING", "RECEIVING"}
               /\ "P_SLOT_FREE" \in w.flags[x] => w.flags[x] = {"P_SLOT_FREE"}
    BY <1>0, <1>4, <1>5 DEF FlagsOK
  <2>3. ASSUME NEW x \in Proc, "SENDING" \in w.flags[x]
        PROVE  /\ "RECEIVING" \in w.flags[x] => w.getfrom[x] # ANY
               /\ w.sendto[x] \in Task \cup Server /\ (x \in User => w.sendto[x] \in Server)
    <3>1. x # c BY <1>5, <2>3
    <3>2. w.flags[x] = s.flags[x] /\ w.getfrom[x] = s.getfrom[x] /\ w.sendto[x] = s.sendto[x]
      BY <3>1, <1>0, <1>3, <1>4 DEF Table
    <3> QED BY <3>2, <2>3, <1>0 DEF FlagsOK
  <2> QED BY <2>1, <2>2, <2>3 DEF FlagsOK
<1>9. CallersListed(w)
  <2>1. w.callerq = s.callerq BY <1>0, <1>2, <1>3 DEF Table
  <2>2. \A x \in Proc : /\ "SENDING" \in w.flags[x] <=> "SENDING" \in s.flags[x]
                        /\ "SENDING" \in s.flags[x] => w.sendto[x] = s.sendto[x]
    <3> SUFFICES ASSUME NEW x \in Proc
                 PROVE  /\ "SENDING" \in w.flags[x] <=> "SENDING" \in s.flags[x]
                        /\ "SENDING" \in s.flags[x] => w.sendto[x] = s.sendto[x]
      OBVIOUS
    <3>1. CASE x = c
      <4>1. "SENDING" \notin w.flags[c] BY <1>5
      <4>2. "SENDING" \notin s.flags[c] BY <1>0, <1>1 DEF FlagsOK
      <4> QED BY <3>1, <4>1, <4>2
    <3>2. CASE x # c
      <4>1. w.flags[x] = s.flags[x] /\ w.sendto[x] = s.sendto[x]
        BY <3>2, <1>0, <1>3, <1>4 DEF Table
      <4> QED BY <4>1
    <3> QED BY <3>1, <3>2
  <2> QED BY <2>1, <2>2, <1>0, CallersSame
<1>10. SigCounted(w)
  <2>1. \A x \in User : "PENDING" \in w.flags[x] <=> "PENDING" \in s.flags[x]
    BY <1>1, <1>4, <1>5, UserKind
  <2>2. {x \in User : "PENDING" \in w.flags[x]} = {x \in User : "PENDING" \in s.flags[x]} BY <2>1
  <2>3. w.sig_procs = Cardinality({x \in User : "PENDING" \in w.flags[x]})
    BY <2>2, <1>0, <1>3 DEF SigCounted
  <2>4. s.court[c] = 0
    <3>1. s.court[c] \in Nat /\ s.pendcount[c] \in Nat BY <1>0 DEF Table
    <3>2. ~(s.pendcount[c] > 0) BY <1>0, <1>1 DEF SigCounted
    <3>3. s.pendcount[c] = Cardinality(s.pending[c]) + s.court[c] /\ Cardinality(s.pending[c]) \in Nat
      BY <1>0, PendingFinite DEF SigCounted
    <3> QED BY <3>1, <3>2, <3>3
  <2>5. ASSUME NEW x \in User
        PROVE  /\ "PENDING" \in w.flags[x] <=> w.pending[x] # {}
               /\ "SIG_PENDING" \in w.flags[x] <=> w.pendcount[x] > 0
               /\ w.pendcount[x] = Cardinality(w.pending[x]) + w.court[x]
    <3>1. CASE x = c
      <4>1. w.pending[c] = {} /\ w.pendcount[c] = 0 /\ w.court[c] = 0
        BY <2>4, <1>0, <1>3 DEF Table
      <4>2. Cardinality({}) = 0 BY FS_EmptySet
      <4> QED BY <3>1, <4>1, <4>2, <1>5
    <3>2. CASE x # c
      <4>1. w.flags[x] = s.flags[x] BY <3>2, <1>4, UserKind
      <4>2. w.pending[x] = s.pending[x] /\ w.pendcount[x] = s.pendcount[x] /\ w.court[x] = s.court[x]
        BY <3>2, <1>0, <1>3 DEF Table
      <4> QED BY <4>1, <4>2, <1>0 DEF SigCounted
    <3> QED BY <3>1, <3>2
  <2> QED BY <2>3, <2>5 DEF SigCounted
<1>11. Steady(s, w) BY <1>0, <1>3, SettledSame DEF Steady
<1> QED BY <1>3, <1>6, <1>7, <1>8, <1>9, <1>10, <1>11 DEF Good, w

\* XIT takes a process out of whatever it was doing: off the ready queue, off
\* the caller queue it waits on, out of the signal counts.
LEMMA XitGood ==
  ASSUME NEW s, Good(s), NEW p \in User, "P_SLOT_FREE" \notin s.flags[p]
  PROVE  Good(do_xit(s, p, FALSE)) /\ Steady(s, do_xit(s, p, FALSE))
<1> DEFINE R == Runnable(s) \ {p}
           a == IF s.flags[p] = {} THEN unready(s, p) ELSE s
           t == rmshadow(a, p, FALSE)
           u == IF "SENDING" \in s.flags[p]
                THEN [t EXCEPT !.callerq = [d \in Proc |-> Unlink(@[d], p)]] ELSE t
           b == Clear(u, p, Flag)
           n == IF "PENDING" \in s.flags[p] THEN s.sig_procs - 1 ELSE s.sig_procs
           w == do_xit(s, p, FALSE)
<1>0. /\ s \in Table /\ Runnable(s) \in SUBSET Proc /\ Queued(s, Runnable(s)) /\ FlagsOK(s)
      /\ CallersListed(s) /\ SigCounted(s) /\ p \in Proc \ {IDLE, HARDWARE} /\ R \in SUBSET Proc
      /\ p \notin R
  BY UserKind DEF Good, Runnable
<1>1. QueuesOnly(s, a) /\ Queued(a, R) /\ Steady(s, a)
  <2>1. CASE s.flags[p] = {}
    <3>1. QueuesOnly(s, unready(s, p)) /\ Queued(unready(s, p), R) /\ Steady(s, unready(s, p))
      BY <1>0, UnreadyFrame, UnreadyQueued, UnreadySteady
    <3> QED BY <2>1, <3>1
  <2>2. CASE s.flags[p] # {}
    <3>1. R = Runnable(s) /\ a = s BY <2>2 DEF Runnable
    <3> QED BY <3>1, <1>0 DEF QueuesOnly, Steady
  <2> QED BY <2>1, <2>2
<1>2. w = [b EXCEPT
                !.sig_procs = IF "PENDING" \in s.flags[p] THEN @ - 1 ELSE @,
                !.pending[p] = {}, !.pendcount[p] = 0, !.court[p] = 0,
                !.core[p] = 1, !.flags[p] = {"P_SLOT_FREE"}]
  BY DEF do_xit
<1> HIDE DEF a, w
<1>3. ShadowOnly(a, t) /\ Queued(t, R) /\ Steady(a, t)
  <2>1. \A q \in User \ {p} : q \in R <=> a.flags[q] = {}
    BY <1>1, UserKind DEF QueuesOnly, Runnable
  <2>2. a \in Table BY <1>1 DEF QueuesOnly
  <2> HIDE DEF R
  <2> QED BY <2>1, <2>2, <1>0, <1>1, RmShadow
<1> HIDE DEF t, R
<1>4. ShadowOnly(s, t) /\ Steady(s, t) BY <1>1, <1>3 DEF ShadowOnly, QueuesOnly, Steady
<1>5. \A d \in Proc : /\ Unlink(s.callerq[d], p) \in Seq(Proc)
                      /\ Lists(Unlink(s.callerq[d], p), Senders(s, d) \ {p})
  BY <1>0, UnlinkLists DEF CallersListed, Table
<1>6. /\ u \in Table /\ u.flags = s.flags /\ u.getfrom = s.getfrom /\ u.sendto = s.sendto
      /\ u.pending = s.pending /\ u.pendcount = s.pendcount /\ u.court = s.court
      /\ u.sig_procs = s.sig_procs /\ u.rdy = t.rdy /\ u.proc_ptr = t.proc_ptr
      /\ u.bill_ptr = t.bill_ptr /\ u.shadow = t.shadow
      /\ u.callerq = IF "SENDING" \in s.flags[p] THEN [d \in Proc |-> Unlink(s.callerq[d], p)]
                     ELSE s.callerq
  BY <1>4, <1>5 DEF ShadowOnly, Table
<1> HIDE DEF u
<1>7. /\ Keeps(u, b) /\ b.rdy = u.rdy /\ b.proc_ptr = u.proc_ptr /\ b.bill_ptr = u.bill_ptr
      /\ b.flags = [u.flags EXCEPT ![p] = @ \ Flag]
      /\ b.getfrom = [u.getfrom EXCEPT ![p] = ANY]
      /\ b.sendto = [u.sendto EXCEPT ![p] = HARDWARE]
  <2>1. Flag \in SUBSET Flag /\ "RECEIVING" \in Flag /\ "SENDING" \in Flag BY DEF Flag
  <2> HIDE DEF b
  <2>2. LET r == Clear(u, p, Flag)
        IN  /\ Keeps(u, r) /\ r.rdy = u.rdy /\ r.proc_ptr = u.proc_ptr
            /\ r.bill_ptr = u.bill_ptr
            /\ r.flags = [u.flags EXCEPT ![p] = @ \ Flag]
            /\ r.getfrom = [u.getfrom EXCEPT ![p] = IF "RECEIVING" \in Flag THEN ANY ELSE @]
            /\ r.sendto = [u.sendto EXCEPT ![p] = IF "SENDING" \in Flag THEN HARDWARE ELSE @]
    BY <2>1, <1>0, <1>6, ClearFrame
  <2> QED BY <2>1, <2>2 DEF b
<1> HIDE DEF b
<1>8. n \in Nat
  <2>1. s.sig_procs \in Nat BY <1>0 DEF Table
  <2>2. "PENDING" \in s.flags[p] => s.sig_procs >= 1 BY <1>0, PendingCount
  <2> QED BY <2>1, <2>2
<1>9. /\ w \in Table
      /\ w.flags = [s.flags EXCEPT ![p] = {"P_SLOT_FREE"}] /\ w.callerq = u.callerq
      /\ w.getfrom = [s.getfrom EXCEPT ![p] = ANY] /\ w.sendto = [s.sendto EXCEPT ![p] = HARDWARE]
      /\ w.sig_procs = n /\ w.pending = [s.pending EXCEPT ![p] = {}]
      /\ w.pendcount = [s.pendcount EXCEPT ![p] = 0] /\ w.court = [s.court EXCEPT ![p] = 0]
      /\ w.rdy = t.rdy /\ w.proc_ptr = t.proc_ptr /\ w.bill_ptr = t.bill_ptr /\ w.shadow = t.shadow
  <2>1. /\ b \in Table /\ b.callerq = u.callerq /\ b.pending = s.pending /\ b.pendcount = s.pendcount
        /\ b.court = s.court /\ b.sig_procs = s.sig_procs /\ b.shadow = t.shadow /\ b.rdy = t.rdy
        /\ b.proc_ptr = t.proc_ptr /\ b.bill_ptr = t.bill_ptr
        /\ b.flags = [s.flags EXCEPT ![p] = @ \ Flag]
        /\ b.getfrom = [s.getfrom EXCEPT ![p] = ANY] /\ b.sendto = [s.sendto EXCEPT ![p] = HARDWARE]
    BY <1>6, <1>7 DEF Keeps
  <2>2. 1 \in Slots /\ {"P_SLOT_FREE"} \in SUBSET Flag /\ 0 \in Nat BY SlotAssumption DEF Flag
  <2>3. w = [b EXCEPT !.sig_procs = n, !.pending[p] = {}, !.pendcount[p] = 0, !.court[p] = 0,
                      !.core[p] = 1, !.flags[p] = {"P_SLOT_FREE"}]
    BY <1>2, <2>1
  <2> HIDE DEF n
  <2>4. /\ w \in Table /\ w.flags = [b.flags EXCEPT ![p] = {"P_SLOT_FREE"}] /\ w.callerq = b.callerq
        /\ w.getfrom = b.getfrom /\ w.sendto = b.sendto
        /\ w.sig_procs = n /\ w.pending = [b.pending EXCEPT ![p] = {}]
        /\ w.pendcount = [b.pendcount EXCEPT ![p] = 0] /\ w.court = [b.court EXCEPT ![p] = 0]
        /\ w.rdy = b.rdy /\ w.proc_ptr = b.proc_ptr /\ w.bill_ptr = b.bill_ptr /\ w.shadow = b.shadow
    BY <1>0, <1>8, <2>1, <2>2, <2>3 DEF Table
  <2>5. w.flags = [s.flags EXCEPT ![p] = {"P_SLOT_FREE"}]
    <3>1. s.flags \in [Proc -> SUBSET Flag] BY <1>0 DEF Table
    <3> QED BY <3>1, <2>1, <2>4
  <2> QED BY <2>1, <2>4, <2>5
<1>10. w.flags[p] = {"P_SLOT_FREE"} /\ \A x \in Proc \ {p} : w.flags[x] = s.flags[x]
  <2>1. s.flags \in [Proc -> SUBSET Flag] /\ p \in Proc BY <1>0 DEF Table
  <2>2. w.flags = [s.flags EXCEPT ![p] = {"P_SLOT_FREE"}] BY <1>9
  <2> QED BY <2>1, <2>2, FlagsAt
<1>11. Queued(w, Runnable(w))
  <2>1. Runnable(w) = R BY <1>10 DEF Runnable, R
  <2> QED BY <2>1, <1>3, <1>9, QueuedSame
<1>12. Steady(s, w)
  <2>1. t \in Table BY <1>4 DEF ShadowOnly
  <2> QED BY <2>1, <1>4, <1>9, SettledSame DEF Steady
<1>13. FlagsOK(w)
  <2>1. w.flags[HARDWARE] = {} /\ w.flags[IDLE] = {} BY <1>0, <1>10, ProcFacts DEF FlagsOK
  <2>2. ASSUME NEW x \in Proc
        PROVE  /\ x \notin User => w.flags[x] \subseteq {"SENDING", "RECEIVING"}
               /\ "P_SLOT_FREE" \in w.flags[x] => w.flags[x] = {"P_SLOT_FREE"}
    BY <1>0, <1>10 DEF FlagsOK
  <2>3. ASSUME NEW x \in Proc, "SENDING" \in w.flags[x]
        PROVE  /\ "RECEIVING" \in w.flags[x] => w.getfrom[x] # ANY
               /\ w.sendto[x] \in Task \cup Server /\ (x \in User => w.sendto[x] \in Server)
    <3>1. x # p BY <1>10, <2>3
    <3>2. w.flags[x] = s.flags[x] /\ w.getfrom[x] = s.getfrom[x] /\ w.sendto[x] = s.sendto[x]
      BY <3>1, <1>0, <1>9, <1>10 DEF Table
    <3> QED BY <3>2, <2>3, <1>0 DEF FlagsOK
  <2> QED BY <2>1, <2>2, <2>3 DEF FlagsOK
<1>14. CallersListed(w)
  <2>1. ASSUME NEW d \in Proc PROVE Lists(w.callerq[d], Senders(w, d))
    <3>1. \A x \in Proc \ {p} : w.sendto[x] = s.sendto[x] BY <1>0, <1>9 DEF Table
    <3>2. \A x \in Proc : x \in Senders(w, d) <=> x \in Senders(s, d) \ {p}
      BY <3>1, <1>10 DEF Senders
    <3>3. Senders(w, d) = Senders(s, d) \ {p} BY <3>2 DEF Senders
    <3>4. CASE "SENDING" \in s.flags[p]
      <4>1. w.callerq[d] = Unlink(s.callerq[d], p) BY <3>4, <1>6, <1>9
      <4> QED BY <4>1, <3>3, <1>5
    <3>5. CASE "SENDING" \notin s.flags[p]
      <4>1. w.callerq[d] = s.callerq[d] BY <3>5, <1>6, <1>9
      <4>2. p \notin Senders(s, d) BY <3>5 DEF Senders
      <4>3. Senders(w, d) = Senders(s, d) BY <4>2, <3>3
      <4> QED BY <4>1, <4>3, <1>0 DEF CallersListed
    <3> QED BY <3>4, <3>5
  <2> QED BY <2>1 DEF CallersListed
<1>15. SigCounted(w)
  <2> DEFINE P == {x \in User : "PENDING" \in s.flags[x]}
             Q == {x \in User : "PENDING" \in w.flags[x]}
  <2>1. Q = P \ {p} BY <1>10, UserKind
  <2>2. IsFiniteSet(P) BY UserFinite, FS_Subset
  <2>3. Cardinality(Q) = IF p \in P THEN Cardinality(P) - 1 ELSE Cardinality(P)
    BY <2>1, <2>2, FS_RemoveElement
  <2>4. s.sig_procs = Cardinality(P) BY <1>0 DEF SigCounted
  <2>5. w.sig_procs = Cardinality(Q) BY <2>3, <2>4, <1>9
  <2>6. ASSUME NEW x \in User
        PROVE  /\ "PENDING" \in w.flags[x] <=> w.pending[x] # {}
               /\ "SIG_PENDING" \in w.flags[x] <=> w.pendcount[x] > 0
               /\ w.pendcount[x] = Cardinality(w.pending[x]) + w.court[x]
    <3>1. CASE x = p
      <4>1. w.pending[p] = {} /\ w.pendcount[p] = 0 /\ w.court[p] = 0 BY <1>0, <1>9 DEF Table
      <4>2. Cardinality({}) = 0 BY FS_EmptySet
      <4> QED BY <3>1, <4>1, <4>2, <1>10
    <3>2. CASE x # p
      <4>1. w.flags[x] = s.flags[x] BY <3>2, <1>10, UserKind
      <4>2. w.pending[x] = s.pending[x] /\ w.pendcount[x] = s.pendcount[x] /\ w.court[x] = s.court[x]
        BY <3>2, <1>0, <1>9 DEF Table
      <4> QED BY <4>1, <4>2, <1>0 DEF SigCounted
    <3> QED BY <3>1, <3>2
  <2> QED BY <2>5, <2>6 DEF SigCounted
<1> QED BY <1>9, <1>11, <1>12, <1>13, <1>14, <1>15 DEF Good, w

\* A sharer in physio makes rmshadow() panic, or does not matter to it.
LEMMA RmBusy ==
  ASSUME NEW s \in Table, NEW p, NEW busy \in BOOLEAN
  PROVE  \/ rmshadow(s, p, busy) = rmshadow(s, p, FALSE)
         \/ rmshadow(s, p, busy) = [s EXCEPT !.panic = "physio"]
BY DEF rmshadow

\* t is n, or what a panic leaves of s; the panic is n's, or over physio.
Ends(s, n, t) ==
  \/ t = n /\ n.panic = "none"
  \/ \E m \in Panic \ {"none"} : t = [s EXCEPT !.panic = m] /\ (m = "physio" \/ n.panic = m)

\* FRESH and XIT end in a panic, which changes nothing else, or find no
\* sharer in physio.
LEMMA FreshHalts ==
  ASSUME NEW s, Good(s), NEW p \in User, s.flags[p] # {}, NEW v \in Slots, NEW busy \in BOOLEAN
  PROVE  Ends(s, do_fresh(s, p, v, FALSE), Halting(s, do_fresh(s, p, v, busy)))
<1> DEFINE w == do_fresh(s, p, v, busy)
           n == do_fresh(s, p, v, FALSE)
<1>1. s \in Table /\ n \in Table BY FreshGood DEF Good
<1>2. n.panic \in Panic BY <1>1 DEF Table
<1>3. w = n \/ w.panic = "physio"
  <2>1. CASE rmshadow(s, p, busy) = rmshadow(s, p, FALSE) BY <2>1 DEF do_fresh
  <2>2. CASE rmshadow(s, p, busy) = [s EXCEPT !.panic = "physio"]
    BY <1>1, <2>2 DEF do_fresh, Table
  <2> QED BY <1>1, <2>1, <2>2, RmBusy
<1> SUFFICES Ends(s, n, Halting(s, w)) OBVIOUS
<1> HIDE DEF w, n
<1>4. Halting(s, w) = IF w.panic = "none" THEN w ELSE [s EXCEPT !.panic = w.panic] BY DEF Halting
<1>5. CASE w.panic = "none" BY <1>3, <1>4, <1>5 DEF Ends
<1>6. CASE w.panic # "none"
  <2>1. w.panic \in Panic \ {"none"} BY <1>2, <1>3, <1>6 DEF Panic
  <2>2. Halting(s, w) = [s EXCEPT !.panic = w.panic] BY <1>4, <1>6
  <2>3. w.panic = "physio" \/ n.panic = w.panic BY <1>3
  <2> QED BY <2>1, <2>2, <2>3, Zenon DEF Ends
<1> QED BY <1>5, <1>6

LEMMA XitHalts ==
  ASSUME NEW s, Good(s), NEW p \in User, "P_SLOT_FREE" \notin s.flags[p], NEW busy \in BOOLEAN
  PROVE  Ends(s, do_xit(s, p, FALSE), Halting(s, do_xit(s, p, busy)))
<1> DEFINE a == IF s.flags[p] = {} THEN unready(s, p) ELSE s
           w == do_xit(s, p, busy)
           n == do_xit(s, p, FALSE)
<1>1. s \in Table /\ n \in Table BY XitGood DEF Good
<1>2. n.panic \in Panic BY <1>1 DEF Table
<1>0. a \in Table
  <2>1. p \in Proc BY UserKind
  <2> QED BY <1>1, <2>1, UnreadyFrame DEF QueuesOnly
<1>3. w = n \/ w.panic = "physio"
  <2>1. CASE rmshadow(a, p, busy) = rmshadow(a, p, FALSE) BY <2>1 DEF do_xit
  <2>2. CASE rmshadow(a, p, busy) = [a EXCEPT !.panic = "physio"]
    <3> DEFINE t == [a EXCEPT !.panic = "physio"]
               u == IF "SENDING" \in s.flags[p]
                    THEN [t EXCEPT !.callerq = [d \in Proc |-> Unlink(@[d], p)]]
                    ELSE t
    <3>1. w = [Clear(u, p, Flag) EXCEPT
                !.sig_procs = IF "PENDING" \in s.flags[p] THEN @ - 1 ELSE @,
                !.pending[p] = {}, !.pendcount[p] = 0, !.court[p] = 0,
                !.core[p] = 1, !.flags[p] = {"P_SLOT_FREE"}]
      BY <2>2 DEF do_xit
    <3> HIDE DEF a, w
    <3>2. t.panic = "physio" /\ DOMAIN t = DOMAIN a BY <1>0 DEF Table
    <3>3. u.panic = "physio" /\ DOMAIN u = DOMAIN a BY <3>2
    <3> HIDE DEF t, u
    <3>4. Clear(u, p, Flag).panic = "physio" /\ DOMAIN Clear(u, p, Flag) = DOMAIN a
      BY <3>3, <1>0 DEF Clear, Table
    <3> QED BY <3>1, <3>4, <1>0 DEF Table
  <2> QED BY <1>0, <2>1, <2>2, RmBusy
<1> SUFFICES Ends(s, n, Halting(s, w)) OBVIOUS
<1> HIDE DEF a, w, n
<1>4. Halting(s, w) = IF w.panic = "none" THEN w ELSE [s EXCEPT !.panic = w.panic] BY DEF Halting
<1>5. CASE w.panic = "none" BY <1>3, <1>4, <1>5 DEF Ends
<1>6. CASE w.panic # "none"
  <2>1. w.panic \in Panic \ {"none"} BY <1>2, <1>3, <1>6 DEF Panic
  <2>2. Halting(s, w) = [s EXCEPT !.panic = w.panic] BY <1>4, <1>6
  <2>3. w.panic = "physio" \/ n.panic = w.panic BY <1>3
  <2> QED BY <2>1, <2>2, <2>3, Zenon DEF Ends
<1> QED BY <1>5, <1>6

\* A panic preserves the agreement of the table.
LEMMA PanicGood ==
  ASSUME NEW s, Good(s), NEW m \in Panic
  PROVE  Good([s EXCEPT !.panic = m]) /\ Steady(s, [s EXCEPT !.panic = m])
<1>1. s \in Table /\ Queued(s, Runnable(s)) BY DEF Good
<1> QED BY <1>1, PanicLemma, ShadowGood

-----------------------------------------------------------------------------
(***************************************************************************)
(* The inductive invariant and the theorems.                               *)
(***************************************************************************)
\* The inductive invariant: besides the properties themselves it says which
\* flags go together (FlagsOK), without which a rendezvous could release a
\* process that is not blocked.  It is inductive only while the stops of MM
\* and of the kernel agree: T_RESUME of a process that is not P_STOP queues it
\* a second time.
IInv ==
  /\ Good(k) /\ Settled(k)
  /\ unholding \in BOOLEAN /\ alloc \subseteq Slots /\ stopped \subseteq User
  /\ unholding => k.held # << >>

\* stmain.c readies every task but HARDWARE and IDLE, once.
LEMMA TasksListed ==
  TasksInOrder \in Seq(Proc) /\ TasksInOrder # << >> /\ Lists(TasksInOrder, Task)
<1> DEFINE q == TasksInOrder
           n == NR_TASKS - 2
           val(i) == IF i <= NR_TASKS - 4 THEN i - 1 - NR_TASKS ELSE i - NR_TASKS
<1>0. NR_TASKS \in Nat /\ NR_TASKS >= 4 /\ NR_PROCS \in Nat /\ NR_PROCS > 2 /\ n \in Nat /\ n >= 2
  BY SizeAssumption DEF LOW_USER
<1>1. \A i \in 1 .. n : val(i) \in Task
  BY <1>0 DEF Task, Proc, IDLE, HARDWARE
<1>2. Task \subseteq Proc BY DEF Task
<1>3. q = [i \in 1 .. n |-> val(i)] BY DEF TasksInOrder
<1>4. q \in Seq(Proc) /\ Len(q) = n /\ DOMAIN q = 1 .. n /\ \A i \in 1 .. n : q[i] = val(i)
  <2> HIDE DEF q, val, n
  <2>1. DOMAIN q = 1 .. n /\ \A i \in 1 .. n : q[i] = val(i) BY <1>3
  <2>2. \A i \in 1 .. n : val(i) \in Proc BY <1>1, <1>2
  <2>3. q \in [1 .. n -> Proc] BY <1>3, <2>2
  <2>4. q \in Seq(Proc) BY <1>0, <2>3
  <2>5. Len(q) = n BY <1>0, <2>1, <2>4
  <2> QED BY <2>1, <2>4, <2>5
<1> HIDE DEF q
<1>5. NoDup(q)
  <2>1. ASSUME NEW i \in 1 .. n, NEW j \in 1 .. n, val(i) = val(j) PROVE i = j
    BY <1>0, <2>1
  <2> QED BY <2>1, <1>4 DEF NoDup
<1>6. ASSUME NEW p \in Proc, Contains(q, p) PROVE p \in Task
  BY <1>1, <1>4, <1>6 DEF Contains
<1>7. ASSUME NEW p \in Proc, p \in Task PROVE Contains(q, p)
  <2>1. p \in Int /\ p >= -NR_TASKS /\ p < 0 /\ p # -4 /\ p # -1
    BY <1>0, <1>7 DEF Task, Proc, IDLE, HARDWARE
  <2>2. CASE p < -4
    <3>1. p + 1 + NR_TASKS \in 1 .. n /\ val(p + 1 + NR_TASKS) = p BY <1>0, <2>1, <2>2
    <3> QED BY <3>1, <1>4 DEF Contains
  <2>3. CASE p > -4
    <3>1. p + NR_TASKS \in 1 .. n /\ val(p + NR_TASKS) = p BY <1>0, <2>1, <2>3
    <3> QED BY <3>1, <1>4 DEF Contains
  <2> QED BY <2>1, <2>2, <2>3
<1>8. q # << >> BY <1>0, <1>4
<1> QED BY <1>4, <1>5, <1>6, <1>7, <1>8 DEF Lists, q

\* The table that stmain.c builds.
LEMMA InitIInv == Init => IInv
<1> SUFFICES ASSUME Init PROVE IInv OBVIOUS
<1>0. NR_TASKS \in Nat /\ NR_TASKS >= 4 /\ NR_PROCS \in Nat /\ NR_PROCS > 2
  BY SizeAssumption DEF LOW_USER
<1>1. /\ k.flags = [p \in Proc |-> IF p <= LOW_USER THEN {} ELSE {"P_SLOT_FREE"}]
      /\ k.callerq = [p \in Proc |-> << >>] /\ k.getfrom = [p \in Proc |-> ANY]
      /\ k.sendto = [p \in Proc |-> HARDWARE]
      /\ k.rdy = [q \in Queue |-> CASE q = TASK_Q   -> TasksInOrder
                                    [] q = SERVER_Q -> <<MM, FS>>
                                    [] q = USER_Q   -> <<LOW_USER>>
                                    [] q = SHADOW_Q -> << >>]
      /\ k.proc_ptr = TasksInOrder[1] /\ k.bill_ptr = HARDWARE
      /\ k.pending = [p \in User |-> {}] /\ k.pendcount = [p \in User |-> 0]
      /\ k.court = [p \in User |-> 0] /\ k.sig_procs = 0 /\ k.shadow = [p \in User |-> 0]
  BY DEF Init
<1>2. /\ k.rdy[TASK_Q] = TasksInOrder /\ k.rdy[SERVER_Q] = <<MM, FS>>
      /\ k.rdy[USER_Q] = <<LOW_USER>> /\ k.rdy[SHADOW_Q] = << >>
  BY <1>1 DEF Queue, TASK_Q, SERVER_Q, USER_Q, SHADOW_Q
<1>3. k \in Table
  <2>1. TasksInOrder \in Seq(Proc) /\ TasksInOrder[1] \in Proc
    BY TasksListed
  <2>2. <<MM, FS>> \in Seq(Proc) /\ <<LOW_USER>> \in Seq(Proc) /\ << >> \in Seq(Proc)
    BY ProcFacts
  <2>3. k.rdy \in [Queue -> Seq(Proc)]
    BY <2>1, <2>2, <1>1 DEF Queue, TASK_Q, SERVER_Q, USER_Q, SHADOW_Q
  <2>4. << >> \in Seq(Task) /\ 1 \in Slots /\ {"P_SLOT_FREE"} \subseteq Flag
    BY SlotAssumption DEF Flag
  <2>5. k.flags \in [Proc -> SUBSET Flag] BY <1>1, <2>4
  <2>6. k.callerq \in [Proc -> Seq(Proc)] BY <1>1, <2>2
  <2> QED BY <2>1, <2>3, <2>4, <2>5, <2>6, ProcFacts DEF Init, Table, Panic
<1>4. Runnable(k) = Task \cup Server \cup {LOW_USER}
  <2>1. \A p \in Proc : k.flags[p] = {} <=> p <= LOW_USER BY <1>1
  <2>2. \A p \in Proc : p <= LOW_USER <=> p < 0 \/ p \in Server \cup {LOW_USER}
    BY <1>0 DEF Proc, Server, MM, FS, LOW_USER
  <2>3. \A p \in Server \cup {LOW_USER} : p \in Proc \ {HARDWARE, IDLE}
    BY <1>0 DEF Proc, Server, MM, FS, LOW_USER, HARDWARE, IDLE
  <2> QED BY <2>1, <2>2, <2>3 DEF Runnable, Task
<1>5. /\ {p \in Runnable(k) : QueueOf(k, p) = TASK_Q} = Task
      /\ {p \in Runnable(k) : QueueOf(k, p) = SERVER_Q} = {MM, FS}
      /\ {p \in Runnable(k) : QueueOf(k, p) = USER_Q} = {LOW_USER}
      /\ {p \in Runnable(k) : QueueOf(k, p) = SHADOW_Q} = {}
  <2>1. LOW_USER \in User /\ ~isshadowp(k, LOW_USER)
    BY <1>0, <1>1 DEF isshadowp, User, LOW_USER
  <2>2. \A p \in Runnable(k) : QueueOf(k, p) = IF p \in Task THEN TASK_Q ELSE IF p \in Server THEN SERVER_Q ELSE USER_Q
    BY <1>4, <2>1 DEF QueueOf, istaskp, isuserp, Task, Server, MM, FS, LOW_USER, Proc
  <2>3. Task \cap Server = {} /\ LOW_USER \notin Task /\ LOW_USER \notin Server
    BY DEF Task, Server, MM, FS, LOW_USER
  <2> QED BY <1>4, <2>2, <2>3 DEF TASK_Q, SERVER_Q, USER_Q, SHADOW_Q, Server
<1>6. Queued(k, Runnable(k))
  <2>1. Lists(<<MM, FS>>, {MM, FS}) BY DEF Lists, NoDup, Contains, MM, FS
  <2>2. Lists(<<LOW_USER>>, {LOW_USER}) BY DEF Lists, NoDup, Contains
  <2>3. Lists(<< >>, {}) BY DEF Lists, NoDup, Contains
  <2> QED BY <1>2, <1>5, <2>1, <2>2, <2>3, TasksListed DEF Queued, Queue
<1>7. FlagsOK(k)
  BY <1>0, <1>1, ProcFacts DEF FlagsOK, User, LOW_USER, HARDWARE, IDLE, Proc
<1>8. CallersListed(k)
  <2>1. \A d \in Proc : Senders(k, d) = {} /\ k.callerq[d] = << >> BY <1>1 DEF Senders
  <2>2. Lists(<< >>, {}) BY DEF Lists, NoDup, Contains
  <2> QED BY <2>1, <2>2 DEF CallersListed
<1>9. SigCounted(k)
  <2>1. \A p \in User : "PENDING" \notin k.flags[p] /\ "SIG_PENDING" \notin k.flags[p]
    BY <1>1, Kinds
  <2>2. {p \in User : "PENDING" \in k.flags[p]} = {} BY <2>1
  <2>3. Cardinality({}) = 0 BY FS_EmptySet
  <2>4. \A p \in User : k.pending[p] = {} /\ k.pendcount[p] = 0 /\ k.court[p] = 0
    BY <1>1
  <2>5. k.sig_procs = Cardinality({p \in User : "PENDING" \in k.flags[p]}) BY <1>1, <2>2, <2>3
  <2>6. ASSUME NEW p \in User
        PROVE  /\ "PENDING" \in k.flags[p] <=> k.pending[p] # {}
               /\ "SIG_PENDING" \in k.flags[p] <=> k.pendcount[p] > 0
               /\ k.pendcount[p] = Cardinality(k.pending[p]) + k.court[p]
    <3>1. k.pending[p] = {} /\ k.pendcount[p] = 0 /\ k.court[p] = 0 BY <2>4
    <3>2. Cardinality(k.pending[p]) = 0 BY <3>1, <2>3
    <3>3. "PENDING" \notin k.flags[p] /\ "SIG_PENDING" \notin k.flags[p] BY <2>1
    <3>4. ~(k.pendcount[p] > 0) /\ k.pendcount[p] = Cardinality(k.pending[p]) + k.court[p]
      BY <3>1, <3>2
    <3> QED BY <3>1, <3>3, <3>4
  <2> QED BY <2>5, <2>6 DEF SigCounted
<1>10. Settled(k)
  <2>1. k.proc_ptr = Head(k.rdy[TASK_Q]) /\ k.rdy[TASK_Q] # << >>
    <3>1. k.rdy[TASK_Q] \in Seq(Proc) /\ k.rdy[TASK_Q] # << >> /\ k.proc_ptr = k.rdy[TASK_Q][1]
      BY <1>1, <1>2, TasksListed
    <3> QED BY <3>1
  <2> QED BY <2>1, <1>3, SettledCases
<1>11. unholding = FALSE /\ alloc \subseteq Slots /\ stopped \subseteq User BY SlotAssumption DEF Init
<1> QED BY <1>3, <1>6, <1>7, <1>8, <1>9, <1>10, <1>11 DEF IInv, Good

\* While the system task works on a call nothing else runs.
LEMMA Served ==
  ASSUME IInv, NEW x, Serves(x)
  PROVE  k.proc_ptr = SYSTASK /\ k.proc_ptr \in Task /\ ~unholding
BY Kinds DEF Serves, Running

\* Every action preserves the invariant.
LEMMA StepIInv == IInv /\ StopsAgree /\ [Next]_vars => IInv'
<1> SUFFICES ASSUME IInv, StopsAgree, [Next]_vars PROVE IInv' OBVIOUS
<1> USE DEF IInv
<1>0. k \in Table BY DEF Good
<1>1. CASE SysCall
  BY <1>1, SysCallGood DEF SysCall, Restart
<1>2. CASE Interrupt
  BY <1>2, InterruptGood, DriverAssumption DEF Interrupt, Restart
<1>3. CASE HoldInterrupt
  <2>1. PICK t \in Driver : k' = hold(k, t) /\ UNCHANGED <<unholding, alloc, stopped>>
    BY <1>3 DEF HoldInterrupt
  <2>2. t \in Task BY DriverAssumption
  <2>3. hold(k, t).held # << >>
    <3>1. k.held \in Seq(Task) BY <1>0 DEF Table
    <3>2. CASE Contains(k.held, t) BY <3>1, <3>2 DEF hold, Contains
    <3>3. CASE ~Contains(k.held, t)
      <4>1. hold(k, t).held = Append(k.held, t) BY <1>0, <3>3 DEF hold, Table
      <4> QED BY <3>1, <4>1, <2>2
    <3> QED BY <3>2, <3>3
  <2> QED BY <2>1, <2>2, <2>3, HoldGood
<1>4. CASE Unhold
  BY <1>4, UnholdGood DEF Unhold, Restart
<1>5. CASE UserTrap
  <2>1. PICK p \in User, sig \in Sig :
          Running(p) /\ k' = cause_sig(k, p, sig) /\ Restart /\ UNCHANGED <<alloc, stopped>>
    BY <1>5 DEF UserTrap
  <2>2. p # IDLE /\ k.proc_ptr = p BY <2>1, UserKind DEF Running
  <2>3. k.flags[p] = {} BY <2>2, RunningOnTop DEF OnTop
  <2> QED BY <2>1, <2>3, CauseSig DEF Restart
<1>6. CASE TaskSignal
  <2>1. PICK p \in Live(k), sig \in Sig :
          k' = cause_sig(k, p, sig) /\ UNCHANGED <<unholding, alloc, stopped>>
    BY <1>6 DEF TaskSignal
  <2>2. p \in User /\ "P_SLOT_FREE" \notin k.flags[p] BY DEF Live
  <2> QED BY <2>1, <2>2, CauseSig
<1>7. CASE ClockTick
  <2>1. PICK p \in Live(k) \cup {IDLE}, sig \in Sig, expired \in BOOLEAN, flip \in BOOLEAN :
          /\ Running(CLOCK) /\ k' = do_clocktick(k, p, sig, expired, flip)
          /\ UNCHANGED <<unholding, alloc, stopped>>
    BY <1>7 DEF ClockTick
  <2>2. p \in User \cup {IDLE} /\ (p \in User => "P_SLOT_FREE" \notin k.flags[p])
    BY UserKind DEF Live
  <2>3. k.proc_ptr \in Task /\ ~unholding BY <2>1, Kinds DEF Running
  <2> QED BY <2>1, <2>2, <2>3, TickGood
<1>8. CASE Fork
  <2>1. PICK p \in Live(k), c \in User \ Live(k), v \in Slots :
          /\ Serves(MM) /\ InCall(p) /\ k' = do_fork(k, p, c, v)
          /\ alloc' = alloc \cup {v} /\ UNCHANGED unholding
          /\ stopped' = IF p \in stopped THEN stopped \cup {c} ELSE stopped
    BY <1>8 DEF Fork
  <2>2. p \in User /\ c \in User /\ "P_SLOT_FREE" \in k.flags[c] BY DEF Live
  <2>3. Good(k') /\ Steady(k, k') BY <2>1, <2>2, ForkGood DEF InCall
  <2>4. Settled(k') BY <2>1, <2>3, Served DEF Steady
  <2> QED BY <2>1, <2>3, <2>4, Served
<1>9. CASE Fresh
  <2>1. PICK p \in Live(k), v \in Slots, busy \in BOOLEAN :
          /\ Serves(MM) /\ InCall(p) /\ k' = Halting(k, do_fresh(k, p, v, busy))
          /\ alloc' = IF k'.panic = "none" THEN (alloc \cup {v}) \ {Freed(k, p)} ELSE alloc
          /\ UNCHANGED <<unholding, stopped>>
    BY <1>9 DEF Fresh
  <2>2. p \in User /\ k.flags[p] # {} BY <2>1 DEF Live, InCall
  <2>3. Good(k') /\ Steady(k, k')
    <3>1. CASE k' = do_fresh(k, p, v, FALSE) BY <2>2, <3>1, FreshGood
    <3>2. CASE \E m \in Panic : k' = [k EXCEPT !.panic = m] BY <3>2, PanicGood
    <3>3. Good(k) OBVIOUS
    <3>4. Ends(k, do_fresh(k, p, v, FALSE), Halting(k, do_fresh(k, p, v, busy))) BY <2>2, <3>3, FreshHalts, Zenon
    <3> QED BY <2>1, <3>1, <3>2, <3>4, Zenon DEF Ends
  <2>4. Settled(k') BY <2>1, <2>3, Served DEF Steady
  <2> QED BY <2>1, <2>3, <2>4, Served
<1>10. CASE Exec
  <2>1. PICK p \in Live(k), traced \in BOOLEAN :
          /\ Serves(MM) /\ InCall(p) /\ k' = do_exec(k, p, traced)
          /\ UNCHANGED <<unholding, alloc, stopped>>
    BY <1>10 DEF Exec
  <2>2. p \in User /\ "RECEIVING" \in k.flags[p] BY <2>1 DEF Live, InCall
  <2>3. Good(k') /\ Settled(k') BY <2>1, <2>2, Served, ExecGood
  <2> QED BY <2>1, <2>3, Served
<1>11. CASE Xit
  <2>1. PICK p \in Live(k), busy \in BOOLEAN :
          /\ Serves(MM) /\ k' = Halting(k, do_xit(k, p, busy))
          /\ alloc' = IF k'.panic = "none" THEN alloc \ {Freed(k, p)} ELSE alloc
          /\ stopped' = stopped \ {p} /\ UNCHANGED unholding
    BY <1>11 DEF Xit
  <2>2. p \in User /\ "P_SLOT_FREE" \notin k.flags[p] BY DEF Live
  <2>3. Good(k') /\ Steady(k, k')
    <3>1. CASE k' = do_xit(k, p, FALSE) BY <2>2, <3>1, XitGood
    <3>2. CASE \E m \in Panic : k' = [k EXCEPT !.panic = m] BY <3>2, PanicGood
    <3>3. Good(k) OBVIOUS
    <3>4. Ends(k, do_xit(k, p, FALSE), Halting(k, do_xit(k, p, busy))) BY <2>2, <3>3, XitHalts, Zenon
    <3> QED BY <2>1, <3>1, <3>2, <3>4, Zenon DEF Ends
  <2>4. Settled(k') BY <2>1, <2>3, Served DEF Steady
  <2> QED BY <2>1, <2>3, <2>4, Served
<1>12. CASE Kill
  <2>1. PICK p \in Live(k), sig \in Sig :
          k' = cause_sig(k, p, sig) /\ UNCHANGED <<unholding, alloc, stopped>>
    BY <1>12 DEF Kill
  <2>2. p \in User /\ "P_SLOT_FREE" \notin k.flags[p] BY DEF Live
  <2> QED BY <2>1, <2>2, CauseSig
<1>13. CASE EndSig
  <2>1. PICK p \in Live(k) :
          /\ Serves(MM) /\ k.court[p] > 0 /\ k' = do_endsig(k, p)
          /\ UNCHANGED <<unholding, alloc, stopped>>
    BY <1>13 DEF EndSig
  <2>2. p \in User BY DEF Live
  <2>3. Good(k') /\ Steady(k, k') BY <2>1, <2>2, EndSigGood
  <2>4. Settled(k') BY <2>1, <2>3, Served DEF Steady
  <2> QED BY <2>1, <2>3, <2>4, Served
<1>14. CASE Trace
  <2>1. PICK p \in Live(k), request \in {"T_STOP", "T_RESUME"} :
          /\ Serves(MM) /\ (request = "T_RESUME" => "P_STOP" \in k.flags[p])
          /\ k' = do_trace(k, p, request)
          /\ stopped' = IF request = "T_STOP" THEN stopped \cup {p} ELSE stopped \ {p}
          /\ UNCHANGED <<unholding, alloc>>
    BY <1>14 DEF Trace, StopsAgree
  <2>2. p \in User /\ "P_SLOT_FREE" \notin k.flags[p] BY DEF Live
  <2>3. Good(k') /\ Steady(k, k') BY <2>1, <2>2, TraceGood
  <2>4. Settled(k') BY <2>1, <2>3, Served DEF Steady
  <2>5. stopped' \subseteq User BY <2>1, <2>2
  <2> QED BY <2>1, <2>3, <2>4, <2>5, Served
<1>15. CASE UNCHANGED vars
  BY <1>15 DEF vars
<1>16. CASE Halted
  BY <1>16, <1>15 DEF Halted
<1> QED BY <1>1, <1>2, <1>3, <1>4, <1>5, <1>6, <1>7, <1>8, <1>9, <1>10, <1>11, <1>12, <1>13,
           <1>14, <1>15, <1>16 DEF Next

\* The process table stays consistent: the inductive invariant holds in every
\* state of every instance, for as long as no process that is STOPPED for MM
\* runs for the kernel.  (fork() of a stopped process makes one; what T_RESUME
\* then does is the run KernelTrace.)
THEOREM Invariance == Spec /\ []StopsAgree => []IInv
<1> QED BY InitIInv, StepIInv, PTL DEF Spec

\* Every field of the process table keeps its type in every instance.
THEOREM TypeCorrect == Spec /\ []StopsAgree => []TypeOK
<1>1. IInv => TypeOK BY DEF IInv, Good, TypeOK
<1> QED BY <1>1, Invariance, PTL

\* In every instance a process is in the ready queue of its class, once,
\* exactly while p_flags == 0 (ready and unready at every place that changes
\* the flags).
THEOREM RunnableQueued == Spec /\ []StopsAgree => []ReadyQueues
<1>1. IInv => ReadyQueues BY DEF IInv, Good, ReadyQueues
<1> QED BY <1>1, Invariance, PTL

\* In every instance the running process is the first of the highest
\* non-empty queue, although most places call neither pick_proc() nor compare.
THEOREM RightProcessRuns == Spec /\ []StopsAgree => []Scheduled
<1>1. IInv => Scheduled BY DEF IInv, Scheduled
<1> QED BY <1>1, Invariance, PTL

\* In every instance p_callerq of a process lists exactly those blocked
\* sending to it, after any mix of sends, receives, exits and forks.
THEOREM SendersQueued == Spec /\ []StopsAgree => []CallerQueues
<1>1. IInv => CallerQueues BY DEF IInv, Good, CallerQueues
<1> QED BY <1>1, Invariance, PTL

\* In every instance sig_procs and p_pendcount agree with the flags, the
\* pending sets and the signals MM has not ended yet.
THEOREM SignalsCounted == Spec /\ []StopsAgree => []CountsSound
<1>1. IInv => CountsSound BY DEF IInv, Good, TypeOK, SignalCounts, CountsSound
<1> QED BY <1>1, Invariance, PTL

\* In every instance HARDWARE never blocks: cause_sig() and mini_rec() call
\* inform() only when MM takes the message at once.
THEOREM HardwareFree == Spec /\ []StopsAgree => []HardwareNeverBlocks
<1>1. IInv => HardwareNeverBlocks BY DEF IInv, Good, FlagsOK, HardwareNeverBlocks
<1> QED BY <1>1, Invariance, PTL
=============================================================================
