------------------------------ MODULE MmProofs ------------------------------
(***************************************************************************)
(* What holds of MM's process table in every instance without tracing.     *)
(*                                                                         *)
(* MM serves a call in one step, but inside the step it runs loops over    *)
(* the table that kill, adopt, wake and answer processes and call each     *)
(* other.  The invariant is therefore a predicate on tables, Sound, with   *)
(* exceptions for the process whose turn it is, that every C function      *)
(* keeps; the loops keep it round by round.                                *)
(***************************************************************************)
EXTENDS Mm, TLAPS, FiniteSetTheorems, NaturalsInduction, WellFoundedInduction

Used(s, p) == "IN_USE" \in s.flags[p]

\* The slots: MM, FS and INIT are there for ever, free slots have no flags, and
\* nothing has gone wrong.
Booked(s) ==
  /\ \A p \in 0 .. 1 : s.flags[p] = {"IN_USE"}
  /\ Alive(s, INIT_PROC_NR)
  /\ \A p \in Slot : ~Used(s, p) => s.flags[p] = {}
  /\ \A p \in Slot : "TRACED" \notin s.flags[p] /\ "STOPPED" \notin s.flags[p]
  /\ s.p_stop = {} /\ ~s.panic /\ ~s.stray
  /\ s.procs_in_use = Cardinality({p \in Slot : Used(s, p)})
  /\ s.who \in {HARDWARE, s.mp}

\* Pids and process groups.
Names(s) ==
  /\ \A p \in 0 .. 1 : s.pid[p] = 0
  /\ s.pid[INIT_PROC_NR] = INIT_PID
  /\ \A p \in 1 .. 2 : s.procgrp[p] = 0
  /\ \A p \in User \ {INIT_PROC_NR} : Used(s, p) => s.pid[p] > INIT_PID
  /\ \A p, q \in User : p # q /\ Used(s, p) /\ Used(s, q) =>
       /\ s.pid[p] # s.pid[q]
       /\ s.pid[p] = s.procgrp[q] => s.procgrp[p] = s.pid[p]

\* Every process has a parent that lives, but for the children above i of d,
\* which has just died.
Family(s, i, d) ==
  /\ \A p \in 0 .. INIT_PROC_NR : s.parent[p] = MM
  /\ \A c \in User \ {INIT_PROC_NR} : Used(s, c) =>
       /\ s.parent[c] \in User \ {c}
       /\ Alive(s, s.parent[c]) \/ (s.parent[c] = d /\ c > i)

\* Nothing is left in the kernel of p.
Gone(s, p) == /\ p \notin s.posted /\ p \notin s.blocked /\ p \notin s.timer
              /\ s.ksig[p] = {} /\ s.unended[p] = 0

\* The main loop will answer p.
Owed(s, p) == p = s.who /\ ~s.dont_reply

\* No suspension, or one.
Idle(f)    == "WAITING" \notin f /\ "PAUSED" \notin f /\ "SIGSUSPENDED" \notin f
Asleep(f)  == \/ "WAITING" \in f /\ "PAUSED" \notin f /\ "SIGSUSPENDED" \notin f
              \/ "WAITING" \notin f /\ "PAUSED" \in f /\ "SIGSUSPENDED" \notin f
              \/ "WAITING" \notin f /\ "PAUSED" \notin f /\ "SIGSUSPENDED" \in f

\* A process whose call MM holds is suspended in one call, or MM is serving it.
HeldAt(s, p) ==
  /\ ~Alive(s, p) => Gone(s, p)
  /\ Alive(s, p) => IF p \in s.blocked /\ ~Owed(s, p) THEN Asleep(s.flags[p]) ELSE Idle(s.flags[p])
  /\ Alive(s, p) /\ Owed(s, p) => p \in s.blocked
  /\ p \in s.posted => p \notin s.blocked
Held(s, E) == \A p \in User \ E : HeldAt(s, p)

\* c is a child that p waits for: what do_waitpid() accepts.
Child(s, p, c) ==
  /\ Used(s, c) /\ s.parent[c] = p
  /\ s.wpid[p] > 0 => s.wpid[p] = s.pid[c]
  /\ s.wpid[p] < -1 => -s.wpid[p] = s.procgrp[c]

\* Nobody waits for a child that hangs; INIT waits for any.
Waits(s, E) ==
  \A p \in User \ E : "WAITING" \in s.flags[p] /\ Alive(s, p) =>
    /\ p = INIT_PROC_NR => s.wpid[p] = -1
    /\ "own group" \notin WaitKinds =>
         /\ s.wpid[p] # 0
         /\ \A c \in User : Child(s, p, c) => "HANGING" \notin s.flags[c]

\* Kernel signals: none for INIT, SIGINT for leaders, SIGALRM with alarms only.
Pledged(s) ==
  /\ s.ksig[INIT_PROC_NR] = {} /\ INIT_PROC_NR \notin s.timer
  /\ \A p \in User : SIGINT \in s.ksig[p] => s.procgrp[p] = s.pid[p]
  /\ "ALARM" \notin Calls => s.timer = {} /\ \A p \in User : SIGALRM \notin s.ksig[p]

\* The program's own mask is at the bottom of what will be restored.
MaskOK(s, p) ==
  LET f == s.frames[p]
  IN  s.own[p] = IF f # << >> THEN f[Len(f)]
                 ELSE IF "SIGSUSPENDED" \in s.flags[p] THEN s.sigmask2[p] ELSE s.sigmask[p]
PendOK(s, p) == s.sigpending[p] \ s.sigmask[p] # {} => s.frames[p] # << >>
MaskedAt(s, p) ==
  Alive(s, p) => /\ MaskOK(s, p) /\ s.sigpending[p] \cap s.ignore[p] = {}
                 /\ "EXEC" \notin Calls => PendOK(s, p)
Masked(s, E) == \A p \in User \ E : MaskedAt(s, p)

Core(s)  == s \in Table /\ Booked(s) /\ Names(s) /\ Pledged(s)
Kin(s)   == Family(s, NR_PROCS, MM)
Sound(s) == Core(s) /\ Kin(s) /\ Waits(s, {}) /\ Held(s, {}) /\ Masked(s, {})

\* Slots.
LEMMA SlotFacts ==
  /\ NR_PROCS \in Nat /\ NR_PROCS >= 3 /\ MaxPid \in Nat
  /\ Slot = 0 .. NR_PROCS - 1 /\ User = 2 .. NR_PROCS - 1 /\ User \subseteq Slot
  /\ INIT_PROC_NR \in User /\ MM \in Slot /\ MM \notin User /\ IsFiniteSet(Slot)
  /\ Cardinality(Slot) = NR_PROCS /\ Pid = 0 .. MaxPid /\ 0 \in Pid
<1>1. NR_PROCS \in Nat /\ NR_PROCS >= 3 /\ MaxPid \in Nat
  BY SlotsAssumption, PidAssumption DEF INIT_PROC_NR
<1>2. IsFiniteSet(Slot) /\ Cardinality(Slot) = NR_PROCS
  BY <1>1, FS_Interval DEF Slot
<1> QED BY <1>1, <1>2 DEF Slot, User, Pid, INIT_PROC_NR, MM

-----------------------------------------------------------------------------
(***************************************************************************)
(* From one table to another within a step: processes die, wake up and     *)
(* are adopted by INIT, and keep their names.                              *)
(***************************************************************************)
SameNames(s, t) ==
  /\ t.pid = s.pid /\ t.procgrp = s.procgrp /\ t.wpid = s.wpid
  /\ t.who = s.who /\ t.mp = s.mp /\ t.next_pid = s.next_pid

SameSig(s, t) ==
  /\ t.ignore = s.ignore /\ t.catch = s.catch /\ t.sigact = s.sigact /\ t.own = s.own
  /\ t.sigmask = s.sigmask /\ t.sigmask2 = s.sigmask2 /\ t.sigpending = s.sigpending

\* p has been told of a child of its, or INIT of any, that it waited for.
Tells(s, t, p) ==
  /\ "WAITING" \in s.flags[p] /\ Alive(s, p)
  /\ \E c \in User : /\ Used(s, c) /\ t.told[p] = s.pid[c]
                     /\ s.parent[c] = p \/ p = INIT_PROC_NR
                     /\ s.wpid[p] \in {-1, s.pid[c], -s.procgrp[c]}

Dims(s, t) ==
  /\ SameNames(s, t)
  /\ t.timer \subseteq s.timer
  /\ \A p \in Slot :
       /\ Used(t, p) => Used(s, p) /\ t.parent[p] \in {s.parent[p], INIT_PROC_NR}
       /\ Alive(t, p) => Alive(s, p)
       /\ Alive(t, p) /\ "WAITING" \in t.flags[p] => "WAITING" \in s.flags[p]
  /\ \A p \in User : t.told[p] = s.told[p] \/ Tells(s, t, p)

\* And the dead have no kernel signals left to end.
Wanes(s, t) == Dims(s, t) /\ \A p \in User : t.unended[p] \in {0, s.unended[p]}

\* And no alarm is forgotten that still runs.
Fades(s, t) ==
  /\ Wanes(s, t)
  /\ \A p \in Slot : p \in t.timer /\ "ALARM_ON" \in s.flags[p] => "ALARM_ON" \in t.flags[p]

\* One after the other.
LEMMA DimsTrans ==
  ASSUME NEW s, NEW t, NEW u, Dims(s, t), Dims(t, u)
  PROVE  Dims(s, u)
<1>1. SameNames(s, u) BY DEF Dims, SameNames
<1>2. User \subseteq Slot BY SlotFacts
<1>3. ASSUME NEW p \in Slot
      PROVE  /\ Used(u, p) => Used(s, p) /\ u.parent[p] \in {s.parent[p], INIT_PROC_NR}
             /\ Alive(u, p) => Alive(s, p)
             /\ Alive(u, p) /\ "WAITING" \in u.flags[p] => "WAITING" \in s.flags[p]
  BY DEF Dims
<1>4. ASSUME NEW p \in User
      PROVE  u.told[p] = s.told[p] \/ Tells(s, u, p)
  <2>1. CASE u.told[p] = t.told[p] BY <2>1 DEF Dims, Tells
  <2>2. CASE Tells(t, u, p)
    <3>1. PICK c \in User : /\ Used(t, c) /\ u.told[p] = t.pid[c]
                            /\ t.parent[c] = p \/ p = INIT_PROC_NR
                            /\ t.wpid[p] \in {-1, t.pid[c], -t.procgrp[c]}
      BY <2>2 DEF Tells
    <3>2. Used(s, c) /\ t.parent[c] \in {s.parent[c], INIT_PROC_NR} BY <3>1, <1>2 DEF Dims
    <3>3. "WAITING" \in s.flags[p] /\ Alive(s, p) BY <2>2, <1>2 DEF Dims, Tells
    <3> QED BY <3>1, <3>2, <3>3 DEF Dims, SameNames, Tells
  <2> QED BY <2>1, <2>2 DEF Dims
<1> QED BY <1>1, <1>3, <1>4 DEF Dims

\* And for the rest.
LEMMA FadesTrans ==
  ASSUME NEW s, NEW t, NEW u, Fades(s, t), Fades(t, u)
  PROVE  Fades(s, u)
<1>1. Dims(s, u) BY DimsTrans DEF Fades, Wanes
<1>2. Wanes(s, u) BY <1>1 DEF Fades, Wanes
<1>3. u.timer \subseteq t.timer BY DEF Fades, Wanes, Dims
<1> QED BY <1>2, <1>3 DEF Fades

\* The types of the fields.
LEMMA Fields ==
  ASSUME NEW s \in Table
  PROVE  /\ s.flags \in [Slot -> SUBSET MFlag] /\ s.parent \in [Slot -> Slot]
         /\ s.pid \in [Slot -> Pid] /\ s.procgrp \in [Slot -> Pid]
         /\ s.wpid \in [Slot -> -MaxPid .. MaxPid] /\ s.told \in [Slot -> Pid]
         /\ s.procs_in_use \in 0 .. NR_PROCS /\ s.next_pid \in INIT_PID + 1 .. MaxPid
         /\ s.who \in Slot \cup {HARDWARE} /\ s.mp \in Slot /\ s.dont_reply \in BOOLEAN
         /\ s.posted \in SUBSET User /\ s.blocked \in SUBSET User
         /\ s.p_stop \in SUBSET User /\ s.timer \in SUBSET User
         /\ s.ksig \in [User -> SUBSET Sig] /\ s.unended \in [User -> Nat]
BY DEF Table

\* The types of the fields that are about signals.
LEMMA SigFields ==
  ASSUME NEW s \in Table
  PROVE  /\ s.ignore \in [User -> Mask] /\ s.catch \in [User -> Mask]
         /\ s.sigmask \in [User -> Mask] /\ s.sigmask2 \in [User -> Mask]
         /\ s.sigpending \in [User -> Mask] /\ s.own \in [User -> Mask]
         /\ s.frames \in [User -> Seq(Mask)]
         /\ s.sigact \in [User -> [Sig -> [mask : Mask, flags : SUBSET {"SA_NODEFER", "SA_RESETHAND"}]]]
BY DEF Table

-----------------------------------------------------------------------------
(***************************************************************************)
(* Answers and the end of a process.                                       *)
(***************************************************************************)
\* What cleanup() writes.
LEMMA CleanupFields ==
  ASSUME NEW s \in Table, NEW c \in User, NEW q \in User, q = s.parent[c], q # c,
         Alive(s, q), q \in s.blocked, s.procs_in_use > 0
  PROVE  LET t == cleanup(s, c)
         IN  /\ t \in Table
             /\ t.flags = [s.flags EXCEPT ![q] = @ \ {"WAITING"}, ![c] = {}]
             /\ t.blocked = s.blocked \ {q} /\ t.procs_in_use = s.procs_in_use - 1
             /\ t.told = [s.told EXCEPT ![q] = s.pid[c]]
             /\ SameNames(s, t) /\ SameSig(s, t) /\ t.parent = s.parent /\ t.frames = s.frames
             /\ t.posted = s.posted /\ t.timer = s.timer /\ t.p_stop = s.p_stop
             /\ t.ksig = s.ksig /\ t.unended = s.unended /\ t.dont_reply = s.dont_reply
             /\ t.panic = s.panic /\ t.stray = s.stray
<1> DEFINE f == [s.flags EXCEPT ![q] = @ \ {"WAITING"}, ![c] = {}]
           b == s.blocked \ {q}
           n == s.procs_in_use - 1
           w == [s.told EXCEPT ![q] = s.pid[c]]
           t == cleanup(s, c)
<1>1. f \in [Slot -> SUBSET MFlag] /\ b \in SUBSET User /\ n \in 0 .. NR_PROCS /\ w \in [Slot -> Pid]
  <2>1. q \in Slot /\ c \in Slot BY SlotFacts
  <2>2. f \in [Slot -> SUBSET MFlag] BY <2>1, Fields
  <2>6. s.procs_in_use \in 0 .. NR_PROCS /\ NR_PROCS \in Nat BY Fields, SlotFacts
  <2>3. n \in 0 .. NR_PROCS BY <2>6
  <2>4. s.pid[c] \in Pid BY <2>1, Fields
  <2>5. w \in [Slot -> Pid] BY <2>1, <2>4, Fields
  <2> QED BY <2>2, <2>3, <2>5, Fields
<1>2. t = [s EXCEPT !.flags = f, !.blocked = b, !.procs_in_use = n, !.told = w]
  <2> DEFINE r == [s EXCEPT !.blocked = b]
             u == [r EXCEPT !.told[q] = s.pid[c]]
  <2>1. r = reply(s, q) BY Zenon DEF reply
  <2>2. u = reply_child(s, q, c) BY <2>1 DEF reply_child
  <2>3. t = [u EXCEPT !.flags[q] = @ \ {"WAITING"}, !.flags[c] = {}, !.procs_in_use = @ - 1]
    BY <2>2 DEF cleanup
  <2> HIDE DEF t, b
  <2>4. r.told = s.told /\ r.flags = s.flags /\ r.procs_in_use = s.procs_in_use BY DEF Table
  <2>5. u = [s EXCEPT !.blocked = b, !.told = w] BY <2>4 DEF Table
  <2>6. u.flags = s.flags /\ u.procs_in_use = s.procs_in_use BY <2>5 DEF Table
  <2> HIDE DEF u, w, r
  <2> DEFINE g == [u.flags EXCEPT ![q] = @ \ {"WAITING"}, ![c] = {}]
  <2>8. g = f /\ u.procs_in_use - 1 = n BY <2>6
  <2>9. t = [u EXCEPT !.flags = g, !.procs_in_use = u.procs_in_use - 1] BY <2>3
  <2> HIDE DEF g
  <2>7. t = [u EXCEPT !.flags = f, !.procs_in_use = n] BY <2>8, <2>9
  <2> HIDE DEF f, n
  <2> QED BY <2>5, <2>7 DEF Table
<1> HIDE DEF f, b, n, w, t
<1>3. t \in Table /\ t.flags = f /\ t.blocked = b /\ t.procs_in_use = n /\ t.told = w
  BY <1>1, <1>2 DEF Table
<1>4. SameNames(s, t) /\ SameSig(s, t) BY <1>2 DEF Table, SameNames, SameSig
<1>5. /\ t.parent = s.parent /\ t.frames = s.frames
      /\ t.posted = s.posted /\ t.timer = s.timer /\ t.p_stop = s.p_stop
      /\ t.ksig = s.ksig /\ t.unended = s.unended /\ t.dont_reply = s.dont_reply
      /\ t.panic = s.panic /\ t.stray = s.stray
  BY <1>2 DEF Table
<1> QED BY <1>3, <1>4, <1>5 DEF f, b, n, w, t

\* cleanup() of a process that is gone, for a parent that sleeps in WAIT or is
\* being served: the parent has its answer, the slot is free.
LEMMA CleanupOk ==
  ASSUME NEW s, Core(s), NEW i \in Int, NEW d, Family(s, i, d),
         NEW c \in User \ {INIT_PROC_NR}, Used(s, c), Gone(s, c),
         ~Alive(s, c) \/ (c = d /\ i = -1),
         NEW q, q = s.parent[c], Alive(s, q), q \in s.blocked, q \notin s.posted, ~Owed(s, q),
         Idle(s.flags[q] \ {"WAITING"}), Waits(s, {q}), Held(s, {q, c}), Masked(s, {c})
  PROVE  LET t == cleanup(s, c)
         IN  /\ Core(t) /\ Family(t, i, d) /\ Waits(t, {}) /\ Held(t, {}) /\ Masked(t, {}) /\ ~Alive(t, c)
             /\ t.parent = s.parent /\ t.dont_reply = s.dont_reply
             /\ t.who = s.who /\ t.timer = s.timer /\ t.unended = s.unended
             /\ \A x \in User \ {q} : t.told[x] = s.told[x]
             /\ \A x \in Slot \ {c} : "ALARM_ON" \in t.flags[x] <=> "ALARM_ON" \in s.flags[x]
             /\ "WAITING" \in s.flags[q] /\ RightChild(s, q, c) => Fades(s, t)
<1> DEFINE t == cleanup(s, c)
<1>0. /\ s \in Table /\ q \in User /\ q # c /\ c \in User /\ c # INIT_PROC_NR
      /\ q \in Slot /\ c \in Slot /\ INIT_PROC_NR \in User /\ INIT_PROC_NR \in Slot
  BY SlotFacts DEF Core, Family
<1>1. s.procs_in_use > 0 /\ s.procs_in_use - 1 = Cardinality({p \in Slot : Used(s, p)} \ {c})
  <2> DEFINE U == {p \in Slot : Used(s, p)}
  <2>1. IsFiniteSet(U) BY SlotFacts, FS_Subset
  <2>2. c \in U BY <1>0
  <2>3. s.procs_in_use = Cardinality(U) BY DEF Core, Booked
  <2> HIDE DEF U
  <2>4. Cardinality(U) \in Nat /\ IsFiniteSet(U \ {c}) /\ Cardinality(U \ {c}) = Cardinality(U) - 1
    BY <2>1, <2>2, FS_RemoveElement, FS_CardinalityType
  <2>5. Cardinality(U \ {c}) \in Nat BY <2>4, FS_CardinalityType
  <2>6. s.procs_in_use > 0 /\ s.procs_in_use - 1 = Cardinality(U \ {c}) BY <2>3, <2>4, <2>5
  <2> QED BY <2>6 DEF U
<1>2. /\ t \in Table
      /\ t.flags = [s.flags EXCEPT ![q] = @ \ {"WAITING"}, ![c] = {}]
      /\ t.blocked = s.blocked \ {q} /\ t.procs_in_use = s.procs_in_use - 1
      /\ t.told = [s.told EXCEPT ![q] = s.pid[c]]
      /\ SameNames(s, t) /\ SameSig(s, t) /\ t.parent = s.parent /\ t.frames = s.frames
      /\ t.posted = s.posted /\ t.timer = s.timer /\ t.p_stop = s.p_stop
      /\ t.ksig = s.ksig /\ t.unended = s.unended /\ t.dont_reply = s.dont_reply
      /\ t.panic = s.panic /\ t.stray = s.stray
  BY <1>0, <1>1, CleanupFields
<1> HIDE DEF t
<1>3. /\ t.flags[c] = {} /\ t.flags[q] = s.flags[q] \ {"WAITING"}
      /\ \A x \in Slot \ {q, c} : t.flags[x] = s.flags[x]
  <2>1. s.flags \in [Slot -> SUBSET MFlag] BY <1>0, Fields
  <2> QED BY <1>0, <1>2, <2>1
<1>4. \A x \in Slot : /\ Used(t, x) <=> Used(s, x) /\ x # c
                      /\ Alive(t, x) <=> Alive(s, x) /\ x # c
                      /\ "WAITING" \in t.flags[x] <=> "WAITING" \in s.flags[x] /\ x # c /\ x # q
                      /\ x # c => /\ "HANGING" \in t.flags[x] <=> "HANGING" \in s.flags[x]
                                  /\ "SIGSUSPENDED" \in t.flags[x] <=> "SIGSUSPENDED" \in s.flags[x]
                                  /\ "ALARM_ON" \in t.flags[x] <=> "ALARM_ON" \in s.flags[x]
  BY <1>0, <1>3 DEF Used, Alive
<1>5. Booked(t)
  <2>1. {p \in Slot : Used(t, p)} = {p \in Slot : Used(s, p)} \ {c} BY <1>4
  <2>2. t.procs_in_use = Cardinality({p \in Slot : Used(t, p)}) BY <1>1, <1>2, <2>1
  <2>3. \A p \in 0 .. 1 : t.flags[p] = {"IN_USE"}
    BY <1>0, <1>3, SlotFacts DEF Core, Booked
  <2>4. Alive(t, INIT_PROC_NR) BY <1>0, <1>4 DEF Core, Booked
  <2>5. \A p \in Slot : /\ ~Used(t, p) => t.flags[p] = {}
                        /\ "TRACED" \notin t.flags[p] /\ "STOPPED" \notin t.flags[p]
    BY <1>0, <1>3, <1>4 DEF Core, Booked, Alive, Used
  <2> QED BY <1>2, <2>2, <2>3, <2>4, <2>5 DEF Core, Booked, SameNames
<1>6. Names(t)
  <2>1. Names(s) /\ t.pid = s.pid /\ t.procgrp = s.procgrp BY <1>2 DEF Core, SameNames
  <2>2. \A x \in User : Used(t, x) => Used(s, x) BY <1>4, SlotFacts
  <2> QED BY <2>1, <2>2 DEF Names
<1>7. Waits(t, {})
  <2> SUFFICES ASSUME NEW p \in User, "WAITING" \in t.flags[p], Alive(t, p)
               PROVE  /\ p = INIT_PROC_NR => t.wpid[p] = -1
                      /\ "own group" \notin WaitKinds =>
                           /\ t.wpid[p] # 0
                           /\ \A x \in User : Child(t, p, x) => "HANGING" \notin t.flags[x]
    BY DEF Waits
  <2>1. "WAITING" \in s.flags[p] /\ Alive(s, p) /\ p # q BY <1>4, SlotFacts
  <2>2. \A x \in User : Child(t, p, x) => Child(s, p, x) /\ x # c
    BY <1>2, <1>4, SlotFacts DEF Child, SameNames
  <2>3. /\ p = INIT_PROC_NR => s.wpid[p] = -1
        /\ "own group" \notin WaitKinds =>
             /\ s.wpid[p] # 0
             /\ \A x \in User : Child(s, p, x) => "HANGING" \notin s.flags[x]
    BY <2>1 DEF Waits
  <2>4. \A x \in User : x # c => ("HANGING" \in t.flags[x] <=> "HANGING" \in s.flags[x])
    BY <1>4, SlotFacts
  <2> QED BY <1>2, <2>2, <2>3, <2>4 DEF SameNames
<1>8. Pledged(t) BY <1>2 DEF Core, Pledged, SameNames, SameSig
<1>9. Family(t, i, d)
  <2>1. \A p \in 0 .. INIT_PROC_NR : t.parent[p] = MM BY <1>2 DEF Family
  <2>2. ASSUME NEW x \in User \ {INIT_PROC_NR}, Used(t, x)
        PROVE  /\ t.parent[x] \in User \ {x}
               /\ Alive(t, t.parent[x]) \/ (t.parent[x] = d /\ x > i)
    <3>1. Used(s, x) /\ x \in Slot BY <1>4, <2>2, SlotFacts
    <3>2. /\ s.parent[x] \in User \ {x} /\ s.parent[x] \in Slot
          /\ Alive(s, s.parent[x]) \/ (s.parent[x] = d /\ x > i)
      BY <3>1, SlotFacts DEF Family
    <3>3. CASE s.parent[x] = c
      <4>1. c = d /\ (Alive(s, c) => i = -1) BY <3>2, <3>3
      <4>2. x > -1 BY SlotFacts
      <4> QED BY <1>2, <3>2, <3>3, <4>1, <4>2
    <3>4. CASE s.parent[x] # c BY <1>2, <1>4, <3>2, <3>4
    <3> QED BY <3>3, <3>4
  <2> QED BY <2>1, <2>2 DEF Family
<1>10. Held(t, {})
  <2> SUFFICES ASSUME NEW p \in User PROVE HeldAt(t, p) BY DEF Held
  <2>1. p \in Slot BY SlotFacts
  <2>2. CASE p = c BY <1>0, <1>2, <1>4, <2>2 DEF HeldAt, Gone
  <2>3. CASE p = q
    <3>1. Alive(t, q) /\ ~Owed(t, q) /\ Idle(t.flags[q]) /\ q \notin t.blocked /\ q \notin t.posted
      BY <1>0, <1>2, <1>3, <1>4 DEF Owed, SameNames
    <3> QED BY <2>3, <3>1 DEF HeldAt
  <2>4. CASE p # c /\ p # q
    <3>1. HeldAt(s, p) BY <2>4 DEF Held
    <3>2. t.flags[p] = s.flags[p] /\ (p \in t.blocked <=> p \in s.blocked) /\ (Alive(t, p) <=> Alive(s, p))
      BY <1>2, <1>3, <1>4, <2>1, <2>4
    <3> QED BY <1>2, <3>1, <3>2 DEF HeldAt, Gone, Owed, SameNames
  <2> QED BY <2>2, <2>3, <2>4
<1>11. Masked(t, {})
  <2> SUFFICES ASSUME NEW p \in User, Alive(t, p) PROVE MaskedAt(t, p) BY DEF Masked, MaskedAt
  <2>1. p # c /\ MaskedAt(s, p) /\ Alive(s, p) BY <1>4, SlotFacts DEF Masked
  <2>2. "SIGSUSPENDED" \in t.flags[p] <=> "SIGSUSPENDED" \in s.flags[p] BY <1>4, <2>1, SlotFacts
  <2> QED BY <1>2, <2>1, <2>2 DEF MaskedAt, MaskOK, PendOK, SameSig
<1>12. ASSUME "WAITING" \in s.flags[q], RightChild(s, q, c)
       PROVE  Fades(s, t)
  <2>1. Tells(s, t, q)
    <3>1. t.told[q] = s.pid[c] BY <1>0, <1>2, Fields
    <3>2. s.wpid[q] \in {-1, s.pid[c], -s.procgrp[c]}
      <4>1. s.wpid[q] \in -MaxPid .. MaxPid /\ s.procgrp[c] \in 0 .. MaxPid /\ MaxPid \in Nat
        <5>1. s.wpid \in [Slot -> -MaxPid .. MaxPid] /\ s.procgrp \in [Slot -> Pid] BY <1>0, Fields
        <5>2. Pid = 0 .. MaxPid /\ MaxPid \in Nat BY SlotFacts
        <5> QED BY <1>0, <5>1, <5>2
      <4> QED BY <1>12, <4>1 DEF RightChild
    <3> QED BY <1>0, <1>12, <3>1, <3>2 DEF Tells
  <2>2. \A p \in User \ {q} : t.told[p] = s.told[p] BY <1>0, <1>2, Fields, SlotFacts
  <2>3. \A p \in Slot : p \in t.timer => p # c BY <1>2 DEF Gone
  <2>4. \A p \in User : t.unended[p] \in {0, s.unended[p]} BY <1>2
  <2>5. \A p \in User : t.told[p] = s.told[p] \/ Tells(s, t, p) BY <2>1, <2>2
  <2>6. t.timer \subseteq s.timer BY <1>2
  <2> QED BY <1>2, <1>4, <2>3, <2>4, <2>5, <2>6 DEF Fades, Wanes, Dims
<1>13. \A x \in User \ {q} : t.told[x] = s.told[x] BY <1>0, <1>2, Fields, SlotFacts
<1>14. t.who = s.who BY <1>2 DEF SameNames
<1> QED BY <1>0, <1>2, <1>13, <1>14, <1>4, <1>5, <1>6, <1>7, <1>8, <1>9, <1>10, <1>11, <1>12 DEF Core, t

\* The first part of mm_exit(): no alarm, and nothing in the kernel.
Stripped(s, p) == sys_xit(IF "ALARM_ON" \in s.flags[p] THEN set_alarm(s, p, FALSE) ELSE s, p)

\* What it writes.
LEMMA StripFields ==
  ASSUME NEW s \in Table, NEW p \in User
  PROVE  LET t == Stripped(s, p)
         IN  /\ t \in Table
             /\ t.flags = [s.flags EXCEPT ![p] = @ \ {"ALARM_ON"}]
             /\ t.posted = s.posted \ {p} /\ t.blocked = s.blocked \ {p}
             /\ t.p_stop = s.p_stop \ {p} /\ t.timer = s.timer \ {p}
             /\ t.ksig = [s.ksig EXCEPT ![p] = {}] /\ t.unended = [s.unended EXCEPT ![p] = 0]
             /\ t.frames = [s.frames EXCEPT ![p] = << >>]
             /\ SameNames(s, t) /\ SameSig(s, t) /\ t.parent = s.parent /\ t.told = s.told
             /\ t.procs_in_use = s.procs_in_use /\ t.dont_reply = s.dont_reply
             /\ t.panic = s.panic /\ t.stray = s.stray
<1> DEFINE f == [s.flags EXCEPT ![p] = @ \ {"ALARM_ON"}]
           a == IF "ALARM_ON" \in s.flags[p] THEN set_alarm(s, p, FALSE) ELSE s
           t == Stripped(s, p)
<1>0. p \in Slot BY SlotFacts
<1>1. f \in [Slot -> SUBSET MFlag] BY <1>0, Fields
<1>2. a \in Table /\ a.flags = f /\ a.timer \in {s.timer, s.timer \ {p}}
  <2>1. CASE "ALARM_ON" \in s.flags[p]
    <3>1. a = [s EXCEPT !.flags = f, !.timer = s.timer \ {p}] BY <2>1 DEF set_alarm
    <3> HIDE DEF a, f
    <3>2. s.timer \ {p} \in SUBSET User BY Fields
    <3> QED BY <1>1, <3>1, <3>2 DEF Table
  <2>2. CASE "ALARM_ON" \notin s.flags[p]
    <3>1. a = s BY <2>2
    <3>2. s.flags \in [Slot -> SUBSET MFlag] BY Fields
    <3>3. f = s.flags BY <1>0, <2>2, <3>2
    <3> QED BY <3>1, <3>3
  <2> QED BY <2>1, <2>2
<1>3. /\ SameNames(s, a) /\ SameSig(s, a) /\ a.parent = s.parent /\ a.told = s.told
      /\ a.procs_in_use = s.procs_in_use /\ a.dont_reply = s.dont_reply
      /\ a.panic = s.panic /\ a.stray = s.stray /\ a.posted = s.posted /\ a.blocked = s.blocked
      /\ a.p_stop = s.p_stop /\ a.ksig = s.ksig /\ a.unended = s.unended /\ a.frames = s.frames
  <2>1. CASE "ALARM_ON" \in s.flags[p]
    <3>1. a = [s EXCEPT !.flags = f, !.timer = s.timer \ {p}] BY <2>1 DEF set_alarm
    <3> HIDE DEF a, f
    <3> QED BY <3>1 DEF Table, SameNames, SameSig
  <2>2. CASE "ALARM_ON" \notin s.flags[p]
    <3>1. a = s BY <2>2
    <3> QED BY <3>1 DEF SameNames, SameSig
  <2> QED BY <2>1, <2>2
<1>4. t = [a EXCEPT !.posted = @ \ {p}, !.blocked = @ \ {p}, !.p_stop = @ \ {p},
                    !.timer = @ \ {p}, !.ksig[p] = {}, !.unended[p] = 0, !.frames[p] = << >>]
  BY DEF Stripped, sys_xit
<1> HIDE DEF a, f, t
<1>5. /\ [a.ksig EXCEPT ![p] = {}] \in [User -> SUBSET Sig]
      /\ [a.unended EXCEPT ![p] = 0] \in [User -> Nat]
      /\ a.posted \ {p} \in SUBSET User /\ a.blocked \ {p} \in SUBSET User
      /\ a.p_stop \ {p} \in SUBSET User /\ a.timer \ {p} \in SUBSET User
  BY <1>2, Fields
<1>6. [a.frames EXCEPT ![p] = << >>] \in [User -> Seq(Mask)]
  <2>1. a.frames \in [User -> Seq(Mask)] BY <1>2, SigFields
  <2>2. << >> \in Seq(Mask) OBVIOUS
  <2> QED BY <2>1, <2>2
<1>7. t \in Table
  <2> DEFINE ks == [a.ksig EXCEPT ![p] = {}]
             un == [a.unended EXCEPT ![p] = 0]
             fr == [a.frames EXCEPT ![p] = << >>]
             po == a.posted \ {p}
             bl == a.blocked \ {p}
             st == a.p_stop \ {p}
             ti == a.timer \ {p}
  <2>1. t = [a EXCEPT !.posted = po, !.blocked = bl, !.p_stop = st, !.timer = ti,
                      !.ksig = ks, !.unended = un, !.frames = fr]
    BY <1>4
  <2>2. /\ ks \in [User -> SUBSET Sig] /\ un \in [User -> Nat] /\ fr \in [User -> Seq(Mask)]
        /\ po \in SUBSET User /\ bl \in SUBSET User /\ st \in SUBSET User /\ ti \in SUBSET User
    BY <1>5, <1>6
  <2> HIDE DEF ks, un, fr, po, bl, st, ti
  <2> QED BY <1>2, <2>1, <2>2 DEF Table
<1>8. /\ t.flags = a.flags /\ t.posted = a.posted \ {p} /\ t.blocked = a.blocked \ {p}
      /\ t.p_stop = a.p_stop \ {p} /\ t.timer = a.timer \ {p}
      /\ t.ksig = [a.ksig EXCEPT ![p] = {}] /\ t.unended = [a.unended EXCEPT ![p] = 0]
      /\ t.frames = [a.frames EXCEPT ![p] = << >>]
      /\ t.parent = a.parent /\ t.told = a.told
      /\ t.procs_in_use = a.procs_in_use /\ t.dont_reply = a.dont_reply
      /\ t.panic = a.panic /\ t.stray = a.stray
  BY <1>2, <1>4 DEF Table
<1>9. SameNames(a, t) /\ SameSig(a, t) BY <1>2, <1>4 DEF Table, SameNames, SameSig
<1>10. t.timer = s.timer \ {p} BY <1>2, <1>8
<1>11. SameNames(s, t) /\ SameSig(s, t) BY <1>3, <1>9 DEF SameNames, SameSig
<1> QED BY <1>2, <1>3, <1>7, <1>8, <1>10, <1>11 DEF f, t

\* Afterwards all is well but for p, which has still its flags.
LEMMA StripOk ==
  ASSUME NEW s, Core(s), Kin(s), NEW p \in User \ {INIT_PROC_NR}, Alive(s, p),
         Waits(s, {}), Held(s, {p}), Masked(s, {p})
  PROVE  LET t == Stripped(s, p)
         IN  /\ Core(t) /\ Kin(t) /\ Waits(t, {}) /\ Held(t, {p}) /\ Masked(t, {p}) /\ Gone(t, p)
             /\ Alive(t, p) /\ Fades(s, t) /\ t.parent = s.parent /\ t.dont_reply = s.dont_reply
<1> DEFINE t == Stripped(s, p)
<1>0. s \in Table /\ p \in User /\ p \in Slot /\ p # INIT_PROC_NR BY SlotFacts DEF Core
<1>1. /\ t \in Table
      /\ t.flags = [s.flags EXCEPT ![p] = @ \ {"ALARM_ON"}]
      /\ t.posted = s.posted \ {p} /\ t.blocked = s.blocked \ {p}
      /\ t.p_stop = s.p_stop \ {p} /\ t.timer = s.timer \ {p}
      /\ t.ksig = [s.ksig EXCEPT ![p] = {}] /\ t.unended = [s.unended EXCEPT ![p] = 0]
      /\ t.frames = [s.frames EXCEPT ![p] = << >>]
      /\ SameNames(s, t) /\ SameSig(s, t) /\ t.parent = s.parent /\ t.told = s.told
      /\ t.procs_in_use = s.procs_in_use /\ t.dont_reply = s.dont_reply
      /\ t.panic = s.panic /\ t.stray = s.stray
  BY <1>0, StripFields
<1> HIDE DEF t
<1>2. /\ t.flags[p] = s.flags[p] \ {"ALARM_ON"} /\ \A x \in Slot \ {p} : t.flags[x] = s.flags[x]
      /\ t.ksig[p] = {} /\ t.unended[p] = 0 /\ t.frames[p] = << >>
      /\ \A x \in User \ {p} : t.ksig[x] = s.ksig[x] /\ t.unended[x] = s.unended[x]
                                /\ t.frames[x] = s.frames[x]
  <2>1. /\ s.flags \in [Slot -> SUBSET MFlag] /\ s.ksig \in [User -> SUBSET Sig]
        /\ s.unended \in [User -> Nat] /\ s.frames \in [User -> Seq(Mask)]
    BY <1>0, Fields, SigFields
  <2> QED BY <1>0, <1>1, <2>1
<1>3. \A x \in Slot : /\ Used(t, x) <=> Used(s, x)
                      /\ Alive(t, x) <=> Alive(s, x)
                      /\ \A f \in MFlag \ {"ALARM_ON"} : f \in t.flags[x] <=> f \in s.flags[x]
  BY <1>0, <1>2 DEF Used, Alive
<1>4. Booked(t)
  <2>1. {x \in Slot : Used(t, x)} = {x \in Slot : Used(s, x)} BY <1>3
  <2>2. \A x \in 0 .. 1 : t.flags[x] = {"IN_USE"} BY <1>2, SlotFacts DEF Core, Booked
  <2>3. Alive(t, INIT_PROC_NR) BY <1>3, SlotFacts DEF Core, Booked
  <2>4. \A x \in Slot : /\ ~Used(t, x) => t.flags[x] = {}
                        /\ "TRACED" \notin t.flags[x] /\ "STOPPED" \notin t.flags[x]
    BY <1>0, <1>2, <1>3 DEF Core, Booked
  <2> QED BY <1>1, <2>1, <2>2, <2>3, <2>4 DEF Core, Booked, SameNames
<1>5. Names(t)
  <2>1. \A x \in User : Used(t, x) <=> Used(s, x) BY <1>3, SlotFacts
  <2> QED BY <1>1, <2>1 DEF Core, Names, SameNames
<1>6. Waits(t, {})
  <2> SUFFICES ASSUME NEW x \in User, "WAITING" \in t.flags[x], Alive(t, x)
               PROVE  /\ x = INIT_PROC_NR => t.wpid[x] = -1
                      /\ "own group" \notin WaitKinds =>
                           /\ t.wpid[x] # 0
                           /\ \A y \in User : Child(t, x, y) => "HANGING" \notin t.flags[y]
    BY DEF Waits
  <2>1. "WAITING" \in s.flags[x] /\ Alive(s, x) BY <1>3, SlotFacts DEF MFlag
  <2>2. /\ x = INIT_PROC_NR => s.wpid[x] = -1
        /\ "own group" \notin WaitKinds =>
             /\ s.wpid[x] # 0
             /\ \A y \in User : Child(s, x, y) => "HANGING" \notin s.flags[y]
    BY <2>1 DEF Waits
  <2>3. \A y \in User : /\ Child(t, x, y) => Child(s, x, y)
                        /\ "HANGING" \in t.flags[y] <=> "HANGING" \in s.flags[y]
    BY <1>1, <1>3, SlotFacts DEF Child, SameNames, MFlag
  <2> QED BY <1>1, <2>2, <2>3 DEF SameNames
<1>7. Pledged(t) BY <1>0, <1>1, <1>2 DEF Core, Pledged, SameNames, SameSig
<1>8. Kin(t) BY <1>1, <1>3, SlotFacts DEF Kin, Family
<1>9. Held(t, {p})
  <2> SUFFICES ASSUME NEW x \in User \ {p} PROVE HeldAt(t, x) BY DEF Held
  <2>1. HeldAt(s, x) BY DEF Held
  <2>2. x \in Slot BY SlotFacts
  <2> QED BY <1>1, <1>2, <1>3, <2>1, <2>2 DEF HeldAt, Gone, Owed, SameNames
<1>10. Masked(t, {p})
  <2> SUFFICES ASSUME NEW x \in User \ {p} PROVE MaskedAt(t, x) BY DEF Masked
  <2>1. MaskedAt(s, x) BY DEF Masked
  <2>2. x \in Slot /\ t.flags[x] = s.flags[x] /\ t.frames[x] = s.frames[x] BY <1>2, SlotFacts
  <2> QED BY <1>1, <1>3, <2>1, <2>2 DEF MaskedAt, MaskOK, PendOK, SameSig
<1>11. Gone(t, p) BY <1>1, <1>2 DEF Gone
<1>12. Fades(s, t)
  <2>1. \A x \in Slot : /\ Used(t, x) => Used(s, x) /\ t.parent[x] \in {s.parent[x], INIT_PROC_NR}
                        /\ Alive(t, x) => Alive(s, x)
                        /\ x \in t.timer /\ "ALARM_ON" \in s.flags[x] => "ALARM_ON" \in t.flags[x]
                        /\ Alive(t, x) /\ "WAITING" \in t.flags[x] => "WAITING" \in s.flags[x]
    BY <1>1, <1>2, <1>3 DEF MFlag
  <2>2. \A x \in User : t.unended[x] \in {0, s.unended[x]} /\ t.told[x] = s.told[x]
    BY <1>1, <1>2
  <2> QED BY <1>1, <2>1, <2>2 DEF Fades, Wanes, Dims
<1> QED BY <1>0, <1>1, <1>3, <1>4, <1>5, <1>6, <1>7, <1>8, <1>9, <1>10, <1>11, <1>12 DEF Core, t

-----------------------------------------------------------------------------
(***************************************************************************)
(* Loops.  A recursive function over a..b whose rounds are given by F       *)
(* exists, and what every round keeps holds to the end.                    *)
(***************************************************************************)
\* A non-empty set of numbers has a least one.
LEMMA LeastOfNat ==
  ASSUME NEW S \in SUBSET Nat, S # {}
  PROVE  \E x \in S : \A y \in S : x <= y
<1> DEFINE R == OpToRel(<, Nat)
<1>1. IsWellFoundedOn(R, Nat) BY NatLessThanWellFounded
<1>2. \A x, y \in Nat : y < x => <<y, x>> \in R BY DEF OpToRel
<1> HIDE DEF R
<1>3. PICK x \in S : \A y \in S : ~(<<y, x>> \in R) BY <1>1, WFMin
<1>4. ASSUME NEW y \in S PROVE x <= y
  <2>1. ~(y < x) BY <1>2, <1>3
  <2> QED BY <2>1
<1> QED BY <1>4

\* Least() of a non-empty set of numbers is in it, and below the others.
LEMMA LeastFacts ==
  ASSUME NEW S \in SUBSET Nat, S # {}
  PROVE  Least(S) \in S /\ \A y \in S : Least(S) <= y
BY LeastOfNat DEF Least

\* What holds at the start and is kept by every round holds after each.
LEMMA LoopKeeps ==
  ASSUME NEW a \in Int, NEW b \in Int, NEW T, NEW g, g[a] \in T[a],
         \A i \in a + 1 .. b : g[i - 1] \in T[i - 1] => g[i] \in T[i]
  PROVE  \A i \in a .. b : g[i] \in T[i]
<1> DEFINE B == {n \in Nat : a + n <= b /\ g[a + n] \notin T[a + n]}
<1>1. B = {}
  <2> SUFFICES ASSUME B # {} PROVE FALSE OBVIOUS
  <2>1. PICK n \in B : \A k \in B : n <= k BY LeastOfNat
  <2>2. n \in Nat /\ a + n <= b /\ g[a + n] \notin T[a + n] OBVIOUS
  <2>3. n # 0
    <3> SUFFICES ASSUME n = 0 PROVE FALSE OBVIOUS
    <3>1. a + n = a OBVIOUS
    <3> QED BY <2>2, <3>1
  <2>4. n - 1 \in Nat /\ ~(n <= n - 1) BY <2>2, <2>3
  <2>5. n - 1 \notin B BY <2>1, <2>4
  <2>6. a + (n - 1) <= b /\ a + (n - 1) = (a + n) - 1 /\ a + n \in a + 1 .. b BY <2>2, <2>3
  <2>7. g[(a + n) - 1] \in T[(a + n) - 1] BY <2>4, <2>5, <2>6
  <2> QED BY <2>2, <2>6, <2>7
<1>2. ASSUME NEW i \in a .. b PROVE g[i] \in T[i]
  <2>1. i - a \in Nat /\ a + (i - a) = i /\ i <= b OBVIOUS
  <2>2. i - a \notin B BY <1>1
  <2> QED BY <2>1, <2>2
<1> QED BY <1>2

\* f is what the loop over a..b computes, round by round.
LoopOf(f, a, b, start, F) == f = [i \in a .. b |-> IF i = a THEN start ELSE F[i][f[i - 1]]]

\* The loop exists, whatever its rounds do.
LEMMA LoopExists ==
  ASSUME NEW a \in Int, NEW b \in Int, NEW start, NEW F
  PROVE  \E f : LoopOf(f, a, b, start, F)
<1> DEFINE Is(n, f) == f = [i \in a .. a + n |-> IF i = a THEN start ELSE F[i][f[i - 1]]]
           B == {n \in Nat : ~\E f : Is(n, f)}
<1>1. B = {}
  <2> SUFFICES ASSUME B # {} PROVE FALSE OBVIOUS
  <2>1. PICK n \in B : \A k \in B : n <= k BY LeastOfNat
  <2>2. n \in Nat /\ ~\E f : Is(n, f) OBVIOUS
  <2>3. CASE n = 0
    <3> DEFINE g == [i \in a .. a + n |-> start]
    <3>1. \A i \in a .. a + n : i = a BY <2>3
    <3>2. Is(n, g) BY <3>1
    <3> QED BY <2>2, <3>2
  <2>4. CASE n # 0
    <3>1. n - 1 \in Nat /\ ~(n <= n - 1) BY <2>2, <2>4
    <3>2. n - 1 \notin B BY <2>1, <3>1
    <3>3. PICK f : Is(n - 1, f) BY <3>1, <3>2
    <3> DEFINE g == [i \in a .. a + n |-> IF i = a + n THEN F[a + n][f[(a + n) - 1]] ELSE f[i]]
    <3>4. ASSUME NEW i \in a .. a + n
          PROVE  g[i] = IF i = a THEN start ELSE F[i][g[i - 1]]
      <4>1. CASE i = a + n
        <5>1. i # a /\ i - 1 \in a .. a + n /\ i - 1 # a + n BY <2>2, <2>4, <4>1
        <5>2. g[i - 1] = f[i - 1] BY <5>1
        <5>3. g[i] = F[i][f[i - 1]] BY <4>1
        <5> QED BY <5>1, <5>2, <5>3
      <4>2. CASE i # a + n
        <5>1. i \in a .. a + (n - 1) BY <2>2, <4>2
        <5>2. g[i] = f[i] BY <4>2
        <5>3. CASE i = a
          <6>1. f[i] = start BY <3>3, <5>1, <5>3
          <6> QED BY <5>2, <5>3, <6>1
        <5>4. CASE i # a
          <6>1. i - 1 \in a .. a + n /\ i - 1 # a + n BY <2>2, <5>1, <5>4
          <6>2. g[i - 1] = f[i - 1] BY <6>1
          <6>3. f[i] = F[i][f[i - 1]] BY <3>3, <5>1, <5>4
          <6> QED BY <5>2, <5>4, <6>2, <6>3
        <5> QED BY <5>3, <5>4
      <4> QED BY <4>1, <4>2
    <3>5. g = [i \in a .. a + n |-> g[i]] OBVIOUS
    <3> HIDE DEF g
    <3>6. Is(n, g) BY <3>4, <3>5
    <3> QED BY <2>2, <3>6
  <2> QED BY <2>3, <2>4
<1>2. CASE a <= b
  <2>1. b - a \in Nat /\ a + (b - a) = b BY <1>2
  <2>2. \E f : Is(b - a, f)
    <3>1. b - a \notin B BY <1>1
    <3> QED BY <2>1, <3>1
  <2> QED BY <2>1, <2>2 DEF LoopOf
<1>3. CASE ~(a <= b)
  <2>1. a .. b = {} BY <1>3
  <2> DEFINE g == [i \in a .. b |-> start]
  <2>2. g = [i \in a .. b |-> IF i = a THEN start ELSE F[i][g[i - 1]]] BY <2>1
  <2> QED BY <2>2 DEF LoopOf
<1> QED BY <1>2, <1>3

-----------------------------------------------------------------------------
(***************************************************************************)
(* mm_exit() but for the hangup: release().                                *)
(***************************************************************************)
\* One round of the loop of disinherit().
Adopt(t, i, p) ==
  LET u == [t EXCEPT !.parent[i] = INIT_PROC_NR]
  IN  IF ~("IN_USE" \in t.flags[i] /\ t.parent[i] = p) THEN t
      ELSE IF "WAITING" \in u.flags[INIT_PROC_NR] /\ "HANGING" \in u.flags[i]
      THEN cleanup(u, i) ELSE u

\* All is well, but for the children above i of p, which is dead.
Orphaned(s, i, p) ==
  /\ Core(s) /\ Family(s, i, p) /\ Waits(s, {}) /\ Held(s, {}) /\ Masked(s, {}) /\ ~Alive(s, p)

\* A round finds child i another parent, who learns of it if it hangs.
LEMMA AdoptOk ==
  ASSUME NEW p \in User \ {INIT_PROC_NR}, NEW i \in Slot, NEW t, Orphaned(t, i - 1, p)
  PROVE  LET w == Adopt(t, i, p)
         IN  Orphaned(w, i, p) /\ Fades(t, w) /\ w.dont_reply = t.dont_reply
<1> DEFINE u == [t EXCEPT !.parent[i] = INIT_PROC_NR]
           w == Adopt(t, i, p)
<1>0. /\ t \in Table /\ i \in Int /\ p \in User /\ p # INIT_PROC_NR /\ User \subseteq Slot /\ Slot \subseteq Int
      /\ INIT_PROC_NR \in User /\ Alive(t, INIT_PROC_NR)
  BY SlotFacts DEF Orphaned, Core, Booked
<1>1. CASE ~("IN_USE" \in t.flags[i] /\ t.parent[i] = p)
  <2>1. w = t BY <1>1 DEF Adopt
  <2>2. Family(t, i, p)
    <3> SUFFICES ASSUME NEW c \in User \ {INIT_PROC_NR}, Used(t, c)
                 PROVE  Alive(t, t.parent[c]) \/ (t.parent[c] = p /\ c > i)
      BY DEF Orphaned, Family
    <3>1. Alive(t, t.parent[c]) \/ (t.parent[c] = p /\ c > i - 1) BY DEF Orphaned, Family
    <3>2. c \in Int BY <1>0
    <3> QED BY <1>0, <1>1, <3>1, <3>2 DEF Used
  <2>3. Fades(t, t) BY DEF Fades, Wanes, Dims, SameNames
  <2> HIDE DEF w
  <2> QED BY <2>1, <2>2, <2>3 DEF Orphaned, w
<1>2. CASE "IN_USE" \in t.flags[i] /\ t.parent[i] = p
  <2>0. i \in User /\ i # INIT_PROC_NR /\ i # p
    <3>1. t.parent[i] # MM BY <1>0, <1>2, SlotFacts
    <3>2. i \notin 0 .. INIT_PROC_NR BY <3>1 DEF Orphaned, Family
    <3>3. i \in User /\ i # INIT_PROC_NR BY <3>2, SlotFacts DEF INIT_PROC_NR
    <3> QED BY <1>2, <3>3 DEF Orphaned, Family, Used
  <2>1. /\ u \in Table /\ u.parent = [t.parent EXCEPT ![i] = INIT_PROC_NR]
        /\ u.flags = t.flags /\ SameNames(t, u) /\ SameSig(t, u) /\ u.told = t.told
        /\ u.procs_in_use = t.procs_in_use /\ u.dont_reply = t.dont_reply /\ u.panic = t.panic
        /\ u.stray = t.stray /\ u.posted = t.posted /\ u.blocked = t.blocked /\ u.timer = t.timer
        /\ u.p_stop = t.p_stop /\ u.ksig = t.ksig /\ u.unended = t.unended /\ u.frames = t.frames
    <3> DEFINE f == [t.parent EXCEPT ![i] = INIT_PROC_NR]
    <3>1. f \in [Slot -> Slot] BY <1>0, Fields
    <3>2. u = [t EXCEPT !.parent = f] OBVIOUS
    <3> HIDE DEF f, u
    <3> QED BY <1>0, <3>1, <3>2 DEF Table, SameNames, SameSig, f
  <2>2. w = IF "WAITING" \in t.flags[INIT_PROC_NR] /\ "HANGING" \in t.flags[i] THEN cleanup(u, i) ELSE u
    BY <1>2, <2>1 DEF Adopt
  <2> HIDE DEF u, w
  <2>3. u.parent[i] = INIT_PROC_NR /\ \A x \in Slot \ {i} : u.parent[x] = t.parent[x]
    <3>1. t.parent \in [Slot -> Slot] BY <1>0, Fields
    <3> QED BY <2>1, <3>1
  <2>4. \A x : (Used(u, x) <=> Used(t, x)) /\ (Alive(u, x) <=> Alive(t, x)) BY <2>1 DEF Used, Alive
  <2>5. Core(u)
    <3>1. Booked(u) BY <2>1, <2>4 DEF Orphaned, Core, Booked, SameNames
    <3>2. Names(u) BY <2>1, <2>4 DEF Orphaned, Core, Names, SameNames
    <3>3. Pledged(u) BY <2>1 DEF Orphaned, Core, Pledged, SameNames, SameSig
    <3> QED BY <2>1, <3>1, <3>2, <3>3 DEF Core
  <2>6. Family(u, i, p)
    <3>1. \A x \in 0 .. INIT_PROC_NR : u.parent[x] = MM
      <4>1. 0 .. INIT_PROC_NR \subseteq Slot \ {i} BY <2>0, SlotFacts DEF INIT_PROC_NR
      <4> QED BY <2>3, <4>1 DEF Orphaned, Family
    <3>2. ASSUME NEW c \in User \ {INIT_PROC_NR}, Used(u, c)
          PROVE  /\ u.parent[c] \in User \ {c}
                 /\ Alive(u, u.parent[c]) \/ (u.parent[c] = p /\ c > i)
      <4>1. /\ Used(t, c) /\ t.parent[c] \in User \ {c} /\ c \in Slot /\ c \in Int
            /\ Alive(t, t.parent[c]) \/ (t.parent[c] = p /\ c > i - 1)
        BY <1>0, <2>4, <3>2 DEF Orphaned, Family
      <4>2. CASE c = i BY <1>0, <2>3, <2>4, <4>1, <4>2
      <4>3. CASE c # i BY <1>0, <2>3, <2>4, <4>1, <4>3
      <4> QED BY <4>2, <4>3
    <3> QED BY <3>1, <3>2 DEF Family
  <2>7. Waits(u, {INIT_PROC_NR}) /\ (~("WAITING" \in t.flags[INIT_PROC_NR] /\ "HANGING" \in t.flags[i]) => Waits(u, {}))
    <3>1. ASSUME NEW x \in User, "WAITING" \in u.flags[x], Alive(u, x),
                 x = INIT_PROC_NR => ~("WAITING" \in t.flags[INIT_PROC_NR] /\ "HANGING" \in t.flags[i])
          PROVE  /\ x = INIT_PROC_NR => u.wpid[x] = -1
                 /\ "own group" \notin WaitKinds =>
                      /\ u.wpid[x] # 0
                      /\ \A y \in User : Child(u, x, y) => "HANGING" \notin u.flags[y]
      <4>1. "WAITING" \in t.flags[x] /\ Alive(t, x) BY <2>1, <2>4, <3>1
      <4>2. /\ x = INIT_PROC_NR => t.wpid[x] = -1
            /\ "own group" \notin WaitKinds =>
                 /\ t.wpid[x] # 0
                 /\ \A y \in User : Child(t, x, y) => "HANGING" \notin t.flags[y]
        BY <4>1 DEF Orphaned, Waits
      <4>3. ASSUME NEW y \in User, Child(u, x, y), "HANGING" \in u.flags[y], "own group" \notin WaitKinds PROVE FALSE
        <5>1. CASE y = i BY <2>1, <2>3, <3>1, <4>1, <4>3, <5>1 DEF Child
        <5>2. CASE y # i
          <6>1. Child(t, x, y) BY <1>0, <2>1, <2>3, <2>4, <4>3, <5>2 DEF Child, SameNames
          <6> QED BY <2>1, <4>2, <4>3, <6>1
        <5> QED BY <5>1, <5>2
      <4> QED BY <2>1, <4>2, <4>3 DEF SameNames
    <3> QED BY <3>1 DEF Waits
  <2>8. Held(u, {}) BY <2>1, <2>4 DEF Orphaned, Held, HeldAt, Gone, Owed, SameNames
  <2>9. Masked(u, {}) BY <2>1, <2>4 DEF Orphaned, Masked, MaskedAt, MaskOK, PendOK, SameSig
  <2>10. ~Alive(u, p) BY <2>4 DEF Orphaned
  <2>11. Fades(t, u)
    <3>1. \A x \in Slot : u.parent[x] \in {t.parent[x], INIT_PROC_NR} BY <2>3
    <3> QED BY <2>1, <2>4, <3>1 DEF Fades, Wanes, Dims
  <2>12. CASE ~("WAITING" \in t.flags[INIT_PROC_NR] /\ "HANGING" \in t.flags[i])
    <3>1. w = u BY <2>2, <2>12
    <3> QED BY <2>1, <2>5, <2>6, <2>7, <2>8, <2>9, <2>10, <2>11, <2>12, <3>1 DEF Orphaned, w
  <2>13. CASE "WAITING" \in t.flags[INIT_PROC_NR] /\ "HANGING" \in t.flags[i]
    <3> DEFINE q == INIT_PROC_NR
    <3>1. w = cleanup(u, i) BY <2>2, <2>13
    <3>2. Used(u, i) /\ ~Alive(u, i) /\ Alive(u, q) /\ "WAITING" \in u.flags[q]
      BY <1>0, <1>2, <2>1, <2>4, <2>13 DEF Used, Alive
    <3>3. HeldAt(u, i) /\ HeldAt(u, q) BY <1>0, <2>0, <2>8 DEF Held
    <3>4. Gone(u, i) BY <3>2, <3>3 DEF HeldAt
    <3>5. q \in u.blocked /\ ~Owed(u, q) /\ q \notin u.posted /\ Idle(u.flags[q] \ {"WAITING"})
      BY <3>2, <3>3 DEF HeldAt, Idle, Asleep
    <3>6. u.wpid[q] = -1 BY <1>0, <2>1, <2>13 DEF Orphaned, Waits, SameNames
    <3>7. RightChild(u, q, i) BY <3>6 DEF RightChild
    <3>8. Held(u, {q, i}) /\ Masked(u, {i}) BY <2>8, <2>9 DEF Held, Masked
    <3> HIDE DEF q
    <3>9. /\ Core(cleanup(u, i)) /\ Family(cleanup(u, i), i, p) /\ Waits(cleanup(u, i), {})
          /\ Held(cleanup(u, i), {}) /\ Masked(cleanup(u, i), {})
          /\ cleanup(u, i).dont_reply = u.dont_reply /\ Fades(u, cleanup(u, i))
      BY <1>0, <2>0, <2>3, <2>5, <2>6, <2>7, <3>2, <3>4, <3>5, <3>7, <3>8, CleanupOk DEF q
    <3>10. Fades(t, w) BY <2>11, <3>1, <3>9, FadesTrans
    <3>11. ~Alive(w, p) BY <1>0, <2>10, <3>1, <3>9 DEF Fades, Wanes, Dims
    <3> QED BY <2>1, <3>1, <3>9, <3>10, <3>11 DEF Orphaned, w
  <2> QED BY <2>12, <2>13
<1> QED BY <1>1, <1>2

\* The loop of disinherit() finds them all another parent.
LEMMA DisinheritOk ==
  ASSUME NEW p \in User \ {INIT_PROC_NR}, NEW s, Orphaned(s, -1, p)
  PROVE  LET w == disinherit(s, p)
         IN  Sound(w) /\ ~Alive(w, p) /\ Fades(s, w) /\ w.dont_reply = s.dont_reply
<1> DEFINE a == -1
           b == NR_PROCS - 1
           F == [i \in Slot |-> [x \in Table |-> Adopt(x, i, p)]]
           T == [i \in a .. b |-> {x \in Table : Orphaned(x, i, p) /\ Fades(s, x)
                                                 /\ x.dont_reply = s.dont_reply}]
           Is(f) == f = [i \in a .. b |-> IF i = -1 THEN s ELSE Adopt(f[i - 1], i, p)]
           after[i \in -1 .. NR_PROCS - 1] == IF i = -1 THEN s ELSE Adopt(after[i - 1], i, p)
           w == disinherit(s, p)
<1>0. a \in Int /\ b \in Int /\ a <= b /\ Slot = a + 1 .. b /\ b \in a .. b BY SlotFacts
<1>1. s \in T[a]
  <2>1. Fades(s, s) BY DEF Fades, Wanes, Dims, SameNames
  <2>2. s \in Table BY DEF Orphaned, Core
  <2> QED BY <1>0, <2>1, <2>2
<1>2. ASSUME NEW i \in a + 1 .. b, NEW x \in T[i - 1] PROVE x \in Table /\ Adopt(x, i, p) \in T[i]
  <2>1. i \in Slot /\ i - 1 \in a .. b /\ i \in a .. b BY <1>0
  <2>2. x \in Table /\ Orphaned(x, i - 1, p) /\ Fades(s, x) /\ x.dont_reply = s.dont_reply
    BY <1>2, <2>1
  <2> DEFINE y == Adopt(x, i, p)
  <2>3. Orphaned(y, i, p) /\ Fades(x, y) /\ y.dont_reply = x.dont_reply BY <2>1, <2>2, AdoptOk
  <2> HIDE DEF y
  <2>4. Fades(s, y) BY <2>2, <2>3, FadesTrans
  <2>5. y \in Table BY <2>3 DEF Orphaned, Core
  <2>6. y \in T[i] BY <2>1, <2>2, <2>3, <2>4, <2>5
  <2> QED BY <2>2, <2>6 DEF y
<1> HIDE DEF T
<1>3. PICK f : LoopOf(f, a, b, s, F)
  <2> HIDE DEF a, b, F
  <2> QED BY <1>0, LoopExists
<1>4. ASSUME NEW i \in a + 1 .. b, f[i - 1] \in T[i - 1]
      PROVE  f[i] = Adopt(f[i - 1], i, p) /\ f[i] \in T[i]
  <2>1. i \in a .. b /\ i # a /\ i \in Slot BY <1>0
  <2>2. f[i] = F[i][f[i - 1]] BY <1>3, <2>1 DEF LoopOf
  <2>3. f[i - 1] \in Table /\ Adopt(f[i - 1], i, p) \in T[i] BY <1>2, <1>4
  <2>4. F[i][f[i - 1]] = Adopt(f[i - 1], i, p) BY <2>1, <2>3
  <2> QED BY <2>2, <2>3, <2>4
<1>5. \A i \in a .. b : f[i] \in T[i]
  <2>1. f[a] = s BY <1>0, <1>3 DEF LoopOf
  <2> HIDE DEF F, a, b
  <2> QED BY <1>0, <1>1, <1>4, <2>1, LoopKeeps
<1>6. Is(f)
  <2>1. ASSUME NEW i \in a .. b, i # -1 PROVE f[i] = Adopt(f[i - 1], i, p)
    <3>1. i \in a + 1 .. b /\ i - 1 \in a .. b BY <1>0, <2>1
    <3> QED BY <1>4, <1>5, <3>1
  <2>2. f[-1] = s /\ DOMAIN f = a .. b /\ f = [i \in a .. b |-> f[i]] BY <1>0, <1>3 DEF LoopOf
  <2> HIDE DEF F, b
  <2> QED BY <2>1, <2>2
<1>7. Is(after) BY <1>6
<1>8. w = after[NR_PROCS - 1] BY DEF disinherit, Adopt
<1> HIDE DEF after
<1>9. \A i \in a .. b : after[i] \in T[i]
  <2>1. after[a] = s BY <1>0, <1>7
  <2>2. \A i \in a + 1 .. b : after[i] = Adopt(after[i - 1], i, p) BY <1>0, <1>7
  <2> HIDE DEF a, b
  <2>3. \A i \in a + 1 .. b : after[i - 1] \in T[i - 1] => after[i] \in T[i] BY <1>2, <2>2
  <2> QED BY <1>0, <1>1, <2>1, <2>3, LoopKeeps
<1>10. w \in T[b] BY <1>0, <1>8, <1>9
<1>11. Orphaned(w, b, p) /\ Fades(s, w) /\ w.dont_reply = s.dont_reply BY <1>0, <1>10 DEF T
<1> HIDE DEF w
<1>12. Kin(w)
  <2>1. \A c \in User : ~(c > b) BY SlotFacts
  <2> QED BY <1>11, <2>1 DEF Orphaned, Family, Kin
<1> QED BY <1>11, <1>12 DEF Orphaned, Sound, w

\* release(): p is dead, its parent knows of it or will find it, its children
\* have another parent.
LEMMA ReleaseOk ==
  ASSUME NEW p \in User \ {INIT_PROC_NR}, NEW s, Core(s), Kin(s), Waits(s, {}), Alive(s, p),
         Held(s, {p}), Masked(s, {p})
  PROVE  LET w == release(s, p)
         IN  Sound(w) /\ ~Alive(w, p) /\ Fades(s, w) /\ w.dont_reply = s.dont_reply
<1> DEFINE t == Stripped(s, p)
           q == s.parent[p]
           h == [t EXCEPT !.flags[p] = @ \cup {"HANGING"}]
           v == IF "WAITING" \in t.flags[q] /\ RightChild(t, q, p) THEN cleanup(t, p) ELSE h
<1>0. release(s, p) = disinherit(v, p) BY DEF release, Stripped
<1>1. /\ Core(t) /\ Kin(t) /\ Waits(t, {}) /\ Held(t, {p}) /\ Masked(t, {p}) /\ Gone(t, p)
      /\ Alive(t, p) /\ Fades(s, t) /\ t.parent = s.parent /\ t.dont_reply = s.dont_reply
  BY StripOk
<1> HIDE DEF t
<1>2. /\ q \in User /\ q # p /\ Alive(t, q) /\ q = t.parent[p] /\ p \in Slot /\ q \in Slot /\ t \in Table
      /\ Used(t, p) /\ p # INIT_PROC_NR
  <2>1. Used(t, p) BY <1>1 DEF Used, Alive
  <2>2. ~(p > NR_PROCS) BY SlotFacts
  <2> QED BY <1>1, <2>1, <2>2, SlotFacts DEF Kin, Family, Core
<1>3. Family(t, -1, p)
  <2>1. \A c \in User : ~(c > NR_PROCS) BY SlotFacts
  <2> QED BY <1>1, <2>1 DEF Kin, Family
<1>4. HeldAt(t, q) BY <1>1, <1>2 DEF Held
<1> HIDE DEF q
<1>5. CASE "WAITING" \in t.flags[q] /\ RightChild(t, q, p)
  <2>1. v = cleanup(t, p) BY <1>5
  <2>2. q \in t.blocked /\ ~Owed(t, q) /\ q \notin t.posted /\ Idle(t.flags[q] \ {"WAITING"})
    BY <1>2, <1>4, <1>5 DEF HeldAt, Idle, Asleep
  <2>3. Waits(t, {q}) /\ Held(t, {q, p}) BY <1>1 DEF Waits, Held
  <2>4. /\ Core(v) /\ Family(v, -1, p) /\ Waits(v, {}) /\ Held(v, {}) /\ Masked(v, {})
        /\ ~Alive(v, p) /\ v.dont_reply = t.dont_reply /\ Fades(t, v)
    BY <1>1, <1>2, <1>3, <1>5, <2>1, <2>2, <2>3, CleanupOk
  <2> HIDE DEF v
  <2>5. Orphaned(v, -1, p) BY <2>4 DEF Orphaned
  <2>6. Fades(s, v) BY <1>1, <2>4, FadesTrans
  <2> DEFINE w == disinherit(v, p)
  <2>7. Sound(w) /\ ~Alive(w, p) /\ Fades(v, w) /\ w.dont_reply = v.dont_reply BY <2>5, DisinheritOk
  <2> HIDE DEF w
  <2>8. Fades(s, w) BY <2>6, <2>7, FadesTrans
  <2> QED BY <1>0, <1>1, <2>4, <2>7, <2>8 DEF w
<1>6. CASE ~("WAITING" \in t.flags[q] /\ RightChild(t, q, p))
  <2>1. v = h BY <1>6
  <2>2. /\ h \in Table /\ h.flags = [t.flags EXCEPT ![p] = @ \cup {"HANGING"}]
        /\ SameNames(t, h) /\ SameSig(t, h) /\ h.told = t.told /\ h.parent = t.parent
        /\ h.procs_in_use = t.procs_in_use /\ h.dont_reply = t.dont_reply /\ h.panic = t.panic
        /\ h.stray = t.stray /\ h.posted = t.posted /\ h.blocked = t.blocked /\ h.timer = t.timer
        /\ h.p_stop = t.p_stop /\ h.ksig = t.ksig /\ h.unended = t.unended /\ h.frames = t.frames
    <3> DEFINE f == [t.flags EXCEPT ![p] = @ \cup {"HANGING"}]
    <3>1. f \in [Slot -> SUBSET MFlag] BY <1>2, Fields DEF MFlag
    <3>2. h = [t EXCEPT !.flags = f] OBVIOUS
    <3> HIDE DEF f, h
    <3> QED BY <1>2, <3>1, <3>2 DEF Table, SameNames, SameSig, f
  <2> HIDE DEF h, v
  <2>3. h.flags[p] = t.flags[p] \cup {"HANGING"} /\ \A x \in Slot \ {p} : h.flags[x] = t.flags[x]
    <3>1. t.flags \in [Slot -> SUBSET MFlag] BY <1>2, Fields
    <3> QED BY <1>2, <2>2, <3>1
  <2>4. \A x \in Slot : /\ Used(h, x) <=> Used(t, x)
                        /\ Alive(h, x) <=> Alive(t, x) /\ x # p
    BY <1>2, <2>3 DEF Used, Alive
  <2>5. Booked(h)
    <3>1. {x \in Slot : Used(h, x)} = {x \in Slot : Used(t, x)} BY <2>4
    <3>2. \A x \in 0 .. 1 : h.flags[x] = {"IN_USE"} BY <1>1, <2>3, SlotFacts DEF Core, Booked
    <3>3. Alive(h, INIT_PROC_NR) BY <1>1, <1>2, <2>4, SlotFacts DEF Core, Booked
    <3>4. \A x \in Slot : /\ ~Used(h, x) => h.flags[x] = {}
                          /\ "TRACED" \notin h.flags[x] /\ "STOPPED" \notin h.flags[x]
      BY <1>1, <1>2, <2>3, <2>4 DEF Core, Booked
    <3> QED BY <1>1, <2>2, <3>1, <3>2, <3>3, <3>4 DEF Core, Booked, SameNames
  <2>6. Names(h)
    <3>1. \A x \in User : Used(h, x) <=> Used(t, x) BY <2>4, SlotFacts
    <3> QED BY <1>1, <2>2, <3>1 DEF Core, Names, SameNames
  <2>7. Pledged(h) BY <1>1, <2>2 DEF Core, Pledged, SameNames, SameSig
  <2>8. Waits(h, {})
    <3> SUFFICES ASSUME NEW x \in User, "WAITING" \in h.flags[x], Alive(h, x)
                 PROVE  /\ x = INIT_PROC_NR => h.wpid[x] = -1
                        /\ "own group" \notin WaitKinds =>
                             /\ h.wpid[x] # 0
                             /\ \A y \in User : Child(h, x, y) => "HANGING" \notin h.flags[y]
      BY DEF Waits
    <3>1. x \in Slot /\ x # p /\ "WAITING" \in t.flags[x] /\ Alive(t, x) BY <2>3, <2>4, SlotFacts
    <3>2. /\ x = INIT_PROC_NR => t.wpid[x] = -1
          /\ "own group" \notin WaitKinds =>
               /\ t.wpid[x] # 0
               /\ \A y \in User : Child(t, x, y) => "HANGING" \notin t.flags[y]
      BY <1>1, <3>1 DEF Waits
    <3>3. ASSUME NEW y \in User, Child(h, x, y), "HANGING" \in h.flags[y], "own group" \notin WaitKinds
          PROVE  FALSE
      <4>1. Child(t, x, y) /\ y \in Slot BY <2>2, <2>4, <3>3, SlotFacts DEF Child, SameNames
      <4>2. y = p BY <2>3, <3>2, <3>3, <4>1
      <4>3. x = q BY <1>2, <4>1, <4>2 DEF Child
      <4>4. t.wpid[q] \in -MaxPid .. MaxPid /\ t.procgrp[p] \in 0 .. MaxPid /\ MaxPid \in Nat
        <5>1. t.wpid \in [Slot -> -MaxPid .. MaxPid] /\ t.procgrp \in [Slot -> Pid] BY <1>2, Fields
        <5>2. Pid = 0 .. MaxPid /\ MaxPid \in Nat BY SlotFacts
        <5> QED BY <1>2, <5>1, <5>2
      <4>5. t.wpid[q] # 0 BY <3>2, <3>3, <4>3
      <4>6. ~RightChild(t, q, p) BY <1>6, <3>1, <4>3
      <4> QED BY <4>1, <4>2, <4>3, <4>4, <4>5, <4>6 DEF Child, RightChild
    <3> QED BY <2>2, <3>2, <3>3 DEF SameNames
  <2>9. Family(h, -1, p)
    <3>1. ASSUME NEW c \in User \ {INIT_PROC_NR}, Used(h, c)
          PROVE  /\ h.parent[c] \in User \ {c}
                 /\ Alive(h, h.parent[c]) \/ (h.parent[c] = p /\ c > -1)
      <4>1. Used(t, c) /\ c > -1 BY <2>4, <3>1, SlotFacts
      <4>2. t.parent[c] \in User \ {c} /\ (Alive(t, t.parent[c]) \/ (t.parent[c] = p /\ c > -1))
        BY <1>3, <4>1 DEF Family
      <4> QED BY <2>2, <2>4, <4>1, <4>2, SlotFacts
    <3> QED BY <1>3, <2>2, <3>1 DEF Family
  <2>10. Held(h, {})
    <3> SUFFICES ASSUME NEW x \in User PROVE HeldAt(h, x) BY DEF Held
    <3>1. x \in Slot BY SlotFacts
    <3>2. CASE x = p BY <1>1, <2>2, <2>4, <3>1, <3>2 DEF HeldAt, Gone
    <3>3. CASE x # p
      <4>1. HeldAt(t, x) /\ h.flags[x] = t.flags[x] /\ (Alive(h, x) <=> Alive(t, x))
        BY <1>1, <2>3, <2>4, <3>1, <3>3 DEF Held
      <4> QED BY <2>2, <4>1 DEF HeldAt, Gone, Owed, SameNames
    <3> QED BY <3>2, <3>3
  <2>11. Masked(h, {})
    <3> SUFFICES ASSUME NEW x \in User, Alive(h, x) PROVE MaskedAt(h, x) BY DEF Masked, MaskedAt
    <3>1. x # p /\ x \in Slot /\ Alive(t, x) /\ MaskedAt(t, x) /\ h.flags[x] = t.flags[x]
      BY <1>1, <2>3, <2>4, SlotFacts DEF Masked
    <3> QED BY <2>2, <3>1 DEF MaskedAt, MaskOK, PendOK, SameSig
  <2>12. Orphaned(h, -1, p)
    BY <1>2, <2>2, <2>4, <2>5, <2>6, <2>7, <2>8, <2>9, <2>10, <2>11 DEF Orphaned, Core
  <2>13. Fades(t, h)
    <3>1. \A x \in Slot : /\ Used(h, x) => Used(t, x)
                          /\ Alive(h, x) => Alive(t, x)
                          /\ "ALARM_ON" \in t.flags[x] => "ALARM_ON" \in h.flags[x]
                          /\ "WAITING" \in h.flags[x] => "WAITING" \in t.flags[x]
      BY <2>3, <2>4
    <3> QED BY <2>2, <3>1 DEF Fades, Wanes, Dims
  <2>14. Fades(s, h) BY <1>1, <2>13, FadesTrans
  <2> DEFINE w == disinherit(h, p)
  <2>15. Sound(w) /\ ~Alive(w, p) /\ Fades(h, w) /\ w.dont_reply = h.dont_reply BY <2>12, DisinheritOk
  <2> HIDE DEF w
  <2>16. Fades(s, w) BY <2>14, <2>15, FadesTrans
  <2> QED BY <1>0, <1>1, <2>1, <2>2, <2>15, <2>16 DEF w
<1> QED BY <1>5, <1>6

-----------------------------------------------------------------------------
(***************************************************************************)
(* Signals that do not end the process.                                    *)
(***************************************************************************)
\* What deliver() saves, and the mask of the handler.
Saved(s, p) == IF "SIGSUSPENDED" \in s.flags[p] THEN s.sigmask2[p] ELSE s.sigmask[p]

\* What deliver() writes.
Delivered(s, w, p, sig) ==
  /\ w \in Table
  /\ w.flags = [s.flags EXCEPT ![p] = @ \ Suspensions]
  /\ w.blocked = IF Owed(s, p) THEN s.blocked ELSE s.blocked \ {p}
  /\ w.frames = [s.frames EXCEPT ![p] = <<Saved(s, p)>> \o @]
  /\ \A x \in User \ {p} : /\ w.sigmask[x] = s.sigmask[x] /\ w.catch[x] = s.catch[x]
                           /\ w.sigpending[x] = s.sigpending[x]
  /\ w.sigpending[p] = s.sigpending[p] \ {sig}
  /\ w.ignore = s.ignore /\ w.sigmask2 = s.sigmask2 /\ w.own = s.own
  /\ SameNames(s, w) /\ w.parent = s.parent /\ w.told = s.told
  /\ w.procs_in_use = s.procs_in_use /\ w.dont_reply = s.dont_reply /\ w.panic = s.panic
  /\ w.stray = s.stray /\ w.posted = s.posted /\ w.timer = s.timer
  /\ w.p_stop = s.p_stop /\ w.ksig = s.ksig /\ w.unended = s.unended

\* What deliver() writes for a process that MM holds properly.
LEMMA DeliverFields ==
  ASSUME NEW s \in Table, NEW p \in User, NEW sig \in s.catch[p], Alive(s, p), HeldAt(s, p)
  PROVE  LET w == deliver(s, p, sig)
         IN  Delivered(s, w, p, sig)
<1> DEFINE act == s.sigact[p][sig]
           fr == [s.frames EXCEPT ![p] = <<Saved(s, p)>> \o @]
           sm == [s.sigmask EXCEPT ![p] = IF "SA_NODEFER" \in act.flags
                                          THEN (@ \cup act.mask) \ {sig} ELSE @ \cup act.mask \cup {sig}]
           ca == [s.catch EXCEPT ![p] = IF "SA_RESETHAND" \in act.flags THEN @ \ {sig} ELSE @]
           sp == [s.sigpending EXCEPT ![p] = @ \ {sig}]
           t == [s EXCEPT !.frames = fr, !.sigmask = sm, !.catch = ca, !.sigpending = sp]
           w == deliver(s, p, sig)
<1>0. p \in Slot /\ sig \in Sig \ {SIGKILL}
  <2>1. s.catch[p] \in Mask BY SigFields
  <2> QED BY <2>1, SlotFacts DEF Mask
<1>1. w = unpause(t, p) BY DEF deliver, Saved
<1>2. act.mask \in Mask
  <2>1. s.sigact[p] \in [Sig -> [mask : Mask, flags : SUBSET {"SA_NODEFER", "SA_RESETHAND"}]]
    BY SigFields
  <2> QED BY <1>0, <2>1
<1> HIDE DEF act
<1>3. sm \in [User -> Mask] /\ ca \in [User -> Mask] /\ sp \in [User -> Mask]
  <2>1. /\ s.sigmask \in [User -> Mask] /\ s.catch \in [User -> Mask] /\ s.sigpending \in [User -> Mask]
    BY SigFields
  <2>2. (s.sigmask[p] \cup act.mask) \ {sig} \in Mask /\ s.sigmask[p] \cup act.mask \cup {sig} \in Mask
    BY <1>0, <1>2, <2>1 DEF Mask
  <2>3. s.catch[p] \ {sig} \in Mask /\ s.sigpending[p] \ {sig} \in Mask BY <2>1 DEF Mask
  <2> QED BY <2>1, <2>2, <2>3
<1>4. fr \in [User -> Seq(Mask)]
  <2>1. s.frames \in [User -> Seq(Mask)] /\ s.sigmask[p] \in Mask /\ s.sigmask2[p] \in Mask BY SigFields
  <2>2. Saved(s, p) \in Mask BY <2>1 DEF Saved
  <2>3. <<Saved(s, p)>> \in Seq(Mask) BY <2>2
  <2>4. s.frames[p] \in Seq(Mask) BY <2>1
  <2>5. <<Saved(s, p)>> \o s.frames[p] \in Seq(Mask) BY <2>3, <2>4
  <2> QED BY <2>1, <2>5
<1>5. /\ \A x \in User \ {p} : sm[x] = s.sigmask[x] /\ ca[x] = s.catch[x] /\ sp[x] = s.sigpending[x]
      /\ sp[p] = s.sigpending[p] \ {sig}
  BY SigFields
<1> HIDE DEF fr, sm, ca, sp
<1>6. /\ t \in Table /\ t.flags = s.flags /\ t.blocked = s.blocked /\ t.frames = fr /\ t.sigmask = sm
      /\ t.catch = ca /\ t.sigpending = sp
  BY <1>3, <1>4 DEF Table
<1>7. /\ t.ignore = s.ignore /\ t.sigmask2 = s.sigmask2 /\ t.own = s.own
      /\ SameNames(s, t) /\ t.parent = s.parent /\ t.told = s.told
      /\ t.procs_in_use = s.procs_in_use /\ t.dont_reply = s.dont_reply /\ t.panic = s.panic
      /\ t.stray = s.stray /\ t.posted = s.posted /\ t.timer = s.timer
      /\ t.p_stop = s.p_stop /\ t.ksig = s.ksig /\ t.unended = s.unended
  BY DEF Table, SameNames
<1> HIDE DEF t, w
<1> DEFINE f == IF "PAUSED" \in t.flags[p] THEN "PAUSED"
                ELSE IF "WAITING" \in t.flags[p] THEN "WAITING" ELSE "SIGSUSPENDED"
           g == [s.flags EXCEPT ![p] = @ \ Suspensions]
           b == s.blocked \ {p}
<1>8. g \in [Slot -> SUBSET MFlag] /\ b \in SUBSET User BY <1>0, Fields
<1>9. CASE p \in s.blocked /\ ~Owed(s, p)
  <2>1. Asleep(s.flags[p]) BY <1>9 DEF HeldAt
  <2>2. f \in t.flags[p] /\ t.flags[p] \ {f} = s.flags[p] \ Suspensions
    BY <1>6, <2>1 DEF Asleep, Suspensions
  <2>3. "HANGING" \notin t.flags[p] BY <1>6 DEF Alive
  <2> DEFINE u == [t EXCEPT !.flags[p] = @ \ {f}]
  <2>4. w = reply(u, p) BY <1>1, <2>2, <2>3 DEF unpause
  <2>5. u = [t EXCEPT !.flags = g]
    <3>1. u = [t EXCEPT !.flags = [t.flags EXCEPT ![p] = t.flags[p] \ {f}]] OBVIOUS
    <3>2. [t.flags EXCEPT ![p] = t.flags[p] \ {f}] = g BY <1>6, <2>2
    <3> HIDE DEF u, g, f
    <3> QED BY <3>1, <3>2
  <2> HIDE DEF u, f, g, b
  <2>6. u \in Table /\ u.flags = g /\ u.blocked = s.blocked BY <1>6, <1>8, <2>5 DEF Table
  <2>7. Alive(u, p)
    <3>1. g[p] = s.flags[p] \ Suspensions BY <1>0, Fields DEF g
    <3> QED BY <2>6, <3>1 DEF Alive, Suspensions
  <2>8. w = [u EXCEPT !.blocked = b]
    <3>1. u.blocked \ {p} = b /\ p \in u.blocked BY <1>9, <2>6 DEF b
    <3>2. reply(u, p) = [u EXCEPT !.blocked = u.blocked \ {p}] BY <2>7, <3>1, Zenon DEF reply
    <3> QED BY <2>4, <3>1, <3>2
  <2>9. w = [t EXCEPT !.flags = g, !.blocked = b] BY <1>6, <2>5, <2>8 DEF Table
  <2>10. /\ w \in Table /\ w.flags = g /\ w.blocked = b /\ w.frames = fr /\ w.sigmask = sm
         /\ w.catch = ca /\ w.sigpending = sp
    BY <1>6, <1>8, <2>9 DEF Table
  <2>11. /\ w.ignore = t.ignore /\ w.sigmask2 = t.sigmask2 /\ w.own = t.own
         /\ SameNames(t, w) /\ w.parent = t.parent /\ w.told = t.told
         /\ w.procs_in_use = t.procs_in_use /\ w.dont_reply = t.dont_reply /\ w.panic = t.panic
         /\ w.stray = t.stray /\ w.posted = t.posted /\ w.timer = t.timer
         /\ w.p_stop = t.p_stop /\ w.ksig = t.ksig /\ w.unended = t.unended
    BY <1>6, <2>9 DEF Table, SameNames
  <2> QED BY <1>5, <1>7, <1>9, <2>10, <2>11 DEF Delivered, SameNames, w, g, b, fr
<1>10. CASE ~(p \in s.blocked /\ ~Owed(s, p))
  <2>1. Idle(s.flags[p]) BY <1>10 DEF HeldAt
  <2>2. w = t
    <3>1. f \notin t.flags[p] BY <1>6, <2>1 DEF Idle
    <3> QED BY <1>1, <3>1 DEF unpause
  <2>3. s.flags = g
    <3>1. s.flags \in [Slot -> SUBSET MFlag] /\ s.flags[p] \ Suspensions = s.flags[p]
      BY <2>1, Fields DEF Idle, Suspensions
    <3> QED BY <1>0, <3>1
  <2>4. s.blocked = IF Owed(s, p) THEN s.blocked ELSE s.blocked \ {p} BY <1>10
  <2> QED BY <1>5, <1>6, <1>7, <2>2, <2>3, <2>4 DEF Delivered, w, g, fr
<1> QED BY <1>9, <1>10

\* From s to t, the slots have changed by suspensions and the alarm of p only.
Calm(s, t, p) ==
  /\ t \in Table /\ SameNames(s, t) /\ t.parent = s.parent /\ t.procs_in_use = s.procs_in_use
  /\ t.panic = s.panic /\ t.stray = s.stray /\ t.p_stop = s.p_stop
  /\ \A x \in Slot \ {p} : t.flags[x] = s.flags[x]
  /\ \A f \in {"IN_USE", "HANGING", "TRACED", "STOPPED"} : f \in t.flags[p] <=> f \in s.flags[p]

\* Then slots, names and families are as good as before.
LEMMA CalmOk ==
  ASSUME NEW s, s \in Table, Booked(s), Names(s), NEW p \in User, NEW t, Calm(s, t, p), Alive(s, p)
  PROVE  /\ Booked(t) /\ Names(t) /\ (Kin(s) => Kin(t))
         /\ \A x \in Slot : (Used(t, x) <=> Used(s, x)) /\ (Alive(t, x) <=> Alive(s, x))
         /\ Waits(s, {}) /\ ("WAITING" \in t.flags[p] => "WAITING" \in s.flags[p]) => Waits(t, {})
<1>0. p \in Slot /\ Used(s, p) /\ User \subseteq Slot BY SlotFacts DEF Alive, Used
<1>1. \A x \in Slot : (Used(t, x) <=> Used(s, x)) /\ (Alive(t, x) <=> Alive(s, x))
                      /\ ("HANGING" \in t.flags[x] <=> "HANGING" \in s.flags[x])
  BY <1>0 DEF Calm, Used, Alive
<1>2. Booked(t)
  <2>1. {x \in Slot : Used(t, x)} = {x \in Slot : Used(s, x)} BY <1>1
  <2>2. \A x \in 0 .. 1 : t.flags[x] = {"IN_USE"}
    <3>1. \A x \in 0 .. 1 : x \in Slot /\ x # p BY SlotFacts
    <3> QED BY <3>1 DEF Booked, Calm
  <2>3. Alive(t, INIT_PROC_NR) BY <1>1, SlotFacts DEF Booked
  <2>4. \A x \in Slot : ~Used(t, x) => t.flags[x] = {} BY <1>0, <1>1 DEF Booked, Calm
  <2>5. \A x \in Slot : "TRACED" \notin t.flags[x] /\ "STOPPED" \notin t.flags[x]
    BY <1>0 DEF Booked, Calm
  <2> QED BY <2>1, <2>2, <2>3, <2>4, <2>5 DEF Booked, Calm, SameNames
<1>3. Names(t)
  <2>1. \A x \in User : Used(t, x) <=> Used(s, x) BY <1>0, <1>1
  <2> QED BY <2>1 DEF Names, Calm, SameNames
<1>4. ASSUME Kin(s) PROVE Kin(t)
  <2>1. \A x \in 0 .. INIT_PROC_NR : t.parent[x] = MM BY <1>4 DEF Kin, Family, Calm
  <2>2. ASSUME NEW c \in User \ {INIT_PROC_NR}, Used(t, c)
        PROVE  /\ t.parent[c] \in User \ {c}
               /\ Alive(t, t.parent[c]) \/ (t.parent[c] = MM /\ c > NR_PROCS)
    <3>1. Used(s, c) BY <1>0, <1>1, <2>2
    <3>2. /\ s.parent[c] \in User \ {c}
          /\ Alive(s, s.parent[c]) \/ (s.parent[c] = MM /\ c > NR_PROCS)
      BY <1>4, <3>1 DEF Kin, Family
    <3> QED BY <1>0, <1>1, <3>2 DEF Calm
  <2> QED BY <2>1, <2>2 DEF Kin, Family
<1>5. ASSUME Waits(s, {}), "WAITING" \in t.flags[p] => "WAITING" \in s.flags[p] PROVE Waits(t, {})
  <2> SUFFICES ASSUME NEW x \in User, "WAITING" \in t.flags[x], Alive(t, x)
               PROVE  /\ x = INIT_PROC_NR => t.wpid[x] = -1
                      /\ "own group" \notin WaitKinds =>
                           /\ t.wpid[x] # 0
                           /\ \A y \in User : Child(t, x, y) => "HANGING" \notin t.flags[y]
    BY DEF Waits
  <2>1. "WAITING" \in s.flags[x] /\ Alive(s, x) BY <1>0, <1>1, <1>5 DEF Calm
  <2>2. /\ x = INIT_PROC_NR => s.wpid[x] = -1
        /\ "own group" \notin WaitKinds =>
             /\ s.wpid[x] # 0
             /\ \A y \in User : Child(s, x, y) => "HANGING" \notin s.flags[y]
    BY <1>5, <2>1 DEF Waits
  <2>3. \A y \in User : /\ Child(t, x, y) => Child(s, x, y)
                        /\ "HANGING" \in t.flags[y] <=> "HANGING" \in s.flags[y]
    BY <1>0, <1>1 DEF Calm, SameNames, Child
  <2> QED BY <2>2, <2>3 DEF Calm, SameNames
<1> QED BY <1>1, <1>2, <1>3, <1>4, <1>5

\* What the others have in MM and in the kernel has not changed.
SameElse(s, t, p) ==
  /\ \A x \in User \ {p} :
       /\ t.flags[x] = s.flags[x]
       /\ x \in t.blocked <=> x \in s.blocked
       /\ x \in t.posted <=> x \in s.posted
       /\ x \in t.timer <=> x \in s.timer
       /\ t.ksig[x] = s.ksig[x] /\ t.unended[x] = s.unended[x]
  /\ t.who = s.who
  /\ t.dont_reply = s.dont_reply \/ p = s.who

\* They are held as before.
LEMMA ElseHeld ==
  ASSUME NEW s, NEW t, NEW p, SameElse(s, t, p), NEW x \in User \ {p}, HeldAt(s, x)
  PROVE  HeldAt(t, x)
BY DEF SameElse, HeldAt, Gone, Owed, Alive

\* Nor have their masks.
SameMasks(s, t, p) ==
  \A x \in User \ {p} :
    /\ t.flags[x] = s.flags[x] /\ t.frames[x] = s.frames[x] /\ t.own[x] = s.own[x]
    /\ t.sigmask[x] = s.sigmask[x] /\ t.sigmask2[x] = s.sigmask2[x]
    /\ t.sigpending[x] = s.sigpending[x] /\ t.ignore[x] = s.ignore[x]

\* They are masked as before.
LEMMA ElseMasked ==
  ASSUME NEW s, NEW t, NEW p, SameMasks(s, t, p), NEW x \in User \ {p}, MaskedAt(s, x)
  PROVE  MaskedAt(t, x)
BY DEF SameMasks, MaskedAt, MaskOK, PendOK, Alive

\* The handler of sig runs with a frame that restores the mask.
LEMMA DeliverOk ==
  ASSUME NEW p \in User, NEW s, Core(s), Kin(s), Waits(s, {}), Held(s, {}), Masked(s, {p}),
         Alive(s, p), MaskOK(s, p), s.sigpending[p] \cap s.ignore[p] = {}, NEW sig \in s.catch[p]
  PROVE  LET w == deliver(s, p, sig)
         IN  Sound(w) /\ Fades(s, w) /\ w.dont_reply = s.dont_reply
<1> DEFINE w == deliver(s, p, sig)
<1>0. s \in Table /\ p \in Slot /\ User \subseteq Slot /\ HeldAt(s, p) BY SlotFacts DEF Core, Held
<1>a. Delivered(s, w, p, sig) BY <1>0, DeliverFields
<1> HIDE DEF w
<1>1. /\ w \in Table
      /\ w.flags = [s.flags EXCEPT ![p] = @ \ Suspensions]
      /\ w.blocked = IF Owed(s, p) THEN s.blocked ELSE s.blocked \ {p}
      /\ w.frames = [s.frames EXCEPT ![p] = <<Saved(s, p)>> \o @]
      /\ \A x \in User \ {p} : /\ w.sigmask[x] = s.sigmask[x] /\ w.catch[x] = s.catch[x]
                               /\ w.sigpending[x] = s.sigpending[x]
      /\ w.sigpending[p] = s.sigpending[p] \ {sig}
      /\ w.ignore = s.ignore /\ w.sigmask2 = s.sigmask2 /\ w.own = s.own
      /\ SameNames(s, w) /\ w.parent = s.parent /\ w.told = s.told
      /\ w.procs_in_use = s.procs_in_use /\ w.dont_reply = s.dont_reply /\ w.panic = s.panic
      /\ w.stray = s.stray /\ w.posted = s.posted /\ w.timer = s.timer
      /\ w.p_stop = s.p_stop /\ w.ksig = s.ksig /\ w.unended = s.unended
  BY <1>a DEF Delivered
<1>2. w.flags[p] = s.flags[p] \ Suspensions /\ \A x \in Slot \ {p} : w.flags[x] = s.flags[x]
  <2>1. s.flags \in [Slot -> SUBSET MFlag] BY <1>0, Fields
  <2> QED BY <1>0, <1>1, <2>1
<1>3. w.frames[p] = <<Saved(s, p)>> \o s.frames[p] /\ \A x \in User \ {p} : w.frames[x] = s.frames[x]
  <2>1. s.frames \in [User -> Seq(Mask)] BY <1>0, SigFields
  <2> QED BY <1>0, <1>1, <2>1
<1>4. Calm(s, w, p) BY <1>0, <1>1, <1>2 DEF Calm, Suspensions
<1>5. /\ Booked(w) /\ Names(w) /\ Kin(w) /\ Waits(w, {})
      /\ \A x \in Slot : (Used(w, x) <=> Used(s, x)) /\ (Alive(w, x) <=> Alive(s, x))
  <2>1. "WAITING" \in w.flags[p] => "WAITING" \in s.flags[p] BY <1>2
  <2>2. Booked(s) /\ Names(s) BY DEF Core
  <2> QED BY <1>0, <1>4, <2>1, <2>2, CalmOk
<1>6. Pledged(w) BY <1>1 DEF Core, Pledged, SameNames
<1>7. Held(w, {})
  <2>1. SameElse(s, w, p) BY <1>0, <1>1, <1>2 DEF SameElse, SameNames
  <2>2. HeldAt(w, p)
    <3>1. Idle(w.flags[p]) BY <1>2 DEF Idle, Suspensions
    <3>2. Alive(w, p) BY <1>0, <1>5
    <3>3. Owed(w, p) <=> Owed(s, p) BY <1>1 DEF Owed, SameNames
    <3>4. (p \in s.posted => p \notin s.blocked) /\ (Owed(s, p) => p \in s.blocked) BY <1>0 DEF HeldAt
    <3>5. w.posted = s.posted /\ (p \in w.blocked <=> Owed(s, p) /\ p \in s.blocked)
      BY <1>1
    <3> QED BY <3>1, <3>2, <3>3, <3>4, <3>5 DEF HeldAt
  <2> QED BY <2>1, <2>2, ElseHeld DEF Held
<1>8. Masked(w, {})
  <2>1. SameMasks(s, w, p) BY <1>0, <1>1, <1>2, <1>3 DEF SameMasks
  <2> DEFINE f == s.frames[p]
             g == w.frames[p]
  <2>2. f \in Seq(Mask) BY <1>0, SigFields
  <2>3. g # << >> /\ g[Len(g)] = IF f # << >> THEN f[Len(f)] ELSE Saved(s, p)
    <3>1. g = <<Saved(s, p)>> \o f BY <1>3
    <3> HIDE DEF f, g
    <3>2. Len(f) \in Nat /\ (f # << >> => Len(f) > 0) /\ (f = << >> => Len(f) = 0) BY <2>2
    <3>3. Len(g) = Len(f) + 1 /\ g[1] = Saved(s, p) /\ \A k \in 1 .. Len(f) : g[k + 1] = f[k]
      BY <2>2, <3>1, <3>2
    <3> QED BY <3>2, <3>3
  <2>4. MaskOK(w, p)
    <3>1. s.own[p] = IF f # << >> THEN f[Len(f)] ELSE Saved(s, p) BY DEF MaskOK, Saved
    <3> QED BY <1>1, <2>3, <3>1 DEF MaskOK
  <2>5. MaskedAt(w, p) BY <1>1, <2>3, <2>4 DEF MaskedAt, PendOK
  <2> QED BY <2>1, <2>5, ElseMasked DEF Masked
<1>9. Fades(s, w)
  <2>1. \A x \in Slot : /\ "ALARM_ON" \in w.flags[x] <=> "ALARM_ON" \in s.flags[x]
                        /\ "WAITING" \in w.flags[x] => "WAITING" \in s.flags[x]
    BY <1>0, <1>2 DEF Suspensions
  <2> QED BY <1>1, <1>5, <2>1 DEF Fades, Wanes, Dims
<1> QED BY <1>1, <1>5, <1>6, <1>7, <1>8, <1>9 DEF Sound, Core, w

\* survive(): the signal is ignored, becomes pending, or its handler runs.
LEMMA SurviveOk ==
  ASSUME NEW p \in User, NEW s, Core(s), Kin(s), Waits(s, {}), Held(s, {}), Masked(s, {p}),
         Alive(s, p), MaskOK(s, p), s.sigpending[p] \cap s.ignore[p] = {}, NEW sig, NEW full,
         ~Dies(s, p, sig, full),
         sig \in s.ignore[p] \cup s.sigmask[p] => MaskedAt(s, p)
  PROVE  LET w == survive(s, p, sig)
         IN  Sound(w) /\ Fades(s, w) /\ w.dont_reply = s.dont_reply
<1> DEFINE w == survive(s, p, sig)
<1>0. s \in Table /\ p \in Slot /\ User \subseteq Slot /\ "TRACED" \notin s.flags[p]
  BY SlotFacts DEF Core, Booked
<1>1. w = IF sig \in s.ignore[p] THEN s
          ELSE IF sig \in s.sigmask[p] THEN [s EXCEPT !.sigpending[p] = @ \cup {sig}]
          ELSE deliver(s, p, sig)
  BY <1>0 DEF survive
<1> HIDE DEF w
<1>2. CASE sig \in s.ignore[p]
  <2>1. w = s BY <1>1, <1>2
  <2>2. Masked(s, {}) BY <1>2 DEF Masked
  <2>3. Fades(s, s) BY DEF Fades, Wanes, Dims, SameNames
  <2> QED BY <2>1, <2>2, <2>3 DEF Sound, w
<1>3. CASE sig \notin s.ignore[p] /\ sig \in s.sigmask[p]
  <2> DEFINE sp == [s.sigpending EXCEPT ![p] = @ \cup {sig}]
  <2>1. w = [s EXCEPT !.sigpending = sp] BY <1>1, <1>3
  <2>2. sp \in [User -> Mask] /\ sp[p] = s.sigpending[p] \cup {sig}
        /\ \A x \in User \ {p} : sp[x] = s.sigpending[x]
    <3>1. s.sigpending \in [User -> Mask] /\ s.sigmask[p] \in Mask BY <1>0, SigFields
    <3>2. s.sigpending[p] \cup {sig} \in Mask BY <1>3, <3>1 DEF Mask
    <3> QED BY <3>1, <3>2
  <2> HIDE DEF sp
  <2>3. /\ w \in Table /\ w.sigpending = sp /\ w.flags = s.flags /\ w.frames = s.frames
        /\ w.ignore = s.ignore /\ w.catch = s.catch /\ w.sigmask = s.sigmask
        /\ w.sigmask2 = s.sigmask2 /\ w.own = s.own
    BY <1>0, <2>1, <2>2 DEF Table
  <2>4. /\ SameNames(s, w) /\ w.parent = s.parent /\ w.told = s.told
        /\ w.procs_in_use = s.procs_in_use /\ w.dont_reply = s.dont_reply /\ w.panic = s.panic
        /\ w.stray = s.stray /\ w.posted = s.posted /\ w.timer = s.timer /\ w.blocked = s.blocked
        /\ w.p_stop = s.p_stop /\ w.ksig = s.ksig /\ w.unended = s.unended
    BY <1>0, <2>1, <2>2 DEF Table, SameNames
  <2>5. Calm(s, w, p) BY <2>3, <2>4 DEF Calm
  <2>6. /\ Booked(w) /\ Names(w) /\ Kin(w) /\ Waits(w, {})
        /\ \A x \in Slot : (Used(w, x) <=> Used(s, x)) /\ (Alive(w, x) <=> Alive(s, x))
    <3>1. Booked(s) /\ Names(s) BY DEF Core
    <3> QED BY <1>0, <2>3, <2>5, <3>1, CalmOk
  <2>7. Pledged(w) BY <2>3, <2>4 DEF Core, Pledged, SameNames
  <2>8. Held(w, {}) BY <2>3, <2>4 DEF Held, HeldAt, Gone, Owed, SameNames, Alive
  <2>9. Masked(w, {})
    <3>1. SameMasks(s, w, p) BY <2>2, <2>3 DEF SameMasks
    <3>2. MaskedAt(s, p) BY <1>3
    <3>3. MaskedAt(w, p) BY <1>3, <2>2, <2>3, <3>2 DEF MaskedAt, MaskOK, PendOK, Alive
    <3> QED BY <3>1, <3>3, ElseMasked DEF Masked
  <2>10. Fades(s, w) BY <2>3, <2>4, <2>6 DEF Fades, Wanes, Dims
  <2> QED BY <2>3, <2>4, <2>6, <2>7, <2>8, <2>9, <2>10 DEF Sound, Core, w
<1>4. CASE sig \notin s.ignore[p] /\ sig \notin s.sigmask[p]
  <2>1. sig \in s.catch[p] BY <1>0, <1>4 DEF Dies
  <2>2. w = deliver(s, p, sig) BY <1>1, <1>4
  <2> QED BY <2>1, <2>2, DeliverOk DEF w
<1> QED BY <1>2, <1>3, <1>4

-----------------------------------------------------------------------------
(***************************************************************************)
(* check_sig(), mm_exit() and sig_proc().                                  *)
(***************************************************************************)
\* A caller that died is not answered; otherwise nothing changes.
LEMMA CheckedOk ==
  ASSUME NEW s, Sound(s)
  PROVE  LET w == Checked(s)
         IN  Sound(w) /\ Fades(s, w) /\ w.dont_reply = (s.dont_reply \/ ~Alive(s, s.mp))
<1> DEFINE w == Checked(s)
           d == s.dont_reply \/ ~Alive(s, s.mp)
<1>0. s \in Table BY DEF Sound, Core
<1>1. w = [s EXCEPT !.dont_reply = d] BY DEF Checked
<1>2. d \in BOOLEAN OBVIOUS
<1>9. d = (s.dont_reply \/ ~Alive(s, s.mp)) OBVIOUS
<1> HIDE DEF w, d
<1>3. w \in Table /\ w.dont_reply = d /\ w.flags = s.flags /\ w.frames = s.frames /\ SameSig(s, w)
  BY <1>0, <1>1, <1>2 DEF Table, SameSig
<1>4. /\ SameNames(s, w) /\ w.parent = s.parent /\ w.told = s.told
      /\ w.procs_in_use = s.procs_in_use /\ w.panic = s.panic
      /\ w.stray = s.stray /\ w.posted = s.posted /\ w.timer = s.timer /\ w.blocked = s.blocked
      /\ w.p_stop = s.p_stop /\ w.ksig = s.ksig /\ w.unended = s.unended
  BY <1>0, <1>1, <1>2 DEF Table, SameNames
<1>5. \A x : (Used(w, x) <=> Used(s, x)) /\ (Alive(w, x) <=> Alive(s, x)) BY <1>3 DEF Used, Alive
<1>6. Core(w)
  <2>1. Booked(w) BY <1>3, <1>4, <1>5 DEF Sound, Core, Booked, SameNames
  <2>2. Names(w) BY <1>4, <1>5 DEF Sound, Core, Names, SameNames
  <2>3. Pledged(w) BY <1>3, <1>4 DEF Sound, Core, Pledged, SameNames, SameSig
  <2> QED BY <1>3, <2>1, <2>2, <2>3 DEF Core
<1>7. Kin(w) /\ Waits(w, {})
  <2>1. Kin(w) BY <1>4, <1>5 DEF Sound, Kin, Family
  <2>2. Waits(w, {})
    <3>1. \A x, y : Child(w, x, y) <=> Child(s, x, y) BY <1>4, <1>5 DEF Child, SameNames
    <3> QED BY <1>3, <1>4, <1>5, <3>1 DEF Sound, Waits, SameNames
  <2> QED BY <2>1, <2>2
<1>8. Held(w, {})
  <2> SUFFICES ASSUME NEW x \in User PROVE HeldAt(w, x) BY DEF Held
  <2>1. HeldAt(s, x) BY DEF Sound, Held
  <2>2. Alive(s, x) => (Owed(w, x) <=> Owed(s, x))
    <3>1. s.who \in {HARDWARE, s.mp} BY DEF Sound, Core, Booked
    <3>2. x # HARDWARE BY SlotFacts DEF HARDWARE
    <3> QED BY <1>3, <1>4, <1>9, <3>1, <3>2 DEF Owed, SameNames
  <2> QED BY <1>3, <1>4, <1>5, <2>1, <2>2 DEF HeldAt, Gone
<1>10. Masked(w, {}) BY <1>3, <1>5 DEF Sound, Masked, MaskedAt, MaskOK, PendOK, SameSig
<1>11. Fades(s, w) BY <1>3, <1>4, <1>5 DEF Fades, Wanes, Dims
<1> QED BY <1>3, <1>6, <1>7, <1>8, <1>9, <1>10, <1>11 DEF Sound, w

\* What the next round of a loop may start from.
After(s, x) == Sound(x) /\ Fades(s, x) /\ (s.dont_reply => x.dont_reply)

\* One round after the others.
LEMMA AfterTrans ==
  ASSUME NEW s, NEW x, NEW y, After(s, x), After(x, y)
  PROVE  After(s, y)
BY FadesTrans DEF After

\* Nothing happened.
LEMMA AfterSame ==
  ASSUME NEW s, Sound(s)
  PROVE  After(s, s)
BY DEF After, Fades, Wanes, Dims, SameNames

\* A signal for process i, other than INIT, whose group does not hang up.
Struck(t, i, sig, full) == IF Dies(t, i, sig, full) THEN release(t, i) ELSE survive(t, i, sig)

\* It dies or survives; all is well.
LEMMA StruckOk ==
  ASSUME NEW t, Sound(t), NEW i \in User \ {INIT_PROC_NR}, Alive(t, i), NEW sig, NEW full
  PROVE  After(t, Struck(t, i, sig, full))
<1> DEFINE w == Struck(t, i, sig, full)
<1>1. CASE Dies(t, i, sig, full)
  <2>1. w = release(t, i) BY <1>1 DEF Struck
  <2>2. Held(t, {i}) /\ Masked(t, {i}) BY DEF Sound, Held, Masked
  <2>3. Sound(w) /\ Fades(t, w) /\ w.dont_reply = t.dont_reply
    BY <2>1, <2>2, ReleaseOk DEF Sound
  <2> QED BY <2>3 DEF After
<1>2. CASE ~Dies(t, i, sig, full)
  <2>1. w = survive(t, i, sig) BY <1>2 DEF Struck
  <2>2. /\ Masked(t, {i}) /\ MaskedAt(t, i) /\ MaskOK(t, i)
        /\ t.sigpending[i] \cap t.ignore[i] = {}
    BY DEF Sound, Masked, MaskedAt
  <2>3. Sound(w) /\ Fades(t, w) /\ w.dont_reply = t.dont_reply
    BY <1>2, <2>1, <2>2, SurviveOk DEF Sound
  <2> QED BY <2>3 DEF After
<1> QED BY <1>1, <1>2

\* One round of the loop of hangup().
HupRound(t, i, g, full) ==
  IF ~(Addressed(t, i, -g) /\ Permitted(t, i)) THEN t ELSE Struck(t, i, SIGHUP, full)

\* It is never about INIT, whose group is 0.
LEMMA HupRoundOk ==
  ASSUME NEW t, Sound(t), NEW i \in User, NEW g \in Int, g > 1, NEW full
  PROVE  After(t, HupRound(t, i, g, full))
<1>1. CASE ~(Addressed(t, i, -g) /\ Permitted(t, i)) BY <1>1, AfterSame DEF HupRound
<1>2. CASE Addressed(t, i, -g) /\ Permitted(t, i)
  <2>1. Alive(t, i) /\ t.procgrp[i] = -(-g) BY <1>2 DEF Addressed
  <2>2. i # INIT_PROC_NR
    <3>1. t.procgrp[INIT_PROC_NR] = 0 BY DEF Sound, Core, Names, INIT_PROC_NR
    <3> QED BY <2>1, <3>1
  <2> QED BY <1>2, <2>1, <2>2, StruckOk DEF HupRound
<1> QED BY <1>1, <1>2

\* hangup() of a group other than INIT's.
LEMMA HangupOk ==
  ASSUME NEW s, Sound(s), NEW g \in Int, g > 1, NEW full
  PROVE  After(s, hangup(s, g, full))
<1> DEFINE a == INIT_PROC_NR - 1
           b == NR_PROCS - 1
           F == [i \in User |-> [x \in Table |-> HupRound(x, i, g, full)]]
           T == [i \in a .. b |-> {x \in Table : After(s, x)}]
           Is(f) == f = [i \in a .. b |-> IF i < INIT_PROC_NR THEN s ELSE HupRound(f[i - 1], i, g, full)]
           after[i \in INIT_PROC_NR - 1 .. NR_PROCS - 1] ==
             IF i < INIT_PROC_NR THEN s ELSE HupRound(after[i - 1], i, g, full)
           w == after[NR_PROCS - 1]
<1>0. /\ a \in Int /\ b \in Int /\ a <= b /\ User = a + 1 .. b /\ b \in a .. b /\ a \in a .. b
      /\ \A i \in a .. b : i < INIT_PROC_NR <=> i = a
  BY SlotFacts DEF INIT_PROC_NR
<1>1. s \in T[a]
  <2>1. After(s, s) /\ s \in Table BY AfterSame DEF Sound, Core
  <2> QED BY <1>0, <2>1
<1>2. ASSUME NEW i \in a + 1 .. b, NEW x \in T[i - 1] PROVE x \in Table /\ HupRound(x, i, g, full) \in T[i]
  <2>1. i \in User /\ i - 1 \in a .. b /\ i \in a .. b BY <1>0
  <2>2. x \in Table /\ After(s, x) BY <1>2, <2>1
  <2> DEFINE y == HupRound(x, i, g, full)
  <2>3. After(x, y) BY <2>1, <2>2, HupRoundOk DEF After
  <2> HIDE DEF y
  <2>4. After(s, y) BY <2>2, <2>3, AfterTrans
  <2>5. y \in Table BY <2>4 DEF After, Sound, Core
  <2>6. y \in T[i] BY <2>1, <2>4, <2>5
  <2> QED BY <2>2, <2>6 DEF y
<1> HIDE DEF T
<1>3. PICK f : LoopOf(f, a, b, s, F)
  <2> HIDE DEF a, b, F
  <2> QED BY <1>0, LoopExists
<1>4. ASSUME NEW i \in a + 1 .. b, f[i - 1] \in T[i - 1]
      PROVE  f[i] = HupRound(f[i - 1], i, g, full) /\ f[i] \in T[i]
  <2>1. i \in a .. b /\ i # a /\ i \in User BY <1>0
  <2>2. f[i] = F[i][f[i - 1]] BY <1>3, <2>1 DEF LoopOf
  <2>3. f[i - 1] \in Table /\ HupRound(f[i - 1], i, g, full) \in T[i] BY <1>2, <1>4
  <2>4. F[i][f[i - 1]] = HupRound(f[i - 1], i, g, full) BY <2>1, <2>3
  <2> QED BY <2>2, <2>3, <2>4
<1>5. \A i \in a .. b : f[i] \in T[i]
  <2>1. f[a] = s BY <1>0, <1>3 DEF LoopOf
  <2> HIDE DEF F, a, b
  <2> QED BY <1>0, <1>1, <1>4, <2>1, LoopKeeps
<1>6. Is(f)
  <2>1. ASSUME NEW i \in a .. b, ~(i < INIT_PROC_NR) PROVE f[i] = HupRound(f[i - 1], i, g, full)
    <3>1. i \in a + 1 .. b /\ i - 1 \in a .. b BY <1>0, <2>1 DEF INIT_PROC_NR
    <3> QED BY <1>4, <1>5, <3>1
  <2>2. f[a] = s /\ DOMAIN f = a .. b /\ f = [i \in a .. b |-> f[i]] BY <1>0, <1>3 DEF LoopOf
  <2> HIDE DEF F, a, b
  <2> QED BY <1>0, <2>1, <2>2
<1>7. Is(after) BY <1>6
<1>8. hangup(s, g, full) = Checked(w) BY DEF hangup, HupRound, Struck
<1> HIDE DEF after
<1>9. \A i \in a .. b : after[i] \in T[i]
  <2>1. after[a] = s BY <1>0, <1>7
  <2>2. \A i \in a + 1 .. b : after[i] = HupRound(after[i - 1], i, g, full) BY <1>0, <1>7
  <2> HIDE DEF a, b
  <2>3. \A i \in a + 1 .. b : after[i - 1] \in T[i - 1] => after[i] \in T[i] BY <1>2, <2>2
  <2> QED BY <1>0, <1>1, <2>1, <2>3, LoopKeeps
<1>10. After(s, w) BY <1>0, <1>9 DEF T
<1> HIDE DEF w
<1>11. After(w, Checked(w)) BY <1>10, CheckedOk DEF After
<1> QED BY <1>8, <1>10, <1>11, AfterTrans

\* mm_exit(): p is dead, and its group has heard of it if it was the leader.
LEMMA MmExitOk ==
  ASSUME NEW p \in User \ {INIT_PROC_NR}, NEW s, Core(s), Kin(s), Waits(s, {}), Alive(s, p),
         Held(s, {p}), Masked(s, {p}), NEW full
  PROVE  After(s, mm_exit(s, p, full)) /\ ~Alive(mm_exit(s, p, full), p)
<1> DEFINE g == IF s.pid[p] = s.procgrp[s.mp] THEN s.procgrp[s.mp] ELSE 0
           t == release(s, p)
           w == hangup(t, g, full)
<1>0. p \in Slot /\ s \in Table /\ Used(s, p) BY SlotFacts DEF Core, Alive, Used
<1>1. mm_exit(s, p, full) = IF g = 0 THEN t ELSE w BY DEF mm_exit
<1>2. Sound(t) /\ ~Alive(t, p) /\ Fades(s, t) /\ t.dont_reply = s.dont_reply BY ReleaseOk
<1> HIDE DEF t
<1>3. After(s, t) BY <1>2 DEF After
<1>4. CASE g = 0 BY <1>1, <1>2, <1>3, <1>4
<1>5. CASE g # 0
  <2>1. g = s.pid[p] /\ g > 1 /\ g \in Int
    <3>1. s.pid[p] > 1 BY <1>0 DEF Core, Names, INIT_PID
    <3>2. s.pid[p] \in Pid BY <1>0, Fields
    <3> QED BY <1>5, <3>1, <3>2, SlotFacts
  <2> HIDE DEF g
  <2>2. After(t, w) BY <1>2, <2>1, HangupOk
  <2> HIDE DEF w
  <2>3. After(s, w) BY <1>3, <2>2, AfterTrans
  <2>4. ~Alive(w, p) BY <1>0, <1>2, <2>2 DEF After, Fades, Wanes, Dims
  <2> QED BY <1>1, <1>5, <2>3, <2>4
<1> QED BY <1>4, <1>5

\* sig_proc() for a process other than INIT.
LEMMA SigProcOk ==
  ASSUME NEW p \in User \ {INIT_PROC_NR}, NEW s, Core(s), Kin(s), Waits(s, {}), Held(s, {}),
         Masked(s, {p}), Alive(s, p), MaskOK(s, p), s.sigpending[p] \cap s.ignore[p] = {},
         NEW sig, NEW full, sig \in s.ignore[p] \cup s.sigmask[p] => MaskedAt(s, p)
  PROVE  LET w == sig_proc(s, p, sig, full)
         IN  After(s, w)
<1> DEFINE w == sig_proc(s, p, sig, full)
<1>1. CASE Dies(s, p, sig, full)
  <2>1. w = mm_exit(s, p, full) BY <1>1 DEF sig_proc
  <2>2. Held(s, {p}) BY DEF Held
  <2> QED BY <2>1, <2>2, MmExitOk
<1>2. CASE ~Dies(s, p, sig, full)
  <2>1. w = survive(s, p, sig) BY <1>2 DEF sig_proc
  <2> QED BY <1>2, <2>1, SurviveOk DEF After
<1> QED BY <1>1, <1>2

\* One round of the loop of check_sig().
SigRound(t, i, id, sig, full) ==
  IF Addressed(t, i, id) /\ Permitted(t, i) THEN sig_proc(t, i, sig, full) ELSE t

\* INIT is not among the receivers.
Spared(s, id) == ~(Addressed(s, INIT_PROC_NR, id) /\ Permitted(s, INIT_PROC_NR))

\* One round.
LEMMA SigRoundOk ==
  ASSUME NEW s, Sound(s), NEW id \in Int, Spared(s, id), NEW t, After(s, t), NEW i \in User,
         NEW sig, NEW full
  PROVE  After(s, SigRound(t, i, id, sig, full))
<1> DEFINE w == SigRound(t, i, id, sig, full)
<1>0. /\ i \in Int /\ User \subseteq Slot /\ User \subseteq Int
      /\ \A q \in User : Alive(t, q) =>
           /\ Addressed(t, q, id) <=> Addressed(s, q, id)
           /\ Permitted(t, q) <=> Permitted(s, q)
  <2>1. User \subseteq Slot /\ User \subseteq Int BY SlotFacts
  <2> QED BY <2>1 DEF After, Fades, Wanes, Dims, SameNames, Addressed, Permitted
<1>1. CASE ~(Addressed(t, i, id) /\ Permitted(t, i))
  <2>1. w = t BY <1>1 DEF SigRound
  <2> QED BY <2>1
<1>2. CASE Addressed(t, i, id) /\ Permitted(t, i)
  <2>1. w = sig_proc(t, i, sig, full) /\ Alive(t, i) BY <1>2 DEF SigRound, Addressed
  <2>2. i # INIT_PROC_NR BY <1>0, <1>2, <2>1 DEF Spared
  <2>3. /\ Sound(t) /\ Masked(t, {i}) /\ MaskedAt(t, i) /\ MaskOK(t, i)
        /\ t.sigpending[i] \cap t.ignore[i] = {}
    BY <2>1 DEF After, Sound, Masked, MaskedAt
  <2> HIDE DEF w
  <2>4. After(t, w) BY <2>1, <2>2, <2>3, SigProcOk DEF Sound
  <2>5. After(s, w) BY <2>4, AfterTrans
  <2> QED BY <2>5 DEF w
<1> QED BY <1>1, <1>2

\* check_sig(), from the first process to the last.
LEMMA CheckSigOk ==
  ASSUME NEW s, Sound(s), NEW id \in Int, Spared(s, id), NEW sig, NEW full
  PROVE  After(s, check_sig(s, id, sig, full))
<1> DEFINE a == INIT_PROC_NR - 1
           b == NR_PROCS - 1
           F == [i \in User |-> [x \in Table |-> SigRound(x, i, id, sig, full)]]
           T == [i \in a .. b |-> {x \in Table : After(s, x)}]
           Is(f) == f = [i \in a .. b |-> IF i < INIT_PROC_NR THEN s ELSE SigRound(f[i - 1], i, id, sig, full)]
           after[i \in INIT_PROC_NR - 1 .. NR_PROCS - 1] ==
             IF i < INIT_PROC_NR THEN s ELSE SigRound(after[i - 1], i, id, sig, full)
           w == after[NR_PROCS - 1]
<1>0. /\ a \in Int /\ b \in Int /\ a <= b /\ User = a + 1 .. b /\ b \in a .. b /\ a \in a .. b
      /\ \A i \in a .. b : i < INIT_PROC_NR <=> i = a
  BY SlotFacts DEF INIT_PROC_NR
<1>1. s \in T[a]
  <2>1. After(s, s) /\ s \in Table BY AfterSame DEF Sound, Core
  <2> QED BY <1>0, <2>1
<1>2. ASSUME NEW i \in a + 1 .. b, NEW x \in T[i - 1]
      PROVE  x \in Table /\ SigRound(x, i, id, sig, full) \in T[i]
  <2>1. i \in User /\ i - 1 \in a .. b /\ i \in a .. b BY <1>0
  <2>2. x \in Table /\ After(s, x) BY <1>2, <2>1
  <2> DEFINE y == SigRound(x, i, id, sig, full)
  <2>3. After(s, y) BY <2>1, <2>2, SigRoundOk
  <2> HIDE DEF y
  <2>5. y \in Table BY <2>3 DEF After, Sound, Core
  <2>6. y \in T[i] BY <2>1, <2>3, <2>5
  <2> QED BY <2>2, <2>6 DEF y
<1> HIDE DEF T
<1>3. PICK f : LoopOf(f, a, b, s, F)
  <2> HIDE DEF a, b, F
  <2> QED BY <1>0, LoopExists
<1>4. ASSUME NEW i \in a + 1 .. b, f[i - 1] \in T[i - 1]
      PROVE  f[i] = SigRound(f[i - 1], i, id, sig, full) /\ f[i] \in T[i]
  <2>1. i \in a .. b /\ i # a /\ i \in User BY <1>0
  <2>2. f[i] = F[i][f[i - 1]] BY <1>3, <2>1 DEF LoopOf
  <2>3. f[i - 1] \in Table /\ SigRound(f[i - 1], i, id, sig, full) \in T[i] BY <1>2, <1>4
  <2>4. F[i][f[i - 1]] = SigRound(f[i - 1], i, id, sig, full) BY <2>1, <2>3
  <2> QED BY <2>2, <2>3, <2>4
<1>5. \A i \in a .. b : f[i] \in T[i]
  <2>1. f[a] = s BY <1>0, <1>3 DEF LoopOf
  <2> HIDE DEF F, a, b
  <2> QED BY <1>0, <1>1, <1>4, <2>1, LoopKeeps
<1>6. Is(f)
  <2>1. ASSUME NEW i \in a .. b, ~(i < INIT_PROC_NR) PROVE f[i] = SigRound(f[i - 1], i, id, sig, full)
    <3>1. i \in a + 1 .. b /\ i - 1 \in a .. b BY <1>0, <2>1 DEF INIT_PROC_NR
    <3> QED BY <1>4, <1>5, <3>1
  <2>2. f[a] = s /\ DOMAIN f = a .. b /\ f = [i \in a .. b |-> f[i]] BY <1>0, <1>3 DEF LoopOf
  <2> HIDE DEF F, a, b
  <2> QED BY <1>0, <2>1, <2>2
<1>7. Is(after) BY <1>6
<1>8. check_sig(s, id, sig, full) = IF id = INIT_PID /\ sig = SIGKILL THEN s ELSE Checked(w)
  BY DEF check_sig, SigRound
<1> HIDE DEF after
<1>9. \A i \in a .. b : after[i] \in T[i]
  <2>1. after[a] = s BY <1>0, <1>7
  <2>2. \A i \in a + 1 .. b : after[i] = SigRound(after[i - 1], i, id, sig, full) BY <1>0, <1>7
  <2> HIDE DEF a, b
  <2>3. \A i \in a + 1 .. b : after[i - 1] \in T[i - 1] => after[i] \in T[i] BY <1>2, <2>2
  <2> QED BY <1>0, <1>1, <2>1, <2>3, LoopKeeps
<1>10. After(s, w) BY <1>0, <1>9 DEF T
<1> HIDE DEF w
<1>11. CASE id = INIT_PID /\ sig = SIGKILL BY <1>8, <1>11, AfterSame
<1>12. CASE ~(id = INIT_PID /\ sig = SIGKILL)
  <2> DEFINE z == Checked(w)
  <2>1. After(w, z) BY <1>10, CheckedOk DEF After
  <2> HIDE DEF z
  <2>2. After(s, z) BY <1>10, <2>1, AfterTrans
  <2> QED BY <1>8, <1>12, <2>2 DEF z
<1> QED BY <1>11, <1>12

\* check_pending() for the caller, all of whose other troubles are over.
LEMMA CheckPendingOk ==
  ASSUME NEW s, Core(s), Kin(s), Waits(s, {}), Held(s, {}), s.mp \in User \ {INIT_PROC_NR},
         Masked(s, {s.mp}), Alive(s, s.mp), MaskOK(s, s.mp),
         s.sigpending[s.mp] \cap s.ignore[s.mp] = {}, NEW full
  PROVE  After(s, check_pending(s, full))
<1> DEFINE p == s.mp
           open == s.sigpending[p] \ s.sigmask[p]
           w == check_pending(s, full)
<1>0. s \in Table /\ p \in User /\ p \in Slot BY SlotFacts DEF Core
<1>1. CASE open = {}
  <2>1. w = s BY <1>1 DEF check_pending
  <2>2. MaskedAt(s, p) BY <1>1 DEF MaskedAt, PendOK
  <2>3. Sound(s) BY <2>2 DEF Sound, Masked
  <2> QED BY <2>1, <2>3, AfterSame
<1>2. CASE open # {}
  <2> DEFINE l == Least(open)
             sp == [s.sigpending EXCEPT ![p] = @ \ {l}]
             t == [s EXCEPT !.sigpending[p] = @ \ {l}]
  <2>1. w = sig_proc(t, p, l, full) BY <1>2 DEF check_pending
  <2>2. /\ s.sigpending \in [User -> Mask] /\ s.sigpending[p] \in Mask /\ s.sigmask[p] \in Mask
    BY <1>0, SigFields
  <2>3. l \in open
    <3>1. open \in SUBSET Nat
      <4>1. Sig \subseteq Nat BY SigsAssumption
      <4>2. s.sigpending[p] \subseteq Sig BY <2>2 DEF Mask
      <4> QED BY <4>1, <4>2
    <3> HIDE DEF open
    <3> QED BY <1>2, <3>1, LeastFacts
  <2> HIDE DEF l
  <2>4. sp \in [User -> Mask] /\ sp[p] = s.sigpending[p] \ {l}
        /\ \A x \in User \ {p} : sp[x] = s.sigpending[x]
    <3>1. s.sigpending[p] \ {l} \in Mask BY <2>2 DEF Mask
    <3> QED BY <1>0, <2>2, <3>1
  <2>5. t = [s EXCEPT !.sigpending = sp] OBVIOUS
  <2> HIDE DEF sp, t, w
  <2>6. /\ t \in Table /\ t.sigpending = sp /\ t.flags = s.flags /\ t.frames = s.frames
        /\ t.ignore = s.ignore /\ t.catch = s.catch /\ t.sigmask = s.sigmask
        /\ t.sigmask2 = s.sigmask2 /\ t.own = s.own
    BY <1>0, <2>5, <2>4 DEF Table
  <2>7. /\ SameNames(s, t) /\ t.parent = s.parent /\ t.told = s.told
        /\ t.procs_in_use = s.procs_in_use /\ t.dont_reply = s.dont_reply /\ t.panic = s.panic
        /\ t.stray = s.stray /\ t.posted = s.posted /\ t.timer = s.timer /\ t.blocked = s.blocked
        /\ t.p_stop = s.p_stop /\ t.ksig = s.ksig /\ t.unended = s.unended
    BY <1>0, <2>5, <2>4 DEF Table, SameNames
  <2>8. Calm(s, t, p) BY <2>6, <2>7 DEF Calm
  <2>9. /\ Booked(t) /\ Names(t) /\ Kin(t) /\ Waits(t, {})
        /\ \A x \in Slot : (Used(t, x) <=> Used(s, x)) /\ (Alive(t, x) <=> Alive(s, x))
    <3>1. Booked(s) /\ Names(s) BY DEF Core
    <3> QED BY <1>0, <2>6, <2>8, <3>1, CalmOk
  <2>10. Pledged(t) BY <2>6, <2>7 DEF Core, Pledged, SameNames
  <2>11. Core(t) BY <2>6, <2>9, <2>10 DEF Core
  <2>12. Held(t, {}) BY <2>6, <2>7 DEF Held, HeldAt, Gone, Owed, SameNames, Alive
  <2>13. Masked(t, {p})
    <3>1. SameMasks(s, t, p) BY <2>4, <2>6 DEF SameMasks
    <3> QED BY <3>1, ElseMasked DEF Masked
  <2>14. Alive(t, p) /\ MaskOK(t, p) /\ t.sigpending[p] \cap t.ignore[p] = {}
    BY <2>4, <2>6, <2>6 DEF Alive, MaskOK
  <2>15. l \notin t.ignore[p] \cup t.sigmask[p] BY <2>3, <2>6
  <2>16. After(t, w) BY <1>0, <2>1, <2>9, <2>11, <2>12, <2>13, <2>14, <2>15, SigProcOk
  <2>17. Fades(s, t) BY <2>6, <2>7, <2>9 DEF Fades, Wanes, Dims
  <2>18. Fades(s, w) BY <2>16, <2>17, FadesTrans DEF After
  <2> QED BY <2>7, <2>16, <2>18 DEF After, w
<1> QED BY <1>1, <1>2

-----------------------------------------------------------------------------
(***************************************************************************)
(* The calls.                                                              *)
(***************************************************************************)
\* MM has received a call and has not decided anything yet.
Serving(s) == Sound(s) /\ s.mp \in User /\ s.who = s.mp /\ ~s.dont_reply /\ Alive(s, s.mp)

\* MM knows of every alarm that runs.
Alarmed(s) == \A p \in s.timer : "ALARM_ON" \in s.flags[p]

\* Who waited and is told, is told of a child that it waited for.
News(s, t) ==
  \A p \in User : "WAITING" \in s.flags[p] => t.told[p] = s.told[p] \/ Tells(s, t, p)

\* What a call leaves behind.
Served(s, t) ==
  /\ Sound(t) /\ t.who = s.who /\ News(s, t)
  /\ Alarmed(s) => Alarmed(t)

\* It is enough that the table faded.
LEMMA FadesServed ==
  ASSUME NEW s, s \in Table, NEW t, Sound(t), Fades(s, t)
  PROVE  Served(s, t)
<1>1. Alarmed(s) => Alarmed(t)
  <2>1. s.timer \subseteq Slot BY Fields, SlotFacts
  <2> QED BY <2>1 DEF Fades, Wanes, Dims, Alarmed
<1>2. News(s, t) BY DEF Fades, Wanes, Dims, News
<1>3. t.who = s.who BY DEF Fades, Wanes, Dims, SameNames
<1> QED BY <1>1, <1>2, <1>3 DEF Served

\* The caller is not suspended and waits for its answer.
LEMMA ServingFacts ==
  ASSUME NEW s, Serving(s)
  PROVE  /\ s \in Table /\ s.mp \in User /\ s.mp \in Slot /\ Alive(s, s.mp) /\ Owed(s, s.mp)
         /\ Idle(s.flags[s.mp]) /\ s.mp \in s.blocked /\ s.mp \notin s.posted
         /\ MaskedAt(s, s.mp)
<1>1. /\ s \in Table /\ s.mp \in User /\ s.mp \in Slot /\ Alive(s, s.mp) /\ Owed(s, s.mp)
      /\ MaskedAt(s, s.mp) /\ HeldAt(s, s.mp)
  BY SlotFacts DEF Serving, Sound, Core, Owed, Held, Masked
<1> QED BY <1>1 DEF HeldAt

\* A call that is about the caller alone.
LEMMA OwnCallOk ==
  ASSUME NEW s, Serving(s), NEW t, Calm(s, t, s.mp), SameElse(s, t, s.mp), SameMasks(s, t, s.mp),
         HeldAt(t, s.mp), Pledged(t), "WAITING" \notin t.flags[s.mp]
  PROVE  /\ Core(t) /\ Kin(t) /\ Waits(t, {}) /\ Held(t, {}) /\ Masked(t, {s.mp}) /\ Alive(t, s.mp)
         /\ \A x \in Slot : (Used(t, x) <=> Used(s, x)) /\ (Alive(t, x) <=> Alive(s, x))
<1> DEFINE p == s.mp
<1>0. s \in Table /\ p \in User /\ p \in Slot /\ Alive(s, p) BY ServingFacts
<1>1. Booked(s) /\ Names(s) /\ Kin(s) /\ Waits(s, {}) /\ Held(s, {}) /\ Masked(s, {})
  BY DEF Serving, Sound, Core
<1>2. t \in Table BY DEF Calm
<1>3. Calm(s, t, p) /\ SameElse(s, t, p) /\ SameMasks(s, t, p) /\ HeldAt(t, p) /\ "WAITING" \notin t.flags[p]
  OBVIOUS
<1> HIDE DEF p
<1>4. /\ Booked(t) /\ Names(t) /\ Kin(t) /\ Waits(t, {})
      /\ \A x \in Slot : (Used(t, x) <=> Used(s, x)) /\ (Alive(t, x) <=> Alive(s, x))
  BY <1>0, <1>1, <1>3, CalmOk
<1>5. Held(t, {}) BY <1>1, <1>3, ElseHeld DEF Held
<1>6. Masked(t, {p}) BY <1>1, <1>3, ElseMasked DEF Masked
<1> QED BY <1>0, <1>2, <1>4, <1>5, <1>6 DEF Core, p

\* PAUSE: the caller is suspended.
LEMMA PauseOk ==
  ASSUME NEW s, Serving(s)
  PROVE  Served(s, do_pause(s))
<1> DEFINE p == s.mp
           f == [s.flags EXCEPT ![p] = @ \cup {"PAUSED"}]
           t == do_pause(s)
<1>0. /\ s \in Table /\ p \in User /\ p \in Slot /\ Alive(s, p) /\ Owed(s, p) /\ Idle(s.flags[p])
      /\ p \in s.blocked /\ p \notin s.posted /\ MaskedAt(s, p)
  BY ServingFacts
<1>1. t = [s EXCEPT !.flags = f, !.dont_reply = TRUE] BY DEF do_pause
<1>2. /\ f \in [Slot -> SUBSET MFlag] /\ f[p] = s.flags[p] \cup {"PAUSED"}
      /\ \A x \in Slot \ {p} : f[x] = s.flags[x]
  BY <1>0, Fields DEF MFlag
<1> HIDE DEF f, t
<1>3. t \in Table /\ t.flags = f /\ t.dont_reply /\ t.frames = s.frames /\ SameSig(s, t)
  BY <1>0, <1>1, <1>2 DEF Table, SameSig
<1>4. /\ SameNames(s, t) /\ t.parent = s.parent /\ t.told = s.told
      /\ t.procs_in_use = s.procs_in_use /\ t.panic = s.panic
      /\ t.stray = s.stray /\ t.posted = s.posted /\ t.timer = s.timer /\ t.blocked = s.blocked
      /\ t.p_stop = s.p_stop /\ t.ksig = s.ksig /\ t.unended = s.unended
  BY <1>0, <1>1, <1>2 DEF Table, SameNames
<1>5. s.who = p /\ p = s.mp BY DEF Serving
<1> HIDE DEF p
<1>6. Calm(s, t, p) BY <1>2, <1>3, <1>4 DEF Calm
<1>7. SameElse(s, t, p) BY <1>2, <1>3, <1>4, <1>5, SlotFacts DEF SameElse, SameNames
<1>8. SameMasks(s, t, p) BY <1>2, <1>3, <1>4, SlotFacts DEF SameMasks, SameSig
<1>9. HeldAt(t, p) /\ "WAITING" \notin t.flags[p]
  BY <1>0, <1>2, <1>3, <1>4 DEF HeldAt, Idle, Asleep, Owed, Alive, SameNames
<1>10. Pledged(t) BY <1>3, <1>4 DEF Serving, Sound, Core, Pledged, SameNames, SameSig
<1>11. /\ Core(t) /\ Kin(t) /\ Waits(t, {}) /\ Held(t, {}) /\ Masked(t, {p}) /\ Alive(t, p)
       /\ \A x \in Slot : (Used(t, x) <=> Used(s, x)) /\ (Alive(t, x) <=> Alive(s, x))
  BY <1>5, <1>6, <1>7, <1>8, <1>9, <1>10, OwnCallOk
<1>12. MaskedAt(t, p)
  BY <1>0, <1>2, <1>3, <1>4 DEF MaskedAt, MaskOK, PendOK, Alive, SameSig
<1>13. Sound(t) BY <1>11, <1>12 DEF Sound, Masked
<1>14. Fades(s, t) BY <1>0, <1>2, <1>3, <1>4, <1>9, <1>11 DEF Fades, Wanes, Dims
<1> QED BY <1>0, <1>13, <1>14, FadesServed DEF t

\* SIGACTION.
LEMMA SigactionOk ==
  ASSUME NEW s, Serving(s), "SIGACTION" \in Calls, NEW sig \in Sig, NEW handler, NEW act \in SigActs
  PROVE  Served(s, do_sigaction(s, sig, handler, act))
<1> DEFINE p == s.mp
           ig == [s.ignore EXCEPT ![p] = IF handler = "SIG_IGN" THEN @ \cup {sig} ELSE @ \ {sig}]
           sp == [s.sigpending EXCEPT ![p] = IF handler = "SIG_IGN" THEN @ \ {sig} ELSE @]
           ca == [s.catch EXCEPT ![p] = IF handler = "catch" THEN @ \cup {sig} ELSE @ \ {sig}]
           one == [s.sigact[p] EXCEPT ![sig] = act]
           sa == [s.sigact EXCEPT ![p] = one]
           t == do_sigaction(s, sig, handler, act)
<1>0. /\ s \in Table /\ p \in User /\ p \in Slot /\ Alive(s, p) /\ Owed(s, p) /\ Idle(s.flags[p])
      /\ p \in s.blocked /\ p \notin s.posted /\ MaskedAt(s, p)
  BY ServingFacts
<1>1. CASE sig = SIGKILL
  <2>1. t = s BY <1>1 DEF do_sigaction
  <2>2. Sound(s) /\ After(s, s) BY AfterSame DEF Serving
  <2> QED BY <1>0, <2>1, <2>2, FadesServed DEF After
<1>2. CASE sig # SIGKILL
  <2>1. t = [s EXCEPT !.ignore = ig, !.sigpending = sp, !.catch = ca, !.sigact = sa]
    <3>1. t = [s EXCEPT !.ignore[p] = IF handler = "SIG_IGN" THEN @ \cup {sig} ELSE @ \ {sig},
                        !.sigpending[p] = IF handler = "SIG_IGN" THEN @ \ {sig} ELSE @,
                        !.catch[p] = IF handler = "catch" THEN @ \cup {sig} ELSE @ \ {sig},
                        !.sigact[p][sig] = act]
      BY <1>2 DEF do_sigaction
    <3> HIDE DEF t
    <3> QED BY <3>1
  <2>2. ig \in [User -> Mask] /\ sp \in [User -> Mask] /\ ca \in [User -> Mask]
    <3>1. /\ s.ignore \in [User -> Mask] /\ s.sigpending \in [User -> Mask] /\ s.catch \in [User -> Mask]
      BY <1>0, SigFields
    <3>2. \A x \in Mask : x \cup {sig} \in Mask /\ x \ {sig} \in Mask BY <1>2 DEF Mask
    <3> QED BY <1>0, <3>1, <3>2
  <2>3. sa \in [User -> [Sig -> [mask : Mask, flags : SUBSET {"SA_NODEFER", "SA_RESETHAND"}]]]
    <3> DEFINE A == [mask : Mask, flags : SUBSET {"SA_NODEFER", "SA_RESETHAND"}]
    <3>1. s.sigact \in [User -> [Sig -> A]] BY <1>0, SigFields
    <3>2. act \in A BY ActsAssumption DEF Mask
    <3> HIDE DEF A
    <3>3. one \in [Sig -> A] BY <1>0, <3>1, <3>2
    <3> HIDE DEF one
    <3>4. sa \in [User -> [Sig -> A]] BY <1>0, <3>1, <3>3
    <3> QED BY <3>4 DEF A
  <2>4. /\ ig[p] = (IF handler = "SIG_IGN" THEN s.ignore[p] \cup {sig} ELSE s.ignore[p] \ {sig})
        /\ sp[p] = (IF handler = "SIG_IGN" THEN s.sigpending[p] \ {sig} ELSE s.sigpending[p])
        /\ \A x \in User \ {p} : ig[x] = s.ignore[x] /\ sp[x] = s.sigpending[x]
    BY <1>0, SigFields
  <2> HIDE DEF ig, sp, ca, sa, t
  <2>5. /\ t \in Table /\ t.ignore = ig /\ t.sigpending = sp /\ t.flags = s.flags /\ t.frames = s.frames
        /\ t.own = s.own /\ t.sigmask = s.sigmask /\ t.sigmask2 = s.sigmask2
    BY <1>0, <2>1, <2>2, <2>3 DEF Table
  <2>6. /\ SameNames(s, t) /\ t.parent = s.parent /\ t.told = s.told /\ t.dont_reply = s.dont_reply
        /\ t.procs_in_use = s.procs_in_use /\ t.panic = s.panic
        /\ t.stray = s.stray /\ t.posted = s.posted /\ t.timer = s.timer /\ t.blocked = s.blocked
        /\ t.p_stop = s.p_stop /\ t.ksig = s.ksig /\ t.unended = s.unended
    BY <1>0, <2>1, <2>2, <2>3 DEF Table, SameNames
  <2>7. s.who = p /\ p = s.mp BY DEF Serving
  <2> HIDE DEF p
  <2>8. Calm(s, t, p) BY <2>5, <2>6 DEF Calm
  <2>9. SameElse(s, t, p) BY <2>5, <2>6 DEF SameElse, SameNames
  <2>10. SameMasks(s, t, p) BY <2>4, <2>5 DEF SameMasks
  <2>11. HeldAt(t, p) /\ "WAITING" \notin t.flags[p]
    BY <1>0, <2>5, <2>6 DEF HeldAt, Idle, Owed, Alive, SameNames
  <2>12. Pledged(t) BY <2>6 DEF Serving, Sound, Core, Pledged, SameNames
  <2>13. /\ Core(t) /\ Kin(t) /\ Waits(t, {}) /\ Held(t, {}) /\ Masked(t, {p}) /\ Alive(t, p)
         /\ \A x \in Slot : (Used(t, x) <=> Used(s, x)) /\ (Alive(t, x) <=> Alive(s, x))
    BY <2>7, <2>8, <2>9, <2>10, <2>11, <2>12, OwnCallOk
  <2>14. MaskedAt(t, p)
    BY <1>0, <2>4, <2>5 DEF MaskedAt, MaskOK, PendOK, Alive
  <2>15. Sound(t) BY <2>13, <2>14 DEF Sound, Masked
  <2>16. Fades(s, t) BY <2>5, <2>6, <2>13 DEF Fades, Wanes, Dims
  <2> QED BY <1>0, <2>15, <2>16, FadesServed DEF t
<1> QED BY <1>1, <1>2

\* SIGSUSPEND: the old mask is kept for the return, and what is open is delivered.
LEMMA SigsuspendOk ==
  ASSUME NEW s, Serving(s), s.mp # INIT_PROC_NR, "SIGSUSPEND" \in Calls, NEW mask \in Masks, NEW full
  PROVE  Served(s, do_sigsuspend(s, mask, full))
<1> DEFINE p == s.mp
           s2 == [s.sigmask2 EXCEPT ![p] = s.sigmask[p]]
           s1 == [s.sigmask EXCEPT ![p] = mask]
           f == [s.flags EXCEPT ![p] = @ \cup {"SIGSUSPENDED"}]
           t == [s EXCEPT !.sigmask2 = s2, !.sigmask = s1, !.flags = f, !.dont_reply = TRUE]
           w == do_sigsuspend(s, mask, full)
<1>0. /\ s \in Table /\ p \in User /\ p \in Slot /\ Alive(s, p) /\ Owed(s, p) /\ Idle(s.flags[p])
      /\ p \in s.blocked /\ p \notin s.posted /\ MaskedAt(s, p)
  BY ServingFacts
<1>1. w = check_pending(t, full) BY DEF do_sigsuspend
<1>2. /\ s2 \in [User -> Mask] /\ s1 \in [User -> Mask] /\ f \in [Slot -> SUBSET MFlag]
      /\ s2[p] = s.sigmask[p] /\ s1[p] = mask /\ f[p] = s.flags[p] \cup {"SIGSUSPENDED"}
      /\ \A x \in User \ {p} : s2[x] = s.sigmask2[x] /\ s1[x] = s.sigmask[x]
      /\ \A x \in Slot \ {p} : f[x] = s.flags[x]
  <2>1. mask \in Mask BY MasksAssumption DEF Mask
  <2>2. s2 \in [User -> Mask] /\ s1 \in [User -> Mask] BY <1>0, <2>1, SigFields
  <2>3. f \in [Slot -> SUBSET MFlag] BY <1>0, Fields DEF MFlag
  <2> QED BY <1>0, <2>2, <2>3, SigFields, Fields
<1>3. t = [s EXCEPT !.sigmask2 = s2, !.sigmask = s1, !.flags = f, !.dont_reply = TRUE] OBVIOUS
<1> HIDE DEF s2, s1, f, t, w
<1>4. /\ t \in Table /\ t.sigmask2 = s2 /\ t.sigmask = s1 /\ t.flags = f /\ t.dont_reply
      /\ t.ignore = s.ignore /\ t.catch = s.catch /\ t.sigpending = s.sigpending /\ t.frames = s.frames
      /\ t.own = s.own
  BY <1>0, <1>2, <1>3 DEF Table
<1>5. /\ SameNames(s, t) /\ t.parent = s.parent /\ t.told = s.told
      /\ t.procs_in_use = s.procs_in_use /\ t.panic = s.panic
      /\ t.stray = s.stray /\ t.posted = s.posted /\ t.timer = s.timer /\ t.blocked = s.blocked
      /\ t.p_stop = s.p_stop /\ t.ksig = s.ksig /\ t.unended = s.unended
  BY <1>0, <1>2, <1>3 DEF Table, SameNames
<1>6. s.who = p /\ p = s.mp /\ t.mp = p /\ p # INIT_PROC_NR BY <1>5 DEF Serving, SameNames
<1> HIDE DEF p
<1>7. Calm(s, t, p) BY <1>2, <1>4, <1>5 DEF Calm
<1>8. SameElse(s, t, p) BY <1>2, <1>4, <1>5, <1>6, SlotFacts DEF SameElse, SameNames
<1>9. SameMasks(s, t, p) BY <1>2, <1>4, SlotFacts DEF SameMasks
<1>10. HeldAt(t, p) /\ "WAITING" \notin t.flags[p]
  BY <1>0, <1>2, <1>4, <1>5 DEF HeldAt, Idle, Asleep, Owed, Alive, SameNames
<1>11. Pledged(t) BY <1>5 DEF Serving, Sound, Core, Pledged, SameNames
<1>12. /\ Core(t) /\ Kin(t) /\ Waits(t, {}) /\ Held(t, {}) /\ Masked(t, {p}) /\ Alive(t, p)
       /\ \A x \in Slot : (Used(t, x) <=> Used(s, x)) /\ (Alive(t, x) <=> Alive(s, x))
  BY <1>6, <1>7, <1>8, <1>9, <1>10, <1>11, OwnCallOk
<1>13. MaskOK(t, p) /\ t.sigpending[p] \cap t.ignore[p] = {}
  BY <1>0, <1>2, <1>4 DEF MaskedAt, MaskOK, Idle
<1>14. Fades(s, t) BY <1>0, <1>2, <1>4, <1>5, <1>10, <1>12 DEF Fades, Wanes, Dims
<1>15. After(t, w) BY <1>0, <1>1, <1>6, <1>12, <1>13, CheckPendingOk
<1>16. Fades(s, w) BY <1>14, <1>15, FadesTrans DEF After
<1> QED BY <1>0, <1>15, <1>16, FadesServed DEF After, w

\* SIGPROCMASK: a new mask, and what is open is delivered.
LEMMA SigprocmaskOk ==
  ASSUME NEW s, Serving(s), s.mp # INIT_PROC_NR, "SIGPROCMASK" \in Calls, NEW set \in Masks, NEW full,
         NEW how \in {"SIG_BLOCK", "SIG_UNBLOCK", "SIG_SETMASK"}
  PROVE  Served(s, do_sigprocmask(s, how, set, full))
<1> DEFINE p == s.mp
           mask == CASE how = "SIG_BLOCK"   -> s.sigmask[p] \cup set
                     [] how = "SIG_UNBLOCK" -> s.sigmask[p] \ set
                     [] how = "SIG_SETMASK" -> set
           s1 == [s.sigmask EXCEPT ![p] = mask]
           ow == [s.own EXCEPT ![p] = IF s.frames[p] = << >> THEN mask ELSE @]
           t == [s EXCEPT !.sigmask[p] = mask, !.own[p] = IF s.frames[p] = << >> THEN mask ELSE @]
           w == do_sigprocmask(s, how, set, full)
<1>0. /\ s \in Table /\ p \in User /\ p \in Slot /\ Alive(s, p) /\ Owed(s, p) /\ Idle(s.flags[p])
      /\ p \in s.blocked /\ p \notin s.posted /\ MaskedAt(s, p)
  BY ServingFacts
<1>1. w = IF how = "SIG_BLOCK" THEN t ELSE check_pending(t, full) BY Zenon DEF do_sigprocmask
<1>a. mask \in Mask /\ (how = "SIG_BLOCK" => s.sigmask[p] \subseteq mask)
  <2>1. set \in Mask /\ s.sigmask[p] \in Mask BY <1>0, SigFields, MasksAssumption DEF Mask
  <2> QED BY <2>1 DEF Mask
<1> HIDE DEF mask
<1>2. /\ s1 \in [User -> Mask] /\ ow \in [User -> Mask]
      /\ s1[p] = mask /\ ow[p] = (IF s.frames[p] = << >> THEN mask ELSE s.own[p])
      /\ \A x \in User \ {p} : s1[x] = s.sigmask[x] /\ ow[x] = s.own[x]
  BY <1>0, <1>a, SigFields
<1>3. t = [s EXCEPT !.sigmask = s1, !.own = ow] OBVIOUS
<1> HIDE DEF s1, ow, t, w
<1>4. /\ t \in Table /\ t.sigmask = s1 /\ t.own = ow /\ t.flags = s.flags /\ t.dont_reply = s.dont_reply
      /\ t.ignore = s.ignore /\ t.catch = s.catch /\ t.sigpending = s.sigpending /\ t.frames = s.frames
      /\ t.sigmask2 = s.sigmask2
  BY <1>0, <1>2, <1>3 DEF Table
<1>5. /\ SameNames(s, t) /\ t.parent = s.parent /\ t.told = s.told
      /\ t.procs_in_use = s.procs_in_use /\ t.panic = s.panic
      /\ t.stray = s.stray /\ t.posted = s.posted /\ t.timer = s.timer /\ t.blocked = s.blocked
      /\ t.p_stop = s.p_stop /\ t.ksig = s.ksig /\ t.unended = s.unended
  BY <1>0, <1>2, <1>3 DEF Table, SameNames
<1>6. s.who = p /\ p = s.mp /\ t.mp = p /\ p # INIT_PROC_NR BY <1>5 DEF Serving, SameNames
<1> HIDE DEF p
<1>7. Calm(s, t, p) BY <1>4, <1>5 DEF Calm
<1>8. SameElse(s, t, p) BY <1>4, <1>5, <1>6 DEF SameElse, SameNames
<1>9. SameMasks(s, t, p) BY <1>2, <1>4 DEF SameMasks
<1>10. HeldAt(t, p) /\ "WAITING" \notin t.flags[p]
  BY <1>0, <1>4, <1>5 DEF HeldAt, Idle, Owed, Alive, SameNames
<1>11. Pledged(t) BY <1>5 DEF Serving, Sound, Core, Pledged, SameNames
<1>12. /\ Core(t) /\ Kin(t) /\ Waits(t, {}) /\ Held(t, {}) /\ Masked(t, {p}) /\ Alive(t, p)
       /\ \A x \in Slot : (Used(t, x) <=> Used(s, x)) /\ (Alive(t, x) <=> Alive(s, x))
  BY <1>6, <1>7, <1>8, <1>9, <1>10, <1>11, OwnCallOk
<1>13. MaskOK(t, p) /\ t.sigpending[p] \cap t.ignore[p] = {}
  BY <1>0, <1>2, <1>4 DEF MaskedAt, MaskOK, Idle
<1>14. Fades(s, t) BY <1>4, <1>5, <1>12 DEF Fades, Wanes, Dims
<1>15. CASE how = "SIG_BLOCK"
  <2>1. MaskedAt(t, p) BY <1>0, <1>2, <1>4, <1>a, <1>13, <1>15 DEF MaskedAt, PendOK
  <2>2. Sound(t) BY <1>12, <2>1 DEF Sound, Masked
  <2> QED BY <1>0, <1>1, <1>14, <1>15, <2>2, FadesServed DEF w
<1>16. CASE how # "SIG_BLOCK"
  <2>1. After(t, w) BY <1>0, <1>1, <1>6, <1>12, <1>13, <1>16, CheckPendingOk
  <2>2. Fades(s, w) BY <1>14, <2>1, FadesTrans DEF After
  <2> QED BY <1>0, <2>1, <2>2, FadesServed DEF After, w
<1> QED BY <1>15, <1>16

\* SIGRETURN: the mask comes from the frame, and what is open is delivered.
LEMMA SigreturnOk ==
  ASSUME NEW s, Serving(s), s.mp # INIT_PROC_NR, s.frames[s.mp] # << >>, NEW full
  PROVE  Served(s, do_sigreturn(s, full))
<1> DEFINE p == s.mp
           mask == Head(s.frames[p])
           s1 == [s.sigmask EXCEPT ![p] = mask \ {SIGKILL}]
           fr == [s.frames EXCEPT ![p] = Tail(@)]
           t == [s EXCEPT !.sigmask = s1, !.frames = fr]
           w == do_sigreturn(s, full)
<1>0. /\ s \in Table /\ p \in User /\ p \in Slot /\ Alive(s, p) /\ Owed(s, p) /\ Idle(s.flags[p])
      /\ p \in s.blocked /\ p \notin s.posted /\ MaskedAt(s, p)
  BY ServingFacts
<1>1. w = check_pending(t, full) BY DEF do_sigreturn
<1>a. s.frames \in [User -> Seq(Mask)] /\ s.frames[p] \in Seq(Mask) /\ s.frames[p] # << >>
  BY <1>0, SigFields
<1>b. mask \in Mask /\ mask \ {SIGKILL} = mask /\ Tail(s.frames[p]) \in Seq(Mask)
  <2>1. mask \in Mask /\ Tail(s.frames[p]) \in Seq(Mask) BY <1>a
  <2> QED BY <2>1 DEF Mask
<1>c. s.own[p] = IF Tail(s.frames[p]) # << >> THEN Tail(s.frames[p])[Len(Tail(s.frames[p]))] ELSE mask
  <2> DEFINE q == s.frames[p]
  <2>1. s.own[p] = q[Len(q)] BY <1>0, <1>a DEF MaskedAt, MaskOK
  <2>2. q \in Seq(Mask) /\ q # << >> BY <1>a
  <2> HIDE DEF q
  <2>3. q[Len(q)] = IF Tail(q) # << >> THEN Tail(q)[Len(Tail(q))] ELSE Head(q)
    <3>1. Len(q) \in Nat /\ Len(q) > 0 /\ Len(Tail(q)) = Len(q) - 1 /\ Head(q) = q[1] BY <2>2
    <3>2. CASE Tail(q) = << >>
      <4> DEFINE r == Tail(q)
      <4>3. r = << >> BY <3>2
      <4> HIDE DEF r
      <4>4. Len(r) = 0 BY <4>3
      <4>1. Len(Tail(q)) = 0 BY <4>4 DEF r
      <4>2. Len(q) = 1 BY <3>1, <4>1
      <4> QED BY <3>1, <3>2, <4>2
    <3>3. CASE Tail(q) # << >>
      <4>1. Tail(q) \in Seq(Mask) BY <2>2
      <4>2. Len(Tail(q)) > 0 BY <3>3, <4>1
      <4>3. Tail(q)[Len(Tail(q))] = q[Len(Tail(q)) + 1] BY <2>2, <3>1, <4>2
      <4> QED BY <3>1, <3>3, <4>3
    <3> QED BY <3>2, <3>3
  <2> QED BY <2>1, <2>3 DEF q
<1> HIDE DEF mask
<1>2. /\ s1 \in [User -> Mask] /\ fr \in [User -> Seq(Mask)]
      /\ s1[p] = mask /\ fr[p] = Tail(s.frames[p])
      /\ \A x \in User \ {p} : s1[x] = s.sigmask[x] /\ fr[x] = s.frames[x]
  BY <1>0, <1>a, <1>b, SigFields
<1>3. t = [s EXCEPT !.sigmask = s1, !.frames = fr] OBVIOUS
<1> HIDE DEF s1, fr, t, w
<1>4. /\ t \in Table /\ t.sigmask = s1 /\ t.frames = fr /\ t.flags = s.flags /\ t.dont_reply = s.dont_reply
      /\ t.ignore = s.ignore /\ t.catch = s.catch /\ t.sigpending = s.sigpending /\ t.own = s.own
      /\ t.sigmask2 = s.sigmask2
  BY <1>0, <1>2, <1>3 DEF Table
<1>5. /\ SameNames(s, t) /\ t.parent = s.parent /\ t.told = s.told
      /\ t.procs_in_use = s.procs_in_use /\ t.panic = s.panic
      /\ t.stray = s.stray /\ t.posted = s.posted /\ t.timer = s.timer /\ t.blocked = s.blocked
      /\ t.p_stop = s.p_stop /\ t.ksig = s.ksig /\ t.unended = s.unended
  BY <1>0, <1>2, <1>3 DEF Table, SameNames
<1>6. s.who = p /\ p = s.mp /\ t.mp = p /\ p # INIT_PROC_NR BY <1>5 DEF Serving, SameNames
<1> HIDE DEF p
<1>7. Calm(s, t, p) BY <1>4, <1>5 DEF Calm
<1>8. SameElse(s, t, p) BY <1>4, <1>5, <1>6 DEF SameElse, SameNames
<1>9. SameMasks(s, t, p) BY <1>2, <1>4 DEF SameMasks
<1>10. HeldAt(t, p) /\ "WAITING" \notin t.flags[p]
  BY <1>0, <1>4, <1>5 DEF HeldAt, Idle, Owed, Alive, SameNames
<1>11. Pledged(t) BY <1>5 DEF Serving, Sound, Core, Pledged, SameNames
<1>12. /\ Core(t) /\ Kin(t) /\ Waits(t, {}) /\ Held(t, {}) /\ Masked(t, {p}) /\ Alive(t, p)
       /\ \A x \in Slot : (Used(t, x) <=> Used(s, x)) /\ (Alive(t, x) <=> Alive(s, x))
  BY <1>6, <1>7, <1>8, <1>9, <1>10, <1>11, OwnCallOk
<1>13. MaskOK(t, p) /\ t.sigpending[p] \cap t.ignore[p] = {}
  BY <1>0, <1>2, <1>4, <1>c DEF MaskedAt, MaskOK, Idle
<1>14. Fades(s, t) BY <1>4, <1>5, <1>12 DEF Fades, Wanes, Dims
<1>15. After(t, w) BY <1>0, <1>1, <1>6, <1>12, <1>13, CheckPendingOk
<1>16. Fades(s, w) BY <1>14, <1>15, FadesTrans DEF After
<1> QED BY <1>0, <1>15, <1>16, FadesServed DEF After, w

\* ALARM: MM and the clock task agree.
LEMMA AlarmOk ==
  ASSUME NEW s, Serving(s), s.mp # INIT_PROC_NR, "ALARM" \in Calls, NEW on \in BOOLEAN
  PROVE  Served(s, do_alarm(s, on))
<1> DEFINE p == s.mp
           f == [s.flags EXCEPT ![p] = IF on THEN @ \cup {"ALARM_ON"} ELSE @ \ {"ALARM_ON"}]
           ti == IF on THEN s.timer \cup {p} ELSE s.timer \ {p}
           t == do_alarm(s, on)
<1>0. /\ s \in Table /\ p \in User /\ p \in Slot /\ Alive(s, p) /\ Owed(s, p) /\ Idle(s.flags[p])
      /\ p \in s.blocked /\ p \notin s.posted /\ MaskedAt(s, p)
  BY ServingFacts
<1>1. t = [s EXCEPT !.flags = f, !.timer = ti] BY DEF do_alarm, set_alarm
<1>2. /\ f \in [Slot -> SUBSET MFlag] /\ ti \in SUBSET User
      /\ \A x \in Slot \ {p} : f[x] = s.flags[x]
      /\ \A x \in MFlag \ {"ALARM_ON"} : x \in f[p] <=> x \in s.flags[p]
      /\ (on <=> "ALARM_ON" \in f[p]) /\ (on <=> p \in ti)
      /\ \A x \in User \ {p} : x \in ti <=> x \in s.timer
  BY <1>0, Fields DEF MFlag
<1> HIDE DEF f, ti, t
<1>3. t \in Table /\ t.flags = f /\ t.timer = ti /\ t.dont_reply = s.dont_reply /\ t.frames = s.frames /\ SameSig(s, t)
  BY <1>0, <1>1, <1>2 DEF Table, SameSig
<1>4. /\ SameNames(s, t) /\ t.parent = s.parent /\ t.told = s.told
      /\ t.procs_in_use = s.procs_in_use /\ t.panic = s.panic
      /\ t.stray = s.stray /\ t.posted = s.posted /\ t.blocked = s.blocked
      /\ t.p_stop = s.p_stop /\ t.ksig = s.ksig /\ t.unended = s.unended
  BY <1>0, <1>1, <1>2 DEF Table, SameNames
<1>5. s.who = p /\ p = s.mp /\ p # INIT_PROC_NR BY DEF Serving
<1> HIDE DEF p
<1>6. Calm(s, t, p) BY <1>2, <1>3, <1>4 DEF Calm, MFlag
<1>7. SameElse(s, t, p) BY <1>2, <1>3, <1>4, <1>5, SlotFacts DEF SameElse, SameNames
<1>8. SameMasks(s, t, p) BY <1>2, <1>3, <1>4, SlotFacts DEF SameMasks, SameSig
<1>9. HeldAt(t, p) /\ "WAITING" \notin t.flags[p]
  <2>1. Idle(t.flags[p]) /\ Alive(t, p) BY <1>0, <1>2, <1>3 DEF Idle, MFlag, Alive
  <2>2. Owed(t, p) BY <1>0, <1>3, <1>4 DEF Owed, SameNames
  <2> QED BY <1>0, <1>4, <2>1, <2>2 DEF HeldAt, Idle
<1>10. Pledged(t)
  <2>1. INIT_PROC_NR \notin t.timer
    BY <1>2, <1>3, <1>5, SlotFacts DEF Serving, Sound, Core, Pledged
  <2> QED BY <1>3, <1>4, <2>1 DEF Serving, Sound, Core, Pledged, SameNames, SameSig
<1>11. /\ Core(t) /\ Kin(t) /\ Waits(t, {}) /\ Held(t, {}) /\ Masked(t, {p}) /\ Alive(t, p)
       /\ \A x \in Slot : (Used(t, x) <=> Used(s, x)) /\ (Alive(t, x) <=> Alive(s, x))
  BY <1>5, <1>6, <1>7, <1>8, <1>9, <1>10, OwnCallOk
<1>12. MaskedAt(t, p)
  <2>1. "SIGSUSPENDED" \in t.flags[p] <=> "SIGSUSPENDED" \in s.flags[p] BY <1>2, <1>3 DEF MFlag
  <2> QED BY <1>0, <1>3, <2>1 DEF MaskedAt, MaskOK, PendOK, SameSig
<1>13. Sound(t) BY <1>11, <1>12 DEF Sound, Masked
<1>14. Alarmed(s) => Alarmed(t)
  <2>1. \A x \in t.timer : x \in User /\ x \in Slot BY <1>2, <1>3, SlotFacts
  <2> QED BY <1>2, <1>3, <2>1 DEF Alarmed
<1> QED BY <1>4, <1>13, <1>14 DEF Served, News, SameNames, t

\* SETSID: the caller leads a group of its own, whose number nobody else has.
LEMMA SetsidOk ==
  ASSUME NEW s, Serving(s), s.mp # INIT_PROC_NR
  PROVE  Served(s, do_setsid(s))
<1> DEFINE p == s.mp
           g == [s.procgrp EXCEPT ![p] = s.pid[p]]
           t == do_setsid(s)
<1>0. /\ s \in Table /\ p \in User /\ p \in Slot /\ Alive(s, p) /\ p # INIT_PROC_NR /\ User \subseteq Slot
  BY ServingFacts, SlotFacts
<1>1. t = [s EXCEPT !.procgrp = g] BY DEF do_setsid
<1>2. g \in [Slot -> Pid] /\ g[p] = s.pid[p] /\ \A x \in Slot \ {p} : g[x] = s.procgrp[x]
  BY <1>0, Fields
<1> HIDE DEF g, t
<1>3. t \in Table /\ t.procgrp = g /\ t.flags = s.flags /\ t.timer = s.timer /\ t.dont_reply = s.dont_reply
      /\ t.frames = s.frames /\ SameSig(s, t)
  BY <1>0, <1>1, <1>2 DEF Table, SameSig
<1>4. /\ t.pid = s.pid /\ t.wpid = s.wpid /\ t.who = s.who /\ t.mp = s.mp
      /\ t.parent = s.parent /\ t.told = s.told
      /\ t.procs_in_use = s.procs_in_use /\ t.panic = s.panic
      /\ t.stray = s.stray /\ t.posted = s.posted /\ t.blocked = s.blocked
      /\ t.p_stop = s.p_stop /\ t.ksig = s.ksig /\ t.unended = s.unended
  BY <1>0, <1>1, <1>2 DEF Table
<1> HIDE DEF p
<1>5. \A x : (Used(t, x) <=> Used(s, x)) /\ (Alive(t, x) <=> Alive(s, x)) BY <1>3 DEF Used, Alive
<1>6. Booked(s) /\ Names(s) /\ Pledged(s) /\ Kin(s) /\ Waits(s, {}) /\ Held(s, {}) /\ Masked(s, {})
  BY DEF Serving, Sound, Core
<1>7. Booked(t) BY <1>3, <1>4, <1>5, <1>6 DEF Booked
<1>8. Names(t)
  <2>1. \A x \in 1 .. 2 : t.procgrp[x] = 0
    <3>1. \A x \in 1 .. 2 : x \in Slot /\ x # p BY <1>0, SlotFacts DEF INIT_PROC_NR
    <3> QED BY <1>2, <1>3, <1>6, <3>1 DEF Names
  <2>2. ASSUME NEW x \in User, NEW y \in User, x # y, Used(t, x), Used(t, y)
        PROVE  /\ t.pid[x] # t.pid[y]
               /\ t.pid[x] = t.procgrp[y] => t.procgrp[x] = t.pid[x]
    <3>1. /\ s.pid[x] # s.pid[y]
          /\ s.pid[x] = s.procgrp[y] => s.procgrp[x] = s.pid[x]
      BY <1>5, <1>6, <2>2 DEF Names
    <3> QED BY <1>0, <1>2, <1>3, <1>4, <3>1
  <2> QED BY <1>4, <1>5, <1>6, <2>1, <2>2 DEF Names
<1>9. Pledged(t)
  <2>1. ASSUME NEW x \in User, SIGINT \in t.ksig[x] PROVE t.procgrp[x] = t.pid[x]
    BY <1>0, <1>2, <1>3, <1>4, <1>6, <2>1 DEF Pledged
  <2> QED BY <1>3, <1>4, <1>6, <2>1 DEF Pledged, SameSig
<1>10. Kin(t) BY <1>4, <1>5, <1>6 DEF Kin, Family
<1>11. Waits(t, {})
  <2> SUFFICES ASSUME NEW x \in User, "WAITING" \in t.flags[x], Alive(t, x)
               PROVE  /\ x = INIT_PROC_NR => t.wpid[x] = -1
                      /\ "own group" \notin WaitKinds =>
                           /\ t.wpid[x] # 0
                           /\ \A y \in User : Child(t, x, y) => "HANGING" \notin t.flags[y]
    BY DEF Waits
  <2>1. /\ x = INIT_PROC_NR => s.wpid[x] = -1
        /\ "own group" \notin WaitKinds =>
             /\ s.wpid[x] # 0
             /\ \A y \in User : Child(s, x, y) => "HANGING" \notin s.flags[y]
    BY <1>3, <1>5, <1>6 DEF Waits
  <2>2. ASSUME NEW y \in User, Child(t, x, y), y # p PROVE Child(s, x, y)
    BY <1>0, <1>2, <1>3, <1>4, <1>5, <2>2 DEF Child
  <2>3. "HANGING" \notin t.flags[p] BY <1>0, <1>3 DEF Alive
  <2> QED BY <1>3, <1>4, <2>1, <2>2, <2>3
<1>12. Held(t, {}) BY <1>3, <1>4, <1>5, <1>6 DEF Held, HeldAt, Gone, Owed
<1>13. Masked(t, {}) BY <1>3, <1>5, <1>6 DEF Masked, MaskedAt, MaskOK, PendOK, SameSig
<1>14. Sound(t) BY <1>3, <1>7, <1>8, <1>9, <1>10, <1>11, <1>12, <1>13 DEF Sound, Core
<1> QED BY <1>3, <1>4, <1>14 DEF Served, News, Alarmed, t

\* EXEC: the new program begins without an answer, alarm, handlers and frames.
LEMMA ExecOk ==
  ASSUME NEW s, Serving(s), "EXEC" \in Calls
  PROVE  Served(s, do_exec(s))
<1> DEFINE p == s.mp
           ca == [s.catch EXCEPT ![p] = {}]
           bl == s.blocked \ {p}
           one == [x \in Sig |-> IF x \in s.catch[p] THEN [mask |-> {}, flags |-> s.sigact[p][x].flags]
                                 ELSE s.sigact[p][x]]
           sa == [s.sigact EXCEPT ![p] = one]
           fr == [s.frames EXCEPT ![p] = << >>]
           ti == s.timer \ {p}
           ow == [s.own EXCEPT ![p] = s.sigmask[p]]
           t == do_exec(s)
<1>0. /\ s \in Table /\ p \in User /\ p \in Slot /\ Alive(s, p) /\ Owed(s, p) /\ Idle(s.flags[p])
      /\ p \in s.blocked /\ p \notin s.posted /\ MaskedAt(s, p) /\ "TRACED" \notin s.flags[p]
  BY ServingFacts DEF Serving, Sound, Core, Booked
<1>1. t = [s EXCEPT !.catch = ca, !.blocked = bl, !.dont_reply = TRUE, !.sigact = sa, !.frames = fr,
                    !.timer = ti, !.own = ow]
  <2> DEFINE ks == [s.ksig EXCEPT ![p] = IF "TRACED" \in s.flags[p] THEN @ \cup {SIGTRAP} ELSE @]
  <2>1. t = [s EXCEPT !.catch = ca, !.blocked = bl, !.dont_reply = TRUE, !.sigact = sa, !.frames = fr,
                      !.timer = ti, !.own = ow, !.ksig = ks]
    BY DEF do_exec
  <2>2. ks = s.ksig BY <1>0, Fields
  <2> HIDE DEF t, ca, bl, sa, fr, ti, ow, ks
  <2> QED BY <1>0, <2>1, <2>2 DEF Table
<1>2. /\ ca \in [User -> Mask] /\ fr \in [User -> Seq(Mask)] /\ ow \in [User -> Mask]
      /\ bl \in SUBSET User /\ ti \in SUBSET User
      /\ ca[p] = {} /\ fr[p] = << >> /\ ow[p] = s.sigmask[p] /\ p \notin bl /\ p \notin ti
      /\ \A x \in User \ {p} : ca[x] = s.catch[x] /\ fr[x] = s.frames[x] /\ ow[x] = s.own[x]
                                /\ (x \in bl <=> x \in s.blocked) /\ (x \in ti <=> x \in s.timer)
  <2>1. s.frames \in [User -> Seq(Mask)] /\ s.catch \in [User -> Mask] /\ s.own \in [User -> Mask]
        /\ s.sigmask[p] \in Mask
    BY <1>0, SigFields
  <2>2. {} \in Mask /\ << >> \in Seq(Mask) BY DEF Mask
  <2>3. ca \in [User -> Mask] /\ ow \in [User -> Mask] BY <2>1, <2>2
  <2>4. fr \in [User -> Seq(Mask)] BY <2>1, <2>2
  <2> QED BY <1>0, <2>1, <2>3, <2>4, Fields
<1>3. sa \in [User -> [Sig -> [mask : Mask, flags : SUBSET {"SA_NODEFER", "SA_RESETHAND"}]]]
  <2> DEFINE A == [mask : Mask, flags : SUBSET {"SA_NODEFER", "SA_RESETHAND"}]
  <2>1. s.sigact \in [User -> [Sig -> A]] BY <1>0, SigFields
  <2>2. one \in [Sig -> A]
    <3>1. {} \in Mask BY DEF Mask
    <3>2. \A x \in Sig : s.sigact[p][x] \in A BY <1>0, <2>1
    <3>3. \A a \in A : [mask |-> {}, flags |-> a.flags] \in A BY <3>1
    <3> HIDE DEF A
    <3> QED BY <3>2, <3>3
  <2> HIDE DEF A, one
  <2>3. sa \in [User -> [Sig -> A]] BY <1>0, <2>1, <2>2
  <2> QED BY <2>3 DEF A
<1> HIDE DEF ca, bl, sa, fr, ti, ow, t
<1>4. /\ t \in Table /\ t.catch = ca /\ t.blocked = bl /\ t.dont_reply /\ t.frames = fr /\ t.timer = ti
      /\ t.own = ow /\ t.ignore = s.ignore /\ t.sigmask = s.sigmask /\ t.sigmask2 = s.sigmask2
      /\ t.sigpending = s.sigpending /\ t.flags = s.flags
  BY <1>0, <1>1, <1>2, <1>3 DEF Table
<1>5. /\ SameNames(s, t) /\ t.parent = s.parent /\ t.told = s.told
      /\ t.procs_in_use = s.procs_in_use /\ t.panic = s.panic
      /\ t.stray = s.stray /\ t.posted = s.posted
      /\ t.p_stop = s.p_stop /\ t.ksig = s.ksig /\ t.unended = s.unended
  BY <1>0, <1>1, <1>2, <1>3 DEF Table, SameNames
<1>6. s.who = p /\ p = s.mp BY DEF Serving
<1> HIDE DEF p
<1>7. Calm(s, t, p) BY <1>4, <1>5 DEF Calm
<1>8. SameElse(s, t, p) BY <1>2, <1>4, <1>5, <1>6 DEF SameElse, SameNames
<1>9. SameMasks(s, t, p) BY <1>2, <1>4 DEF SameMasks
<1>10. HeldAt(t, p) /\ "WAITING" \notin t.flags[p]
  BY <1>0, <1>2, <1>4, <1>5 DEF HeldAt, Idle, Owed, Alive, SameNames
<1>11. Pledged(t)
  <2>1. \A x \in User : (s.catch[x] = {} => t.catch[x] = {}) /\ (s.frames[x] = << >> => t.frames[x] = << >>)
    BY <1>2, <1>4
  <2>2. t.timer \subseteq s.timer BY <1>2, <1>4, <1>0, Fields
  <2> QED BY <1>4, <1>5, <2>1, <2>2 DEF Serving, Sound, Core, Pledged, SameNames
<1>12. /\ Core(t) /\ Kin(t) /\ Waits(t, {}) /\ Held(t, {}) /\ Masked(t, {p}) /\ Alive(t, p)
       /\ \A x \in Slot : (Used(t, x) <=> Used(s, x)) /\ (Alive(t, x) <=> Alive(s, x))
  BY <1>6, <1>7, <1>8, <1>9, <1>10, <1>11, OwnCallOk
<1>13. MaskedAt(t, p)
  BY <1>0, <1>2, <1>4 DEF MaskedAt, MaskOK, Idle
<1>14. Sound(t) BY <1>12, <1>13 DEF Sound, Masked
<1>15. Fades(s, t)
  <2>1. t.timer \subseteq s.timer BY <1>2, <1>4, <1>0, Fields
  <2> QED BY <1>4, <1>5, <1>12, <2>1 DEF Fades, Wanes, Dims
<1> QED BY <1>0, <1>14, <1>15, FadesServed DEF t

\* KILL, by a process that is not INIT: INIT is spared.
LEMMA KillOk ==
  ASSUME NEW s, Serving(s), s.mp # INIT_PROC_NR, NEW id \in Int, NEW sig, NEW full
  PROVE  Served(s, do_kill(s, id, sig, full))
<1> DEFINE w == do_kill(s, id, sig, full)
<1>1. w = check_sig(s, id, sig, full) BY DEF do_kill
<1>2. s \in Table /\ s.mp \in User /\ Sound(s) BY ServingFacts DEF Serving
<1>3. Spared(s, id) BY <1>2, SlotFacts DEF Spared, Permitted
<1> HIDE DEF w
<1>4. After(s, w) BY <1>1, <1>2, <1>3, CheckSigOk
<1> QED BY <1>2, <1>4, FadesServed DEF After, w

\* EXIT: the main loop does not answer the dead.
LEMMA ExitOk ==
  ASSUME NEW s, Serving(s), s.mp # INIT_PROC_NR, NEW full
  PROVE  Served(s, do_mm_exit(s, full))
<1> DEFINE p == s.mp
           t == mm_exit(s, p, full)
           w == Checked(t)
<1>1. /\ s \in Table /\ p \in User \ {INIT_PROC_NR} /\ Sound(s) /\ Alive(s, p)
      /\ Held(s, {p}) /\ Masked(s, {p})
  BY ServingFacts DEF Serving, Sound, Held, Masked
<1>2. After(s, t) /\ ~Alive(t, p) BY <1>1, MmExitOk DEF Sound
<1>3. do_mm_exit(s, full) = [t EXCEPT !.dont_reply = TRUE] BY DEF do_mm_exit
<1>4. t.mp = p BY <1>2 DEF After, Fades, Wanes, Dims, SameNames
<1> HIDE DEF t, p
<1>5. w = [t EXCEPT !.dont_reply = @ \/ ~Alive(t, t.mp)] BY DEF Checked
<1>7. w = do_mm_exit(s, full)
  <2> DEFINE d == t.dont_reply \/ ~Alive(t, t.mp)
  <2>1. d = TRUE BY <1>2, <1>4
  <2>2. w = [t EXCEPT !.dont_reply = d] BY <1>5
  <2> HIDE DEF d, w
  <2> QED BY <1>3, <2>1, <2>2
<1>8. Sound(w) /\ Fades(t, w) BY <1>2, CheckedOk DEF After
<1> HIDE DEF w
<1>9. Fades(s, w) BY <1>2, <1>8, FadesTrans DEF After
<1> QED BY <1>1, <1>7, <1>8, <1>9, FadesServed

\* The caller's answer is not the main loop's affair.
Silent(s) == [s EXCEPT !.dont_reply = TRUE]

\* All is well but for the caller.
LEMMA SilentOk ==
  ASSUME NEW s, Serving(s)
  PROVE  LET t == Silent(s)
         IN  /\ Core(t) /\ Kin(t) /\ Waits(t, {}) /\ Held(t, {s.mp}) /\ Masked(t, {})
             /\ t.dont_reply /\ SameNames(s, t) /\ t.flags = s.flags /\ t.parent = s.parent
             /\ t.told = s.told /\ t.blocked = s.blocked /\ t.posted = s.posted
             /\ t.timer = s.timer /\ t.unended = s.unended
<1> DEFINE t == Silent(s)
           p == s.mp
<1>0. /\ s \in Table /\ p \in User /\ p \in Slot /\ Alive(s, p) /\ Owed(s, p) BY ServingFacts
<1>1. t = [s EXCEPT !.dont_reply = TRUE] BY DEF Silent
<1> HIDE DEF t
<1>2. t \in Table /\ t.dont_reply /\ t.flags = s.flags /\ t.frames = s.frames /\ SameSig(s, t)
  BY <1>0, <1>1 DEF Table, SameSig
<1>3. /\ SameNames(s, t) /\ t.parent = s.parent /\ t.told = s.told
      /\ t.procs_in_use = s.procs_in_use /\ t.panic = s.panic
      /\ t.stray = s.stray /\ t.posted = s.posted /\ t.timer = s.timer /\ t.blocked = s.blocked
      /\ t.p_stop = s.p_stop /\ t.ksig = s.ksig /\ t.unended = s.unended
  BY <1>0, <1>1 DEF Table, SameNames
<1>4. Booked(s) /\ Names(s) /\ Pledged(s) /\ Kin(s) /\ Waits(s, {}) /\ Held(s, {}) /\ Masked(s, {})
  BY DEF Serving, Sound, Core
<1>5. Calm(s, t, p) BY <1>2, <1>3 DEF Calm
<1>6. Booked(t) /\ Names(t) /\ Kin(t) /\ Waits(t, {})
  <2> HIDE DEF p
  <2> QED BY <1>0, <1>2, <1>4, <1>5, CalmOk
<1>7. Pledged(t) BY <1>2, <1>3, <1>4 DEF Pledged, SameNames, SameSig
<1>8. Held(t, {p})
  <2>1. s.who = p BY DEF Serving
  <2>2. SameElse(s, t, p) BY <1>2, <1>3, <2>1 DEF SameElse, SameNames
  <2> QED BY <1>4, <2>2, ElseHeld DEF Held
<1>9. Masked(t, {}) BY <1>2, <1>4 DEF Masked, MaskedAt, MaskOK, PendOK, SameSig, Alive
<1> QED BY <1>2, <1>3, <1>6, <1>7, <1>8, <1>9 DEF Core, t

\* What WAITPID may be asked for.
Wpid == -MaxPid .. MaxPid
WaitFor(s, arg) == /\ arg \in Wpid
                   /\ s.mp = INIT_PROC_NR => arg = -1
                   /\ "own group" \notin WaitKinds => arg # 0

\* WAITPID: the caller hears of a dead child, or waits while there is none.
LEMMA WaitpidOk ==
  ASSUME NEW s, Serving(s), NEW arg, WaitFor(s, arg), NEW nohang
  PROVE  Served(s, do_waitpid(s, arg, nohang))
<1> DEFINE p == s.mp
           pidarg == IF arg = 0 THEN -s.procgrp[p] ELSE arg
           children == {c \in Slot : /\ "IN_USE" \in s.flags[c] /\ s.parent[c] = p
                                     /\ pidarg > 0 => pidarg = s.pid[c]
                                     /\ pidarg < -1 => -pidarg = s.procgrp[c]}
           news == {c \in children : \/ "HANGING" \in s.flags[c]
                                     \/ "STOPPED" \in s.flags[c] /\ s.sigstatus[c]}
           c == Least(news)
           t == Silent(s)
           w == do_waitpid(s, arg, nohang)
<1>0. /\ s \in Table /\ p \in User /\ p \in Slot /\ Alive(s, p) /\ Idle(s.flags[p])
      /\ p \in s.blocked /\ p \notin s.posted /\ s.who = p /\ User \subseteq Slot
  BY ServingFacts, SlotFacts DEF Serving
<1>1. /\ Booked(s) /\ Kin(s) /\ Sound(s) /\ Held(s, {}) /\ Waits(s, {}) BY DEF Serving, Sound, Core
<1>2. /\ Core(t) /\ Kin(t) /\ Waits(t, {}) /\ Held(t, {p}) /\ Masked(t, {})
      /\ t.dont_reply /\ SameNames(s, t) /\ t.flags = s.flags /\ t.parent = s.parent
      /\ t.told = s.told /\ t.blocked = s.blocked /\ t.posted = s.posted
      /\ t.timer = s.timer /\ t.unended = s.unended
  BY SilentOk
<1>3. pidarg \in Wpid /\ ("own group" \notin WaitKinds => pidarg # 0)
      /\ (p = INIT_PROC_NR => pidarg = -1)
  <2> HIDE DEF p
  <2>1. s.procgrp[p] \in 0 .. MaxPid /\ MaxPid \in Nat
    <3>1. s.procgrp \in [Slot -> Pid] BY <1>0, Fields
    <3> QED BY <1>0, <3>1, SlotFacts
  <2>6. \A x \in 0 .. MaxPid : -x \in Wpid BY <2>1 DEF Wpid
  <2>2. -s.procgrp[p] \in Wpid BY <2>1, <2>6
  <2>3. arg \in Wpid /\ (p = INIT_PROC_NR => arg = -1) BY DEF p, WaitFor
  <2>7. "own group" \notin WaitKinds => arg # 0 BY DEF WaitFor
  <2>4. CASE arg = 0
    <3>1. pidarg = -s.procgrp[p] BY <2>4
    <3>2. "own group" \in WaitKinds BY <2>4, <2>7
    <3>3. p # INIT_PROC_NR BY <2>3, <2>4
    <3> HIDE DEF pidarg
    <3> QED BY <2>2, <3>1, <3>2, <3>3
  <2>5. CASE arg # 0 BY <2>3, <2>5, <2>7
  <2> QED BY <2>4, <2>5
<1>4. w = IF news # {}
          THEN IF "HANGING" \in s.flags[c] THEN cleanup(t, c)
               ELSE [reply_child(t, p, c) EXCEPT !.sigstatus[c] = FALSE]
          ELSE IF children = {} \/ nohang THEN s
          ELSE [t EXCEPT !.flags[p] = @ \cup {"WAITING"}, !.wpid[p] = pidarg]
  BY DEF do_waitpid, Silent
<1>5. \A x \in Slot : Used(s, x) /\ s.parent[x] = p => x \in User \ {INIT_PROC_NR}
  <2> SUFFICES ASSUME NEW x \in Slot, s.parent[x] = p PROVE x \in User \ {INIT_PROC_NR} OBVIOUS
  <2> HIDE DEF p, children, news, pidarg, c, t, w
  <2>1. x \notin 0 .. INIT_PROC_NR BY <1>0, <1>1, SlotFacts DEF Kin, Family
  <2>2. x \in Slot OBVIOUS
  <2>3. Slot = 0 .. NR_PROCS - 1 /\ User = 2 .. NR_PROCS - 1 /\ NR_PROCS \in Nat BY SlotFacts
  <2> QED BY <2>1, <2>2, <2>3 DEF INIT_PROC_NR
<1>6. \A x \in news : x \in Slot /\ Used(s, x) /\ s.parent[x] = p /\ "HANGING" \in s.flags[x]
  BY <1>1 DEF Booked, Used
<1>a. news # {} => c \in news
  <2>1. news \in SUBSET Slot OBVIOUS
  <2>2. Slot \subseteq Nat BY SlotFacts
  <2> HIDE DEF news
  <2> QED BY <2>1, <2>2, LeastFacts
<1>b. news = {} => \A x \in Slot : /\ Used(s, x) /\ s.parent[x] = p
                                   /\ pidarg > 0 => pidarg = s.pid[x]
                                   /\ pidarg < -1 => -pidarg = s.procgrp[x]
                                   => "HANGING" \notin s.flags[x]
  BY DEF Used
<1>c. p = s.mp OBVIOUS
<1> HIDE DEF p, children, news, pidarg, c, t, w
<1>7. CASE news # {}
  <2>1. c \in news BY <1>7, <1>a
  <2>2. c \in User \ {INIT_PROC_NR} /\ c \in Slot /\ Used(s, c) /\ s.parent[c] = p /\ "HANGING" \in s.flags[c]
    BY <1>5, <1>6, <2>1
  <2>3. w = cleanup(t, c) BY <1>4, <1>7, <2>2
  <2>4. c # p /\ ~Alive(t, c) /\ Used(t, c) /\ Alive(t, p) BY <1>0, <1>2, <2>2 DEF Alive, Used
  <2>5. Gone(t, c) BY <1>2, <2>2, <2>4 DEF Held, HeldAt
  <2>6. /\ ~Owed(t, p) /\ Idle(t.flags[p] \ {"WAITING"}) BY <1>0, <1>2 DEF Owed, Idle
  <2>7. Waits(t, {p}) /\ Held(t, {p, c}) /\ Masked(t, {c}) BY <1>2 DEF Waits, Held, Masked
  <2>8. Family(t, NR_PROCS, MM) /\ NR_PROCS \in Int BY <1>2, SlotFacts DEF Kin
  <2> DEFINE v == cleanup(t, c)
  <2>9. /\ Core(v) /\ Family(v, NR_PROCS, MM) /\ Waits(v, {}) /\ Held(v, {}) /\ Masked(v, {})
        /\ v.who = t.who /\ v.timer = t.timer /\ v.unended = t.unended
        /\ \A x \in User \ {p} : v.told[x] = t.told[x]
        /\ \A x \in Slot \ {c} : "ALARM_ON" \in v.flags[x] <=> "ALARM_ON" \in t.flags[x]
    <3>1. p = t.parent[c] /\ p \in t.blocked /\ p \notin t.posted BY <1>0, <1>2, <2>2
    <3> QED BY <1>2, <2>2, <2>4, <2>5, <2>6, <2>7, <2>8, <3>1, CleanupOk
  <2> HIDE DEF v
  <2>10. Sound(v) BY <2>9 DEF Sound, Kin
  <2>11. Alarmed(s) => Alarmed(v)
    <3>1. \A x \in s.timer : x \in Slot BY <1>0, Fields
    <3> QED BY <1>2, <2>5, <2>9, <3>1 DEF Alarmed, Gone
  <2>12. News(s, v) BY <1>0, <1>2, <2>9 DEF News, Idle
  <2>13. v.who = s.who BY <1>2, <2>9 DEF SameNames
  <2> QED BY <2>3, <2>10, <2>11, <2>12, <2>13 DEF Served, v, w
<1>8. CASE news = {} /\ (children = {} \/ nohang)
  <2>1. w = s BY <1>4, <1>8
  <2>2. After(s, s) BY <1>1, AfterSame
  <2> QED BY <1>0, <1>1, <2>1, <2>2, FadesServed DEF After, w
<1>9. CASE news = {} /\ ~(children = {} \/ nohang)
  <2> DEFINE f == [t.flags EXCEPT ![p] = @ \cup {"WAITING"}]
             wp == [t.wpid EXCEPT ![p] = pidarg]
  <2>1. w = [t EXCEPT !.flags = f, !.wpid = wp] BY <1>4, <1>9
  <2>2. t \in Table BY <1>2 DEF Core
  <2>3. /\ f \in [Slot -> SUBSET MFlag] /\ wp \in [Slot -> Wpid]
        /\ f[p] = s.flags[p] \cup {"WAITING"} /\ wp[p] = pidarg
        /\ \A x \in Slot \ {p} : f[x] = s.flags[x] /\ wp[x] = s.wpid[x]
    <3>1. t.flags \in [Slot -> SUBSET MFlag] /\ t.wpid \in [Slot -> Wpid] BY <2>2, Fields DEF Wpid
    <3>2. t.wpid = s.wpid /\ t.flags = s.flags BY <1>2 DEF SameNames
    <3> QED BY <1>0, <1>3, <3>1, <3>2 DEF MFlag
  <2> HIDE DEF f, wp
  <2>4. w \in Table /\ w.flags = f /\ w.wpid = wp /\ w.dont_reply /\ w.frames = t.frames /\ SameSig(t, w)
    BY <1>2, <2>1, <2>2, <2>3 DEF Table, SameSig, Wpid
  <2>5. /\ w.parent = t.parent /\ w.told = t.told /\ w.pid = t.pid /\ w.procgrp = t.procgrp
        /\ w.who = t.who /\ w.mp = t.mp
        /\ w.procs_in_use = t.procs_in_use /\ w.panic = t.panic
        /\ w.stray = t.stray /\ w.posted = t.posted /\ w.timer = t.timer /\ w.blocked = t.blocked
        /\ w.p_stop = t.p_stop /\ w.ksig = t.ksig /\ w.unended = t.unended
    BY <2>1, <2>2, <2>3 DEF Table
  <2>6. /\ w.flags[p] = t.flags[p] \cup {"WAITING"} /\ \A x \in Slot \ {p} : w.flags[x] = t.flags[x]
        /\ \A x \in Slot : (Used(w, x) <=> Used(t, x)) /\ (Alive(w, x) <=> Alive(t, x))
                           /\ ("HANGING" \in w.flags[x] <=> "HANGING" \in t.flags[x])
    BY <1>0, <1>2, <2>3, <2>4 DEF Used, Alive
  <2>7. Booked(w)
    <3>1. {x \in Slot : Used(w, x)} = {x \in Slot : Used(t, x)} BY <2>6
    <3>2. \A x \in 0 .. 1 : w.flags[x] = {"IN_USE"}
      <4>1. \A x \in 0 .. 1 : x \in Slot /\ x # p BY <1>0, SlotFacts
      <4> QED BY <1>2, <2>6, <4>1 DEF Core, Booked
    <3>3. Alive(w, INIT_PROC_NR) BY <1>2, <2>6, SlotFacts DEF Core, Booked
    <3>4. \A x \in Slot : /\ ~Used(w, x) => w.flags[x] = {}
                          /\ "TRACED" \notin w.flags[x] /\ "STOPPED" \notin w.flags[x]
      BY <1>0, <1>2, <2>6 DEF Core, Booked, Used, Alive
    <3> QED BY <1>2, <2>5, <3>1, <3>2, <3>3, <3>4 DEF Core, Booked
  <2>8. Names(w)
    <3>1. \A x \in User : Used(w, x) <=> Used(t, x) BY <1>0, <2>6
    <3> QED BY <1>2, <2>5, <3>1 DEF Core, Names
  <2>10. Pledged(w) BY <1>2, <2>4, <2>5 DEF Core, Pledged, SameSig
  <2>11. Kin(w) BY <1>2, <2>5, <2>6, SlotFacts DEF Kin, Family
  <2>12. Waits(w, {})
    <3> SUFFICES ASSUME NEW x \in User, "WAITING" \in w.flags[x], Alive(w, x)
                 PROVE  /\ x = INIT_PROC_NR => w.wpid[x] = -1
                        /\ "own group" \notin WaitKinds =>
                             /\ w.wpid[x] # 0
                             /\ \A y \in User : Child(w, x, y) => "HANGING" \notin w.flags[y]
      BY DEF Waits
    <3>1. CASE x = p
      <4>1. w.wpid[x] = pidarg BY <2>3, <2>4, <3>1
      <4>2. \A y \in User : Child(w, x, y) => "HANGING" \notin w.flags[y]
        <5> SUFFICES ASSUME NEW y \in User, Child(w, p, y) PROVE "HANGING" \notin w.flags[y] BY <3>1
        <5>1. y \in Slot /\ w.pid = s.pid /\ w.procgrp = s.procgrp /\ w.parent = s.parent
          BY <1>0, <1>2, <2>5 DEF SameNames
        <5>2. Used(s, y) /\ ("HANGING" \in w.flags[y] <=> "HANGING" \in s.flags[y])
          BY <1>2, <2>6, <5>1 DEF Child, Used
        <5>3. /\ s.parent[y] = p /\ (pidarg > 0 => pidarg = s.pid[y])
              /\ (pidarg < -1 => -pidarg = s.procgrp[y])
          BY <3>1, <4>1, <5>1 DEF Child
        <5> QED BY <1>9, <1>b, <5>1, <5>2, <5>3
      <4> QED BY <1>3, <3>1, <4>1, <4>2
    <3>2. CASE x # p
      <4>1. "WAITING" \in t.flags[x] /\ Alive(t, x) /\ x \in Slot BY <1>0, <2>6, <3>2
      <4>2. /\ x = INIT_PROC_NR => t.wpid[x] = -1
            /\ "own group" \notin WaitKinds =>
                 /\ t.wpid[x] # 0
                 /\ \A y \in User : Child(t, x, y) => "HANGING" \notin t.flags[y]
        BY <1>2, <4>1 DEF Waits
      <4>3. w.wpid[x] = t.wpid[x] BY <1>2, <2>3, <2>4, <3>2, <4>1 DEF SameNames
      <4>4. \A y \in User : Child(w, x, y) => Child(t, x, y) BY <1>0, <2>5, <2>6, <4>3 DEF Child
      <4> QED BY <1>0, <2>6, <4>2, <4>3, <4>4
    <3> QED BY <3>1, <3>2
  <2>13. Held(w, {})
    <3> SUFFICES ASSUME NEW x \in User PROVE HeldAt(w, x) BY DEF Held
    <3>1. CASE x = p
      <4>1. Asleep(w.flags[p]) /\ Alive(w, p) BY <1>0, <1>2, <2>6 DEF Asleep, Idle, Alive
      <4> QED BY <1>0, <1>2, <2>4, <2>5, <3>1, <4>1 DEF HeldAt, Owed
    <3>2. CASE x # p
      <4>1. HeldAt(t, x) /\ x \in Slot BY <1>0, <1>2, <3>2 DEF Held
      <4> QED BY <1>2, <2>4, <2>5, <2>6, <3>2, <4>1 DEF HeldAt, Gone, Owed
    <3> QED BY <3>1, <3>2
  <2>14. Masked(w, {})
    <3> SUFFICES ASSUME NEW x \in User, Alive(w, x) PROVE MaskedAt(w, x) BY DEF Masked, MaskedAt
    <3>1. /\ MaskedAt(t, x) /\ Alive(t, x)
          /\ "SIGSUSPENDED" \in w.flags[x] <=> "SIGSUSPENDED" \in t.flags[x]
      BY <1>0, <1>2, <2>6 DEF Masked, MaskedAt
    <3> QED BY <2>4, <3>1 DEF MaskedAt, MaskOK, PendOK, SameSig
  <2>15. Sound(w) BY <2>4, <2>7, <2>8, <2>10, <2>11, <2>12, <2>13, <2>14 DEF Sound, Core
  <2>16. Alarmed(s) => Alarmed(w)
    <3>1. \A x \in s.timer : x \in Slot BY <1>0, Fields
    <3> QED BY <1>0, <1>2, <2>5, <2>6, <3>1 DEF Alarmed
  <2> QED BY <1>2, <2>5, <2>15, <2>16 DEF Served, News, SameNames, w
<1> QED BY <1>7, <1>8, <1>9

\* The candidates for a pid are all the pids but INIT's.
LEMMA PidAfter ==
  ASSUME NEW s \in Table
  PROVE  /\ \A d \in 1 .. MaxPid - 1 : pid_after(s, d) \in INIT_PID + 1 .. MaxPid
         /\ \A n \in INIT_PID + 1 .. MaxPid : \E d \in 1 .. MaxPid - 1 : pid_after(s, d) = n
<1> DEFINE b == s.next_pid
<1>1. b \in Int /\ 2 <= b /\ b <= MaxPid /\ MaxPid \in Nat BY Fields, SlotFacts DEF INIT_PID
<1>2. \A d : pid_after(s, d) = IF b + d <= MaxPid THEN b + d ELSE b + d - MaxPid + 1
  BY DEF pid_after, INIT_PID
<1> HIDE DEF b
<1>3. ASSUME NEW d \in 1 .. MaxPid - 1 PROVE pid_after(s, d) \in INIT_PID + 1 .. MaxPid
  BY <1>1, <1>2 DEF INIT_PID
<1>4. ASSUME NEW n \in INIT_PID + 1 .. MaxPid PROVE \E d \in 1 .. MaxPid - 1 : pid_after(s, d) = n
  <2>1. n \in Int /\ 2 <= n /\ n <= MaxPid BY <1>1 DEF INIT_PID
  <2>2. CASE n > b
    <3> DEFINE d == n - b
    <3>1. d \in 1 .. MaxPid - 1 /\ b + d = n BY <1>1, <2>1, <2>2
    <3>2. pid_after(s, d) = n BY <1>2, <2>1, <3>1
    <3> QED BY <3>1, <3>2
  <2>3. CASE n <= b
    <3> DEFINE d == n - b + MaxPid - 1
    <3>1. d \in 1 .. MaxPid - 1 /\ ~(b + d <= MaxPid) /\ b + d - MaxPid + 1 = n BY <1>1, <2>1, <2>3
    <3> HIDE DEF d
    <3>2. pid_after(s, d) = n BY <1>2, <3>1
    <3> QED BY <3>1, <3>2
  <2> QED BY <1>1, <2>1, <2>2, <2>3
<1> QED BY <1>3, <1>4

\* There are more pids than the other slots can have in use, as pids and as
\* process groups: do_fork() finds one that is neither.
LEMMA FreePid ==
  ASSUME PidsAbound, NEW s \in Table, Names(s), NEW c \in User \ {INIT_PROC_NR}
  PROVE  LET n == free_pid(s, c)
         IN  /\ n \in INIT_PID + 1 .. MaxPid
             /\ \A p \in Slot \ {c} : s.pid[p] # n /\ s.procgrp[p] # n
<1> DEFINE Taken(n) == \E p \in Slot \ {c} : s.pid[p] = n \/ s.procgrp[p] = n
           free == {d \in 1 .. MaxPid - 1 : ~Taken(pid_after(s, d))}
           S == INIT_PID + 1 .. MaxPid
           A == (3 .. NR_PROCS - 1) \ {c}
           B == (NR_PROCS + 3 .. 2 * NR_PROCS - 1) \ {NR_PROCS + c}
           T == (A \cup B) \cup {0}
           val(k) == IF k = 0 THEN s.procgrp[MM]
                     ELSE IF k < NR_PROCS THEN s.pid[k] ELSE s.procgrp[k - NR_PROCS]
<1>0. /\ NR_PROCS \in Nat /\ NR_PROCS >= 4 /\ MaxPid \in Nat /\ MaxPid > 2 * (NR_PROCS - 3)
      /\ c \in 3 .. NR_PROCS - 1 /\ Slot = 0 .. NR_PROCS - 1
  BY SlotFacts DEF INIT_PROC_NR, PidsAbound
<1>1. IsFiniteSet(T) /\ Cardinality(T) < Cardinality(S) /\ IsFiniteSet(S)
  <2>1. IsFiniteSet(S) /\ Cardinality(S) = MaxPid - 1
    <3>1. INIT_PID + 1 = 2 BY DEF INIT_PID
    <3>2. IsFiniteSet(2 .. MaxPid) /\ Cardinality(2 .. MaxPid) = IF 2 > MaxPid THEN 0 ELSE MaxPid - 2 + 1
      <4>1. 2 \in Int /\ MaxPid \in Int BY <1>0
      <4> QED BY <4>1, FS_Interval
    <3>3. MaxPid >= 2 BY <1>0
    <3> QED BY <1>0, <3>1, <3>2, <3>3
  <2>2. IsFiniteSet(A) /\ Cardinality(A) = NR_PROCS - 4
    <3> DEFINE I == 3 .. NR_PROCS - 1
    <3>1. IsFiniteSet(I) /\ Cardinality(I) = NR_PROCS - 3 BY <1>0, FS_Interval
    <3>2. c \in I BY <1>0
    <3> HIDE DEF I
    <3>3. IsFiniteSet(I \ {c}) /\ Cardinality(I \ {c}) = Cardinality(I) - 1 BY <3>1, <3>2, FS_RemoveElement
    <3> QED BY <1>0, <3>1, <3>3 DEF I
  <2>3. IsFiniteSet(B) /\ Cardinality(B) = NR_PROCS - 4
    <3> DEFINE I == NR_PROCS + 3 .. 2 * NR_PROCS - 1
               e == NR_PROCS + c
    <3>1. IsFiniteSet(I) /\ Cardinality(I) = NR_PROCS - 3
      <4> DEFINE x == NR_PROCS + 3
                 y == 2 * NR_PROCS - 1
      <4>1. x \in Int /\ y \in Int /\ ~(x > y) /\ y - x + 1 = NR_PROCS - 3 BY <1>0
      <4> HIDE DEF x, y
      <4>2. IsFiniteSet(x .. y) /\ Cardinality(x .. y) = NR_PROCS - 3 BY <4>1, FS_Interval
      <4> QED BY <4>2 DEF x, y
    <3>2. e \in I BY <1>0
    <3> HIDE DEF I, e
    <3>3. IsFiniteSet(I \ {e}) /\ Cardinality(I \ {e}) = Cardinality(I) - 1 BY <3>1, <3>2, FS_RemoveElement
    <3> QED BY <1>0, <3>1, <3>3 DEF I, e
  <2> HIDE DEF A, B, S
  <2>4. /\ IsFiniteSet(A \cup B)
        /\ Cardinality(A \cup B) = Cardinality(A) + Cardinality(B) - Cardinality(A \cap B)
    BY <2>2, <2>3, FS_Union
  <2>5. Cardinality(A \cap B) \in Nat
    <3>1. IsFiniteSet(A \cap B) BY <2>2, FS_Subset
    <3> QED BY <3>1, FS_CardinalityType
  <2>6. Cardinality(A \cup B) <= 2 * (NR_PROCS - 4) /\ Cardinality(A \cup B) \in Int
    BY <1>0, <2>2, <2>3, <2>4, <2>5
  <2>7. /\ IsFiniteSet(T)
        /\ Cardinality(T) = IF 0 \in A \cup B THEN Cardinality(A \cup B) ELSE Cardinality(A \cup B) + 1
    BY <2>4, FS_AddElement
  <2> HIDE DEF T
  <2>8. Cardinality(T) <= 2 * (NR_PROCS - 4) + 1 BY <1>0, <2>6, <2>7
  <2> QED BY <1>0, <2>1, <2>6, <2>7, <2>8
<1>2. ASSUME NEW n \in S, Taken(n) PROVE \E k \in T : val(k) = n
  <2>1. PICK p \in Slot \ {c} : s.pid[p] = n \/ s.procgrp[p] = n BY <1>2
  <2>2. n \in Int /\ n > 1 /\ p \in Int BY <1>0 DEF INIT_PID
  <2>3. CASE p \in 0 .. 2
    <3>1. s.pid[0] = 0 /\ s.pid[1] = 0 /\ s.pid[2] = 1 /\ s.procgrp[1] = 0 /\ s.procgrp[2] = 0
      BY DEF Names, INIT_PROC_NR, INIT_PID
    <3>2. p = 0 \/ p = 1 \/ p = 2 BY <2>3
    <3>3. p = 0 /\ s.procgrp[0] = n BY <2>1, <2>2, <3>1, <3>2
    <3>4. val(0) = n BY <3>3 DEF MM
    <3> QED BY <3>4
  <2>4. CASE p \notin 0 .. 2 /\ s.pid[p] = n
    <3>1. p \in A /\ p < NR_PROCS /\ p # 0 BY <1>0, <2>2, <2>4
    <3>2. val(p) = n BY <2>4, <3>1
    <3> QED BY <3>1, <3>2
  <2>5. CASE p \notin 0 .. 2 /\ s.procgrp[p] = n
    <3> DEFINE k == p + NR_PROCS
    <3>1. k \in B /\ ~(k < NR_PROCS) /\ k # 0 /\ k - NR_PROCS = p BY <1>0, <2>2, <2>5
    <3> HIDE DEF k
    <3>2. val(k) = n BY <2>5, <3>1
    <3> QED BY <3>1, <3>2
  <2> QED BY <2>1, <2>3, <2>4, <2>5
<1> HIDE DEF T, val, Taken
<1>3. \E n \in S : ~Taken(n)
  <2> SUFFICES ASSUME \A n \in S : Taken(n) PROVE FALSE OBVIOUS
  <2> DEFINE f == [n \in S |-> CHOOSE k \in T : val(k) = n]
  <2>1. \A n \in S : f[n] \in T /\ val(f[n]) = n BY <1>2
  <2>2. f \in [S -> T] BY <2>1
  <2> HIDE DEF f, S
  <2>3. \E x, y \in S : x # y /\ f[x] = f[y] BY <1>1, <2>2, FS_PigeonHole
  <2> QED BY <2>1, <2>3
<1>4. free # {}
  <2>1. PICK n \in S : ~Taken(n) BY <1>3
  <2>2. PICK d \in 1 .. MaxPid - 1 : pid_after(s, d) = n BY PidAfter
  <2> QED BY <2>1, <2>2
<1>5. Least(free) \in free
  <2>1. free \in SUBSET Nat BY <1>0
  <2> HIDE DEF free
  <2> QED BY <1>4, <2>1, LeastFacts
<1>6. free_pid(s, c) = pid_after(s, Least(free)) BY DEF free_pid, Taken
<1>7. ~Taken(free_pid(s, c)) /\ free_pid(s, c) \in S
  <2> DEFINE l == Least(free)
  <2>1. l \in 1 .. MaxPid - 1 /\ ~Taken(pid_after(s, l)) BY <1>5
  <2>2. free_pid(s, c) = pid_after(s, l) BY <1>6
  <2> HIDE DEF l, free
  <2>3. pid_after(s, l) \in S BY <2>1, PidAfter
  <2> QED BY <2>1, <2>2, <2>3
<1> QED BY <1>7 DEF Taken

\* A copy has the field's type and leaves the others alone.
LEMMA CopyOk ==
  ASSUME NEW D, NEW X, NEW h \in [D -> X], NEW p \in D, NEW c \in D
  PROVE  /\ Copy(h, p, c) \in [D -> X] /\ Copy(h, p, c)[c] = h[p]
         /\ \A x \in D \ {c} : Copy(h, p, c)[x] = h[x]
BY DEF Copy

\* The table after a fork of p into slot c.
Forked(s, w, p, c, pid) ==
  /\ w \in Table
  /\ w.flags = Copy(s.flags, p, c) /\ w.procgrp = Copy(s.procgrp, p, c)
  /\ w.wpid = Copy(s.wpid, p, c) /\ w.parent = [s.parent EXCEPT ![c] = p]
  /\ w.pid = [s.pid EXCEPT ![c] = pid] /\ w.procs_in_use = s.procs_in_use + 1
  /\ w.ignore = Copy(s.ignore, p, c) /\ w.catch = Copy(s.catch, p, c)
  /\ w.sigmask = Copy(s.sigmask, p, c) /\ w.sigmask2 = Copy(s.sigmask2, p, c)
  /\ w.sigpending = Copy(s.sigpending, p, c) /\ w.own = Copy(s.own, p, c)
  /\ w.frames = Copy(s.frames, p, c)
  /\ w.timer = (IF p \in s.timer THEN s.timer \cup {c} ELSE s.timer)
  /\ w.who = s.who /\ w.mp = s.mp /\ w.told = s.told /\ w.dont_reply = s.dont_reply
  /\ w.panic = s.panic /\ w.stray = s.stray /\ w.posted = s.posted /\ w.blocked = s.blocked
  /\ w.p_stop = s.p_stop /\ w.ksig = s.ksig /\ w.unended = s.unended

\* What do_fork() writes.
LEMMA ForkFields ==
  ASSUME NEW s \in Table, s.mp \in User, Alive(s, s.mp), "TRACED" \notin s.flags[s.mp],
         NEW c \in User, c = Least({i \in Slot : "IN_USE" \notin s.flags[i]}), c # s.mp,
         c \notin s.blocked, s.p_stop = {}, s.procs_in_use < NR_PROCS,
         free_pid(s, c) \in INIT_PID + 1 .. MaxPid, NEW memory,
         ~(\/ s.procs_in_use = NR_PROCS \/ ~memory
           \/ s.procs_in_use >= NR_PROCS - LAST_FEW /\ s.mp # INIT_PROC_NR)
  PROVE  Forked(s, do_fork(s, memory), s.mp, c, free_pid(s, c))
<1> DEFINE p == s.mp
           pid == free_pid(s, c)
           n == s.procs_in_use + 1
           fl == [s.flags EXCEPT ![c] = s.flags[p] \ {"TRACED"}]
           pa == [s.parent EXCEPT ![c] = p]
           pi == [s.pid EXCEPT ![c] = pid]
           gr == Copy(s.procgrp, p, c)
           wp == Copy(s.wpid, p, c)
           st == [s.sigstatus EXCEPT ![c] = FALSE]
           ig == Copy(s.ignore, p, c)
           ca == Copy(s.catch, p, c)
           m1 == Copy(s.sigmask, p, c)
           m2 == Copy(s.sigmask2, p, c)
           sp == Copy(s.sigpending, p, c)
           sa == Copy(s.sigact, p, c)
           ow == Copy(s.own, p, c)
           fr == Copy(s.frames, p, c)
           ti == IF p \in s.timer THEN s.timer \cup {c} ELSE s.timer
           t == [s EXCEPT !.procs_in_use = n, !.flags = fl, !.parent = pa, !.pid = pi, !.next_pid = pid,
                          !.procgrp = gr, !.wpid = wp, !.sigstatus = st, !.ignore = ig, !.catch = ca,
                          !.sigmask = m1, !.sigmask2 = m2, !.sigpending = sp, !.sigact = sa, !.own = ow]
           u == sys_fork(t, p, c)
           w == do_fork(s, memory)
<1>0. p \in User /\ p \in Slot /\ c \in Slot /\ User \subseteq Slot BY SlotFacts
<1>1. w = reply(u, c)
  <2> DEFINE t0(x) ==
               [s EXCEPT !.procs_in_use = s.procs_in_use + 1,
                         !.flags = [s.flags EXCEPT ![x] = s.flags[p] \ {"TRACED"}],
                         !.parent = [s.parent EXCEPT ![x] = p],
                         !.pid = [s.pid EXCEPT ![x] = free_pid(s, x)], !.next_pid = free_pid(s, x),
                         !.procgrp = Copy(s.procgrp, p, x), !.wpid = Copy(s.wpid, p, x),
                         !.sigstatus = [s.sigstatus EXCEPT ![x] = FALSE],
                         !.ignore = Copy(s.ignore, p, x), !.catch = Copy(s.catch, p, x),
                         !.sigmask = Copy(s.sigmask, p, x), !.sigmask2 = Copy(s.sigmask2, p, x),
                         !.sigpending = Copy(s.sigpending, p, x),
                         !.sigact = Copy(s.sigact, p, x), !.own = Copy(s.own, p, x)]
             r(x) == reply(sys_fork(t0(x), p, x), x)
             c0 == Least({i \in Slot : "IN_USE" \notin s.flags[i]})
  <2>1. w = r(c0) BY Zenon DEF do_fork
  <2> HIDE DEF r, c0, w
  <2>2. c = c0 BY DEF c0
  <2>3. w = r(c) BY <2>1, <2>2
  <2> QED BY <2>3, Zenon DEF r
<1>2. /\ n \in 0 .. NR_PROCS /\ pid \in INIT_PID + 1 .. MaxPid /\ pid \in Pid
      /\ pa \in [Slot -> Slot] /\ pi \in [Slot -> Pid] /\ gr \in [Slot -> Pid]
      /\ wp \in [Slot -> -MaxPid .. MaxPid] /\ st \in [User -> BOOLEAN]
  <2>1. n \in 0 .. NR_PROCS BY Fields, SlotFacts
  <2>2. pid \in INIT_PID + 1 .. MaxPid /\ pid \in Pid BY SlotFacts DEF INIT_PID
  <2>3. gr \in [Slot -> Pid] /\ wp \in [Slot -> -MaxPid .. MaxPid]
    <3>1. s.procgrp \in [Slot -> Pid] /\ s.wpid \in [Slot -> -MaxPid .. MaxPid] BY Fields
    <3> QED BY <1>0, <3>1, CopyOk
  <2>4. st \in [User -> BOOLEAN] BY DEF Table
  <2>5. pa \in [Slot -> Slot] BY <1>0, Fields
  <2> HIDE DEF pid
  <2>6. pi \in [Slot -> Pid] BY <1>0, <2>2, Fields
  <2> QED BY <2>1, <2>2, <2>3, <2>4, <2>5, <2>6
<1>3. /\ ig \in [User -> Mask] /\ ca \in [User -> Mask] /\ m1 \in [User -> Mask] /\ m2 \in [User -> Mask]
      /\ sp \in [User -> Mask] /\ ow \in [User -> Mask] /\ fr \in [User -> Seq(Mask)]
      /\ sa \in [User -> [Sig -> [mask : Mask, flags : SUBSET {"SA_NODEFER", "SA_RESETHAND"}]]]
      /\ ti \in SUBSET User
  <2>1. /\ s.ignore \in [User -> Mask] /\ s.catch \in [User -> Mask]
        /\ s.sigmask \in [User -> Mask] /\ s.sigmask2 \in [User -> Mask]
        /\ s.sigpending \in [User -> Mask] /\ s.own \in [User -> Mask]
        /\ s.frames \in [User -> Seq(Mask)]
        /\ s.sigact \in [User -> [Sig -> [mask : Mask, flags : SUBSET {"SA_NODEFER", "SA_RESETHAND"}]]]
    BY SigFields
  <2>2. ti \in SUBSET User BY <1>0, Fields
  <2> HIDE DEF p
  <2> QED BY <1>0, <2>1, <2>2, CopyOk
<1>4. fl = Copy(s.flags, p, c) /\ fl \in [Slot -> SUBSET MFlag] /\ fl[c] = s.flags[p]
  <2>1. s.flags[p] \ {"TRACED"} = s.flags[p] OBVIOUS
  <2>2. s.flags \in [Slot -> SUBSET MFlag] BY Fields
  <2>3. fl = Copy(s.flags, p, c) BY <2>1 DEF Copy
  <2> DEFINE h == s.flags
  <2> HIDE DEF fl, p, h
  <2>4. h \in [Slot -> SUBSET MFlag] BY <2>2 DEF h
  <2>5. Copy(h, p, c) \in [Slot -> SUBSET MFlag] /\ Copy(h, p, c)[c] = h[p] BY <1>0, <2>4 DEF Copy
  <2>6. fl = Copy(h, p, c) BY <2>3 DEF h
  <2>7. fl \in [Slot -> SUBSET MFlag] /\ fl[c] = h[p] BY <2>5, <2>6
  <2> QED BY <2>3, <2>7 DEF h
<1> DEFINE bl == s.blocked \cup {c}
           ps == s.p_stop \ {c}
<1>5. bl \in SUBSET User /\ ps = s.p_stop /\ bl \ {c} = s.blocked BY Fields
<1>6. t.blocked = s.blocked /\ t.p_stop = s.p_stop /\ t.frames = s.frames /\ t.timer = s.timer /\ t \in Table
  <2>1. t = [s EXCEPT !.procs_in_use = n, !.flags = fl, !.parent = pa, !.pid = pi, !.next_pid = pid,
                      !.procgrp = gr, !.wpid = wp, !.sigstatus = st, !.ignore = ig, !.catch = ca,
                      !.sigmask = m1, !.sigmask2 = m2, !.sigpending = sp, !.sigact = sa, !.own = ow]
    OBVIOUS
  <2> HIDE DEF n, fl, pa, pi, gr, wp, st, ig, ca, m1, m2, sp, sa, ow, pid, t, p, fr, ti
  <2>2. fl \in [Slot -> SUBSET MFlag] BY <1>4
  <2> QED BY <1>2, <1>3, <2>1, <2>2 DEF Table
<1>7. u = [t EXCEPT !.blocked = bl, !.p_stop = ps, !.frames = fr, !.timer = ti]
  <2> DEFINE x == t
  <2>1. x.blocked = s.blocked /\ x.p_stop = s.p_stop /\ x.frames = s.frames /\ x.timer = s.timer BY <1>6
  <2>2. u = sys_fork(x, p, c) OBVIOUS
  <2> HIDE DEF x, p, u
  <2>3. u = [x EXCEPT !.blocked = x.blocked \cup {c}, !.p_stop = x.p_stop \ {c},
                      !.frames = Copy(x.frames, p, c),
                      !.timer = IF p \in x.timer THEN x.timer \cup {c} ELSE x.timer]
    BY <2>2, Zenon DEF sys_fork
  <2>4. u = [x EXCEPT !.blocked = bl, !.p_stop = ps, !.frames = fr, !.timer = ti]
    BY <2>1, <2>3
  <2> QED BY <2>4 DEF x
<1>8. t = [s EXCEPT !.procs_in_use = n, !.flags = fl, !.parent = pa, !.pid = pi, !.next_pid = pid,
                    !.procgrp = gr, !.wpid = wp, !.sigstatus = st, !.ignore = ig, !.catch = ca,
                    !.sigmask = m1, !.sigmask2 = m2, !.sigpending = sp, !.sigact = sa, !.own = ow]
  OBVIOUS
<1>9. gr = Copy(s.procgrp, p, c) /\ wp = Copy(s.wpid, p, c) /\ ig = Copy(s.ignore, p, c)
      /\ ca = Copy(s.catch, p, c) /\ m1 = Copy(s.sigmask, p, c) /\ m2 = Copy(s.sigmask2, p, c)
      /\ sp = Copy(s.sigpending, p, c) /\ ow = Copy(s.own, p, c) /\ fr = Copy(s.frames, p, c)
      /\ pa = [s.parent EXCEPT ![c] = p] /\ pi = [s.pid EXCEPT ![c] = pid]
      /\ ti = (IF p \in s.timer THEN s.timer \cup {c} ELSE s.timer) /\ n = s.procs_in_use + 1
  OBVIOUS
<1> HIDE DEF n, fl, pa, pi, gr, wp, st, ig, ca, m1, m2, sp, sa, ow, fr, ti, bl, ps, t, u, w, p, pid
<1>10. /\ t.procs_in_use = n /\ t.flags = fl /\ t.parent = pa /\ t.pid = pi /\ t.next_pid = pid
       /\ t.procgrp = gr /\ t.wpid = wp /\ t.ignore = ig /\ t.catch = ca
       /\ t.sigmask = m1 /\ t.sigmask2 = m2 /\ t.sigpending = sp /\ t.own = ow
       /\ t.who = s.who /\ t.mp = s.mp /\ t.told = s.told /\ t.dont_reply = s.dont_reply
       /\ t.panic = s.panic /\ t.stray = s.stray /\ t.posted = s.posted
       /\ t.ksig = s.ksig /\ t.unended = s.unended
  BY <1>8 DEF Table
<1>11. u \in Table /\ u.flags = fl /\ u.blocked = bl BY <1>3, <1>5, <1>6, <1>7, <1>10 DEF Table
<1>12. w = [u EXCEPT !.blocked = s.blocked]
  <2>1. Alive(u, c) BY <1>4, <1>11 DEF Alive, p
  <2>2. c \in u.blocked BY <1>11 DEF bl
  <2>3. reply(u, c) = [u EXCEPT !.blocked = u.blocked \ {c}] BY <2>1, <2>2, Zenon DEF reply
  <2>4. u.blocked \ {c} = s.blocked BY <1>5, <1>11
  <2> QED BY <1>1, <2>3, <2>4
<1>13. w = [t EXCEPT !.blocked = s.blocked, !.p_stop = s.p_stop, !.frames = fr, !.timer = ti]
  BY <1>5, <1>6, <1>7, <1>12 DEF Table
<1>14. s.blocked \in SUBSET User /\ s.p_stop \in SUBSET User BY Fields
<1>15. /\ w \in Table /\ w.blocked = s.blocked /\ w.p_stop = s.p_stop /\ w.frames = fr /\ w.timer = ti
  BY <1>3, <1>6, <1>13, <1>14 DEF Table
<1>16. /\ w.procs_in_use = n /\ w.flags = fl /\ w.parent = pa /\ w.pid = pi
       /\ w.procgrp = gr /\ w.wpid = wp /\ w.ignore = ig /\ w.catch = ca
       /\ w.sigmask = m1 /\ w.sigmask2 = m2 /\ w.sigpending = sp /\ w.own = ow
       /\ w.who = s.who /\ w.mp = s.mp /\ w.told = s.told /\ w.dont_reply = s.dont_reply
       /\ w.panic = s.panic /\ w.stray = s.stray /\ w.posted = s.posted
       /\ w.ksig = s.ksig /\ w.unended = s.unended
  BY <1>6, <1>10, <1>13 DEF Table
<1> QED BY <1>4, <1>9, <1>15, <1>16 DEF Forked, w, p, pid

\* FORK: the child is another parent's copy, with a pid of its own.
LEMMA ForkOk ==
  ASSUME PidsAbound, NEW s, Serving(s), NEW memory
  PROVE  Served(s, do_fork(s, memory))
<1> DEFINE p == s.mp
           free == {i \in Slot : "IN_USE" \notin s.flags[i]}
           c == Least(free)
           U == {i \in Slot : Used(s, i)}
           w == do_fork(s, memory)
           fails == \/ s.procs_in_use = NR_PROCS \/ ~memory
                    \/ s.procs_in_use >= NR_PROCS - LAST_FEW /\ s.mp # INIT_PROC_NR
           pid == free_pid(s, c)
<1>0. /\ s \in Table /\ p \in User /\ p \in Slot /\ Alive(s, p) /\ Owed(s, p)
      /\ Idle(s.flags[p]) /\ p \in s.blocked /\ p \notin s.posted /\ MaskedAt(s, p) /\ User \subseteq Slot
  BY ServingFacts, SlotFacts
<1>1. Booked(s) /\ Names(s) /\ Pledged(s) /\ Kin(s) /\ Waits(s, {}) /\ Held(s, {}) /\ Masked(s, {})
  BY DEF Serving, Sound, Core
<1>2. CASE fails
  <2>1. w = s BY <1>2, Zenon DEF do_fork
  <2>2. Sound(s) BY DEF Serving
  <2> HIDE DEF w
  <2>3. Fades(s, w) BY <2>1, <2>2, AfterSame DEF After
  <2> QED BY <1>0, <2>1, <2>2, <2>3, FadesServed DEF w
<1>3. CASE ~fails
  <2>1. s.procs_in_use # NR_PROCS /\ ~fails BY <1>3
  <2>2. U \subseteq Slot /\ IsFiniteSet(U) /\ Cardinality(U) \in Nat /\ s.procs_in_use = Cardinality(U)
    <3>1. IsFiniteSet(U) BY SlotFacts, FS_Subset
    <3> QED BY <1>1, <3>1, FS_CardinalityType DEF Booked
  <2>3. free # {}
    <3> SUFFICES ASSUME free = {} PROVE FALSE OBVIOUS
    <3>1. U = Slot BY DEF Used
    <3> QED BY <2>1, <2>2, <3>1, SlotFacts
  <2>4. c \in free
    <3>1. free \in SUBSET Nat BY SlotFacts
    <3> HIDE DEF free
    <3> QED BY <2>3, <3>1, LeastFacts
  <2>5. s.procs_in_use < NR_PROCS
    <3>1. Cardinality(U) <= Cardinality(Slot) BY <2>2, SlotFacts, FS_Subset
    <3> QED BY <2>1, <2>2, <3>1, SlotFacts
  <2>6. c \in Slot /\ ~Used(s, c) BY <2>4 DEF Used
  <2>c. c = Least({i \in Slot : "IN_USE" \notin s.flags[i]}) OBVIOUS
  <2> HIDE DEF c, free
  <2>7. c \in User \ {INIT_PROC_NR} /\ c # p /\ s.flags[c] = {} /\ ~Alive(s, c) /\ Gone(s, c)
    <3>1. c \notin 0 .. 1 BY <1>1, <2>6 DEF Booked, Used
    <3>2. c # INIT_PROC_NR /\ c # p BY <1>0, <1>1, <2>6 DEF Booked, Used, Alive
    <3>3. c \in User BY <2>6, <3>1, SlotFacts
    <3>4. s.flags[c] = {} /\ ~Alive(s, c) BY <1>1, <2>6 DEF Booked, Used, Alive
    <3>5. HeldAt(s, c) BY <1>1, <3>3 DEF Held
    <3> QED BY <3>2, <3>3, <3>4, <3>5 DEF HeldAt
  <2>8. pid \in INIT_PID + 1 .. MaxPid /\ \A x \in Slot \ {c} : s.pid[x] # pid /\ s.procgrp[x] # pid
    BY <1>0, <1>1, <2>7, FreePid
  <2>9. Forked(s, w, p, c, pid)
    <3>1. "TRACED" \notin s.flags[p] /\ s.p_stop = {} BY <1>0, <1>1 DEF Booked
    <3>2. c \notin s.blocked /\ c \in User BY <2>7 DEF Gone
    <3> QED BY <1>0, <2>1, <2>5, <2>7, <2>8, <2>c, <3>1, <3>2, ForkFields
  <2> HIDE DEF w, pid
  <2>p. p = s.mp OBVIOUS
  <2> HIDE DEF p, fails, U
  <2>10. /\ w.flags[c] = s.flags[p] /\ w.procgrp[c] = s.procgrp[p] /\ w.parent[c] = p /\ w.pid[c] = pid
         /\ \A x \in Slot \ {c} : /\ w.flags[x] = s.flags[x] /\ w.procgrp[x] = s.procgrp[x]
                                  /\ w.wpid[x] = s.wpid[x] /\ w.parent[x] = s.parent[x] /\ w.pid[x] = s.pid[x]
    BY <1>0, <2>6, <2>9, Fields DEF Forked, Copy
  <2>11. /\ w \in Table /\ w.procs_in_use = s.procs_in_use + 1
         /\ w.who = s.who /\ w.mp = s.mp /\ w.told = s.told /\ w.dont_reply = s.dont_reply
         /\ w.panic = s.panic /\ w.stray = s.stray /\ w.posted = s.posted /\ w.blocked = s.blocked
         /\ w.p_stop = s.p_stop /\ w.ksig = s.ksig /\ w.unended = s.unended
         /\ w.timer = (IF p \in s.timer THEN s.timer \cup {c} ELSE s.timer)
    BY <2>9 DEF Forked
  <2>12. \A x \in Slot : /\ Used(w, x) <=> Used(s, x) \/ x = c
                         /\ Alive(w, x) <=> Alive(s, x) \/ x = c
    BY <1>0, <2>10, <2>6 DEF Used, Alive
  <2>13. Booked(w)
    <3>1. \A x \in 0 .. 1 : x \in Slot /\ x # c BY <2>7, SlotFacts
    <3>2. \A x \in 0 .. 1 : w.flags[x] = {"IN_USE"} BY <1>1, <2>10, <3>1 DEF Booked
    <3>3. Alive(w, INIT_PROC_NR) BY <1>1, <2>12, SlotFacts DEF Booked
    <3>4. \A x \in Slot : /\ ~Used(w, x) => w.flags[x] = {}
                          /\ "TRACED" \notin w.flags[x] /\ "STOPPED" \notin w.flags[x]
      BY <1>0, <1>1, <2>10, <2>12 DEF Booked
    <3>5. {x \in Slot : Used(w, x)} = U \cup {c} BY <2>6, <2>12 DEF U
    <3>6. Cardinality(U \cup {c}) = Cardinality(U) + 1
      <4>1. c \notin U BY <2>6 DEF U
      <4> QED BY <2>2, <4>1, FS_AddElement
    <3> QED BY <1>1, <2>2, <2>11, <3>2, <3>3, <3>4, <3>5, <3>6 DEF Booked
  <2>14. Names(w)
    <3>1. \A x \in 0 .. 2 : x \in Slot /\ x # c BY <2>7, SlotFacts DEF INIT_PROC_NR
    <3>2. /\ \A x \in 0 .. 1 : w.pid[x] = 0
          /\ w.pid[INIT_PROC_NR] = INIT_PID
          /\ \A x \in 1 .. 2 : w.procgrp[x] = 0
      BY <1>1, <2>10, <3>1 DEF Names, INIT_PROC_NR
    <3>3. ASSUME NEW x \in User \ {INIT_PROC_NR}, Used(w, x) PROVE w.pid[x] > INIT_PID
      <4>1. CASE x = c BY <2>8, <2>10, <4>1, SlotFacts DEF INIT_PID
      <4>2. CASE x # c BY <1>0, <1>1, <2>10, <2>12, <3>3, <4>2 DEF Names
      <4> QED BY <4>1, <4>2
    <3>4. ASSUME NEW x \in User, NEW y \in User, x # y, Used(w, x), Used(w, y)
          PROVE  /\ w.pid[x] # w.pid[y]
                 /\ w.pid[x] = w.procgrp[y] => w.procgrp[x] = w.pid[x]
      <4>0. x \in Slot /\ y \in Slot BY <1>0
      <4>1. CASE x = c
        <5>1. y # c BY <3>4, <4>1
        <5>2. w.pid[y] = s.pid[y] /\ w.procgrp[y] = s.procgrp[y] BY <2>10, <4>0, <5>1
        <5> QED BY <2>8, <2>10, <4>0, <4>1, <5>1, <5>2
      <4>2. CASE y = c
        <5>1. x # c /\ Used(s, x) BY <2>12, <3>4, <4>0, <4>2
        <5>2. w.pid[x] = s.pid[x] /\ w.procgrp[x] = s.procgrp[x] BY <2>10, <4>0, <5>1
        <5>3. s.pid[x] = s.procgrp[p] => s.procgrp[x] = s.pid[x]
          <6>1. Used(s, p) BY <1>0 DEF Alive, Used
          <6> QED BY <1>0, <1>1, <5>1, <6>1 DEF Names
        <5> QED BY <2>8, <2>10, <4>0, <4>2, <5>1, <5>2, <5>3
      <4>3. CASE x # c /\ y # c
        <5>1. /\ w.pid[x] = s.pid[x] /\ w.procgrp[x] = s.procgrp[x]
              /\ w.pid[y] = s.pid[y] /\ w.procgrp[y] = s.procgrp[y] /\ Used(s, x) /\ Used(s, y)
          BY <2>10, <2>12, <3>4, <4>0, <4>3
        <5> QED BY <1>1, <3>4, <5>1 DEF Names
      <4> QED BY <4>1, <4>2, <4>3
    <3> QED BY <3>2, <3>3, <3>4 DEF Names
  <2>15. /\ \A x \in User \ {c} :
              /\ w.ignore[x] = s.ignore[x] /\ w.catch[x] = s.catch[x] /\ w.own[x] = s.own[x]
              /\ w.sigmask[x] = s.sigmask[x] /\ w.sigmask2[x] = s.sigmask2[x]
              /\ w.sigpending[x] = s.sigpending[x] /\ w.frames[x] = s.frames[x]
         /\ w.ignore[c] = s.ignore[p] /\ w.catch[c] = s.catch[p] /\ w.own[c] = s.own[p]
         /\ w.sigmask[c] = s.sigmask[p] /\ w.sigmask2[c] = s.sigmask2[p]
         /\ w.sigpending[c] = s.sigpending[p] /\ w.frames[c] = s.frames[p]
    BY <1>0, <2>7, <2>9, SigFields DEF Forked, Copy
  <2>16. Pledged(w)
    <3>1. w.ksig[INIT_PROC_NR] = {} /\ INIT_PROC_NR \notin w.timer
      BY <1>1, <2>7, <2>11 DEF Pledged
    <3>2. ASSUME NEW x \in User, SIGINT \in w.ksig[x] PROVE w.procgrp[x] = w.pid[x]
      <4>1. x # c /\ x \in Slot BY <1>0, <2>7, <2>11, <3>2 DEF Gone
      <4> QED BY <1>1, <2>10, <2>11, <3>2, <4>1 DEF Pledged
    <3>3. "ALARM" \notin Calls => w.timer = {} /\ \A x \in User : SIGALRM \notin w.ksig[x]
      BY <1>1, <2>11 DEF Pledged
    <3> QED BY <3>1, <3>2, <3>3 DEF Pledged
  <2>17. Kin(w)
    <3>1. \A x \in 0 .. INIT_PROC_NR : w.parent[x] = MM
      <4>1. \A x \in 0 .. INIT_PROC_NR : x \in Slot /\ x # c BY <2>7, SlotFacts DEF INIT_PROC_NR
      <4> QED BY <1>1, <2>10, <4>1 DEF Kin, Family
    <3>2. ASSUME NEW x \in User \ {INIT_PROC_NR}, Used(w, x)
          PROVE  /\ w.parent[x] \in User \ {x}
                 /\ Alive(w, w.parent[x]) \/ (w.parent[x] = MM /\ x > NR_PROCS)
      <4>1. CASE x = c BY <1>0, <2>7, <2>10, <2>12, <4>1
      <4>2. CASE x # c
        <5>1. x \in Slot /\ Used(s, x) /\ w.parent[x] = s.parent[x] BY <1>0, <2>10, <2>12, <3>2, <4>2
        <5>2. /\ s.parent[x] \in User \ {x}
              /\ Alive(s, s.parent[x]) \/ (s.parent[x] = MM /\ x > NR_PROCS)
          BY <1>1, <5>1 DEF Kin, Family
        <5> QED BY <1>0, <2>12, <5>1, <5>2
      <4> QED BY <4>1, <4>2
    <3> QED BY <3>1, <3>2 DEF Kin, Family
  <2>18. Waits(w, {})
    <3> SUFFICES ASSUME NEW x \in User, "WAITING" \in w.flags[x], Alive(w, x)
                 PROVE  /\ x = INIT_PROC_NR => w.wpid[x] = -1
                        /\ "own group" \notin WaitKinds =>
                             /\ w.wpid[x] # 0
                             /\ \A y \in User : Child(w, x, y) => "HANGING" \notin w.flags[y]
      BY DEF Waits
    <3>1. x # c /\ x # p BY <1>0, <2>7, <2>10 DEF Idle
    <3>2. x \in Slot /\ "WAITING" \in s.flags[x] /\ Alive(s, x) /\ w.wpid[x] = s.wpid[x]
      BY <1>0, <2>10, <2>12, <3>1
    <3>3. /\ x = INIT_PROC_NR => s.wpid[x] = -1
          /\ "own group" \notin WaitKinds =>
               /\ s.wpid[x] # 0
               /\ \A y \in User : Child(s, x, y) => "HANGING" \notin s.flags[y]
      BY <1>1, <3>2 DEF Waits
    <3>4. \A y \in User : Child(w, x, y) => y # c BY <2>10, <3>1 DEF Child
    <3>5. \A y \in User : Child(w, x, y) => Child(s, x, y)
      BY <1>0, <2>10, <2>12, <3>2, <3>4 DEF Child
    <3> QED BY <1>0, <2>10, <3>2, <3>3, <3>4, <3>5
  <2>19. Held(w, {})
    <3> SUFFICES ASSUME NEW x \in User PROVE HeldAt(w, x) BY DEF Held
    <3>1. CASE x = c
      <4>1. x \notin w.blocked /\ x \notin w.posted /\ Idle(w.flags[x]) /\ Alive(w, x)
        BY <1>0, <2>7, <2>10, <2>11, <2>12, <3>1 DEF Gone
      <4>2. ~Owed(w, x) BY <1>0, <2>7, <2>11, <3>1 DEF Owed
      <4> QED BY <4>1, <4>2 DEF HeldAt
    <3>2. CASE x # c
      <4>1. HeldAt(s, x) /\ x \in Slot BY <1>0, <1>1 DEF Held
      <4>2. x \in w.timer => x \in s.timer BY <2>11, <3>2
      <4>3. w.flags[x] = s.flags[x] /\ (Alive(w, x) <=> Alive(s, x)) /\ (Owed(w, x) <=> Owed(s, x))
        BY <2>10, <2>11, <2>12, <3>2, <4>1 DEF Owed
      <4> QED BY <2>11, <4>1, <4>2, <4>3 DEF HeldAt, Gone
    <3> QED BY <3>1, <3>2
  <2>20. Masked(w, {})
    <3> SUFFICES ASSUME NEW x \in User, Alive(w, x) PROVE MaskedAt(w, x) BY DEF Masked, MaskedAt
    <3>1. CASE x = c
      <4>1. MaskOK(s, p) /\ s.sigpending[p] \cap s.ignore[p] = {} /\ ("EXEC" \notin Calls => PendOK(s, p))
        BY <1>0 DEF MaskedAt
      <4> QED BY <2>10, <2>15, <3>1, <4>1 DEF MaskedAt, MaskOK, PendOK
    <3>2. CASE x # c
      <4>1. MaskedAt(s, x) /\ Alive(s, x) /\ w.flags[x] = s.flags[x]
        BY <1>0, <1>1, <2>10, <2>12, <3>2 DEF Masked
      <4>2. MaskOK(s, x) /\ s.sigpending[x] \cap s.ignore[x] = {} /\ ("EXEC" \notin Calls => PendOK(s, x))
        BY <4>1 DEF MaskedAt
      <4> QED BY <2>15, <3>2, <4>1, <4>2 DEF MaskedAt, MaskOK, PendOK
    <3> QED BY <3>1, <3>2
  <2>21. Sound(w) BY <2>11, <2>13, <2>14, <2>16, <2>17, <2>18, <2>19, <2>20 DEF Sound, Core
  <2>22. Alarmed(s) => Alarmed(w)
    <3> SUFFICES ASSUME Alarmed(s), NEW x \in w.timer PROVE "ALARM_ON" \in w.flags[x] BY DEF Alarmed
    <3>1. CASE x = c
      <4>1. p \in s.timer BY <2>7, <2>11, <3>1 DEF Gone
      <4> QED BY <2>10, <3>1, <4>1 DEF Alarmed
    <3>2. CASE x # c
      <4>1. x \in s.timer /\ x \in Slot BY <1>0, <2>11, <3>2, Fields
      <4> QED BY <2>10, <3>2, <4>1 DEF Alarmed
    <3> QED BY <3>1, <3>2
  <2> QED BY <2>11, <2>21, <2>22 DEF Served, News, w
<1> QED BY <1>2, <1>3

-----------------------------------------------------------------------------
(***************************************************************************)
(* Kernel signals.                                                         *)
(***************************************************************************)
\* Nothing of what MM's table promises is touched: the flags but for the alarm,
\* the family, the names, the masks.
Quiet(s, t) ==
  /\ t \in Table
  /\ \A x \in Slot : t.flags[x] \subseteq s.flags[x] /\ s.flags[x] \ {"ALARM_ON"} \subseteq t.flags[x]
  /\ \A x \in User : t.procgrp[x] = s.procgrp[x]
  /\ t.procgrp[1] = s.procgrp[1]
  /\ t.pid = s.pid /\ t.wpid = s.wpid /\ t.parent = s.parent
  /\ t.procs_in_use = s.procs_in_use /\ t.p_stop = s.p_stop
  /\ t.panic = s.panic /\ t.stray = s.stray /\ t.frames = s.frames /\ SameSig(s, t)

\* Then the rest decides.
LEMMA QuietOk ==
  ASSUME NEW s, Sound(s), NEW t, Quiet(s, t), t.who \in {HARDWARE, t.mp},
         Pledged(t), Held(t, {})
  PROVE  /\ Sound(t)
         /\ \A x \in Slot : (Used(t, x) <=> Used(s, x)) /\ (Alive(t, x) <=> Alive(s, x))
<1>1. /\ Booked(s) /\ Names(s) /\ Kin(s) /\ Waits(s, {}) /\ Masked(s, {}) /\ s \in Table
      /\ User \subseteq Slot
  BY SlotFacts DEF Sound, Core
<1>2. \A x \in Slot : /\ Used(t, x) <=> Used(s, x)
                      /\ Alive(t, x) <=> Alive(s, x)
                      /\ "WAITING" \in t.flags[x] <=> "WAITING" \in s.flags[x]
                      /\ "HANGING" \in t.flags[x] <=> "HANGING" \in s.flags[x]
                      /\ "SIGSUSPENDED" \in t.flags[x] <=> "SIGSUSPENDED" \in s.flags[x]
  BY DEF Quiet, Used, Alive
<1>3. Booked(t)
  <2>1. \A x \in 0 .. 1 : x \in Slot BY SlotFacts
  <2>2. \A x \in 0 .. 1 : t.flags[x] = {"IN_USE"} BY <1>1, <2>1 DEF Booked, Quiet
  <2>3. Alive(t, INIT_PROC_NR) BY <1>1, <1>2, SlotFacts DEF Booked
  <2>4. \A x \in Slot : /\ ~Used(t, x) => t.flags[x] = {}
                        /\ "TRACED" \notin t.flags[x] /\ "STOPPED" \notin t.flags[x]
    BY <1>1, <1>2 DEF Booked, Quiet
  <2>5. {x \in Slot : Used(t, x)} = {x \in Slot : Used(s, x)} BY <1>2
  <2> QED BY <1>1, <2>2, <2>3, <2>4, <2>5 DEF Booked, Quiet
<1>4. Names(t)
  <2>1. \A x \in 1 .. 2 : t.procgrp[x] = 0
    <3>1. \A x \in 1 .. 2 : x = 1 \/ x = INIT_PROC_NR BY DEF INIT_PROC_NR
    <3>2. s.procgrp[1] = 0 /\ s.procgrp[INIT_PROC_NR] = 0 BY <1>1 DEF Names, INIT_PROC_NR
    <3> QED BY <3>1, <3>2, SlotFacts DEF Quiet
  <2>2. ASSUME NEW x \in User, NEW y \in User, x # y, Used(t, x), Used(t, y)
        PROVE  /\ t.pid[x] # t.pid[y]
               /\ t.pid[x] = t.procgrp[y] => t.procgrp[x] = t.pid[x]
    <3>1. Used(s, x) /\ Used(s, y) BY <1>1, <1>2, <2>2
    <3>2. /\ s.pid[x] # s.pid[y]
          /\ s.pid[x] = s.procgrp[y] => s.procgrp[x] = s.pid[x]
      BY <1>1, <2>2, <3>1 DEF Names
    <3> QED BY <3>2 DEF Quiet
  <2>3. \A x \in User \ {INIT_PROC_NR} : Used(t, x) => t.pid[x] > INIT_PID
    BY <1>1, <1>2 DEF Names, Quiet
  <2>4. (\A x \in 0 .. 1 : t.pid[x] = 0) /\ t.pid[INIT_PROC_NR] = INIT_PID
    BY <1>1 DEF Names, Quiet
  <2> QED BY <2>1, <2>2, <2>3, <2>4 DEF Names
<1>5. Kin(t) BY <1>1, <1>2, SlotFacts DEF Kin, Family, Quiet
<1>6. Waits(t, {})
  <2>1. \A x, y \in User : Child(t, x, y) => Child(s, x, y) BY <1>1, <1>2 DEF Child, Quiet
  <2>2. ASSUME NEW x \in User, "WAITING" \in t.flags[x], Alive(t, x)
        PROVE  /\ x = INIT_PROC_NR => t.wpid[x] = -1
               /\ "own group" \notin WaitKinds =>
                    /\ t.wpid[x] # 0
                    /\ \A y \in User : Child(t, x, y) => "HANGING" \notin t.flags[y]
    <3>1. /\ x = INIT_PROC_NR => s.wpid[x] = -1
          /\ "own group" \notin WaitKinds =>
               /\ s.wpid[x] # 0
               /\ \A y \in User : Child(s, x, y) => "HANGING" \notin s.flags[y]
      BY <1>1, <1>2, <2>2 DEF Waits
    <3>2. t.wpid = s.wpid BY DEF Quiet
    <3> QED BY <1>1, <1>2, <2>1, <3>1, <3>2
  <2> QED BY <2>2 DEF Waits
<1>7. Masked(t, {})
  <2> SUFFICES ASSUME NEW x \in User, Alive(t, x) PROVE MaskedAt(t, x) BY DEF Masked, MaskedAt
  <2>1. MaskedAt(s, x) /\ Alive(s, x) BY <1>1, <1>2 DEF Masked
  <2>2. MaskOK(s, x) /\ s.sigpending[x] \cap s.ignore[x] = {} /\ ("EXEC" \notin Calls => PendOK(s, x))
    BY <2>1 DEF MaskedAt
  <2>3. "SIGSUSPENDED" \in t.flags[x] <=> "SIGSUSPENDED" \in s.flags[x] BY <1>1, <1>2
  <2>4. MaskOK(t, x) BY <2>2, <2>3 DEF MaskOK, Quiet, SameSig
  <2>5. ("EXEC" \notin Calls => PendOK(t, x)) /\ t.sigpending[x] \cap t.ignore[x] = {}
    BY <2>2 DEF PendOK, Quiet, SameSig
  <2> QED BY <2>4, <2>5 DEF MaskedAt
<1>8. t \in Table BY DEF Quiet
<1> QED BY <1>2, <1>3, <1>4, <1>5, <1>6, <1>7, <1>8 DEF Sound, Core

\* Between two messages: MM has a kernel signal for p to deal with.
Signalled(s, p) == Sound(s) /\ s.who = HARDWARE /\ s.mp = MM /\ p \in User /\ s.ksig[p] # {}

\* How do_ksig() starts, and one round of its loop.
KStart(s, p) ==
  [s EXCEPT !.who = HARDWARE, !.mp = MM, !.dont_reply = TRUE,
            !.ksig[p] = {}, !.unended[p] = @ + Cardinality(s.ksig[p]),
            !.procgrp[MM] = s.procgrp[p]]
Calmed(t, p, i) == IF i = SIGALRM THEN [t EXCEPT !.flags[p] = @ \ {"ALARM_ON"}] ELSE t
EndSig(v, p) == [v EXCEPT !.unended[p] = IF @ = 0 THEN 0 ELSE @ - 1]
KRound(s, p, full, i, t) ==
  IF i \in s.ksig[p]
  THEN IF i = SIGALRM /\ "ALARM_ON" \notin t.flags[p] THEN t
       ELSE EndSig(check_sig(Calmed(t, p, i), IF i = SIGINT THEN 0 ELSE s.pid[p], i, full), p)
  ELSE t

\* An alarm runs while a SIGALRM is on its way to MM.
Crosses(s) == \E p \in s.timer : SIGALRM \in s.ksig[p]

\* What holds after a number of signals.
Rounds(s, p, x) ==
  /\ Sound(x) /\ x.dont_reply /\ Dims(KStart(s, p), x)
  /\ Alarmed(s) /\ ~Crosses(s) => Alarmed(x)

\* Who is struck lives and is not INIT.
LEMMA StruckFacts ==
  ASSUME NEW s, NEW p, Signalled(s, p)
  PROVE  /\ s \in Table /\ p \in User /\ p \in Slot /\ Alive(s, p) /\ p # INIT_PROC_NR
         /\ s.pid[p] > INIT_PID /\ s.pid[p] \in Int
         /\ s.ksig[p] \subseteq 1 .. 15 /\ Cardinality(s.ksig[p]) \in Nat
<1>1. s \in Table /\ p \in User /\ p \in Slot /\ HeldAt(s, p) BY SlotFacts DEF Signalled, Sound, Core, Held
<1>2. Alive(s, p) /\ Used(s, p) BY <1>1 DEF Signalled, HeldAt, Gone, Alive, Used
<1>3. p # INIT_PROC_NR BY DEF Signalled, Sound, Core, Pledged
<1>4. s.pid[p] > INIT_PID BY <1>1, <1>2, <1>3 DEF Signalled, Sound, Core, Names
<1>5. s.pid[p] \in Int BY <1>1, Fields, SlotFacts
<1>6. s.ksig[p] \in SUBSET (1 .. 15) BY <1>1, Fields, SigsAssumption
<1>7. IsFiniteSet(1 .. 15)
  <2>1. 1 \in Int /\ 15 \in Int OBVIOUS
  <2> QED BY <2>1, FS_Interval
<1>8. Cardinality(s.ksig[p]) \in Nat BY <1>6, <1>7, FS_Subset, FS_CardinalityType
<1> QED BY <1>1, <1>2, <1>3, <1>4, <1>5, <1>6, <1>8

\* What the start of do_ksig() writes.
LEMMA KStartOk ==
  ASSUME NEW s, NEW p, Signalled(s, p)
  PROVE  LET t == KStart(s, p)
         IN  /\ Rounds(s, p, t) /\ t.timer = s.timer
             /\ t.who = HARDWARE /\ t.mp = MM /\ t.pid = s.pid /\ t.flags = s.flags /\ t.parent = s.parent
             /\ t.wpid = s.wpid /\ t.told = s.told /\ t.procgrp[MM] = s.procgrp[p]
             /\ \A x \in User : t.procgrp[x] = s.procgrp[x]
<1> DEFINE t == KStart(s, p)
           k == Cardinality(s.ksig[p])
           ks == [s.ksig EXCEPT ![p] = {}]
           un == [s.unended EXCEPT ![p] = @ + k]
           g == [s.procgrp EXCEPT ![MM] = s.procgrp[p]]
<1>0. s \in Table /\ p \in User /\ p \in Slot /\ Alive(s, p) /\ s.who = HARDWARE /\ s.mp = MM /\ Sound(s)
  BY StruckFacts DEF Signalled
<1>1. t = [s EXCEPT !.who = HARDWARE, !.mp = MM, !.dont_reply = TRUE, !.ksig = ks, !.unended = un, !.procgrp = g]
  BY DEF KStart
<1>2. k \in Nat BY StruckFacts
<1> HIDE DEF k, t
<1>3. /\ ks \in [User -> SUBSET Sig] /\ un \in [User -> Nat] /\ g \in [Slot -> Pid]
      /\ ks[p] = {} /\ un[p] = s.unended[p] + k /\ g[MM] = s.procgrp[p]
      /\ \A x \in User \ {p} : ks[x] = s.ksig[x] /\ un[x] = s.unended[x]
      /\ \A x \in Slot \ {MM} : g[x] = s.procgrp[x]
  <2>1. /\ s.ksig \in [User -> SUBSET Sig] /\ s.unended \in [User -> Nat] /\ s.procgrp \in [Slot -> Pid]
        /\ MM \in Slot
    BY <1>0, Fields, SlotFacts
  <2>2. ks \in [User -> SUBSET Sig] /\ ks[p] = {} /\ \A x \in User \ {p} : ks[x] = s.ksig[x]
    BY <1>0, <2>1
  <2>3. un \in [User -> Nat] /\ un[p] = s.unended[p] + k /\ \A x \in User \ {p} : un[x] = s.unended[x]
    <3>1. s.unended[p] + k \in Nat BY <1>0, <1>2, <2>1
    <3> QED BY <1>0, <2>1, <3>1
  <2>4. g \in [Slot -> Pid] /\ g[MM] = s.procgrp[p] /\ \A x \in Slot \ {MM} : g[x] = s.procgrp[x]
    BY <1>0, <2>1
  <2> QED BY <2>2, <2>3, <2>4
<1> HIDE DEF ks, un, g
<1>4. /\ t \in Table /\ t.dont_reply /\ t.ksig = ks /\ t.unended = un /\ t.procgrp = g
      /\ t.flags = s.flags /\ t.frames = s.frames /\ SameSig(s, t)
  <2>1. MM \in Slot /\ HARDWARE \in Slot \cup {HARDWARE} BY SlotFacts
  <2>2. s \in Table BY <1>0
  <2>3. ks \in [User -> SUBSET Sig] /\ un \in [User -> Nat] /\ g \in [Slot -> Pid] BY <1>3
  <2>4. t \in Table /\ t.ksig = ks /\ t.unended = un /\ t.procgrp = g /\ t.dont_reply
    BY <1>1, <2>1, <2>2, <2>3 DEF Table
  <2>5. t.flags = s.flags /\ t.frames = s.frames /\ SameSig(s, t)
    BY <1>1, <2>2 DEF Table, SameSig
  <2> QED BY <2>4, <2>5
<1>5. /\ t.who = HARDWARE /\ t.mp = MM
      /\ t.pid = s.pid /\ t.wpid = s.wpid /\ t.next_pid = s.next_pid /\ t.parent = s.parent
      /\ t.told = s.told /\ t.procs_in_use = s.procs_in_use /\ t.panic = s.panic
      /\ t.stray = s.stray /\ t.posted = s.posted /\ t.timer = s.timer /\ t.blocked = s.blocked
      /\ t.p_stop = s.p_stop
  BY <1>0, <1>1 DEF Table
<1>6. \A x \in User : t.procgrp[x] = s.procgrp[x] BY <1>3, <1>4, SlotFacts
<1>7. Quiet(s, t)
  <2>1. t.procgrp[1] = s.procgrp[1] BY <1>3, <1>4, SlotFacts DEF MM
  <2> QED BY <1>4, <1>5, <1>6, <2>1 DEF Quiet
<1>8. Pledged(t)
  <2>1. \A x \in User : t.ksig[x] \subseteq s.ksig[x] BY <1>3, <1>4
  <2>2. Pledged(s) BY <1>0 DEF Sound, Core
  <2>3. \A x \in User : SIGINT \in t.ksig[x] => t.procgrp[x] = t.pid[x]
    BY <1>5, <1>6, <2>1, <2>2 DEF Pledged
  <2>4. t.ksig[INIT_PROC_NR] = {} BY <2>1, <2>2, SlotFacts DEF Pledged
  <2> QED BY <1>4, <1>5, <2>1, <2>2, <2>3, <2>4 DEF Pledged, SameSig
<1>9. \A x : Alive(t, x) <=> Alive(s, x) BY <1>4 DEF Alive
<1>10. Held(t, {})
  <2> SUFFICES ASSUME NEW x \in User PROVE HeldAt(t, x) BY DEF Held
  <2>1. HeldAt(s, x) /\ x # HARDWARE BY <1>0, SlotFacts DEF Sound, Held, HARDWARE
  <2>2. ~Owed(t, x) /\ ~Owed(s, x) BY <1>0, <1>5, <2>1 DEF Owed
  <2>3. Gone(s, x) /\ x # p => Gone(t, x) BY <1>3, <1>4, <1>5 DEF Gone
  <2> QED BY <1>0, <1>4, <1>5, <1>9, <2>1, <2>2, <2>3 DEF HeldAt
<1>11. Sound(t) BY <1>0, <1>5, <1>7, <1>8, <1>10, QuietOk
<1>12. Dims(t, t) BY DEF Dims, SameNames
<1>13. Alarmed(s) => Alarmed(t) BY <1>4, <1>5 DEF Alarmed
<1> QED BY <1>3, <1>4, <1>5, <1>6, <1>11, <1>12, <1>13 DEF Rounds, t

\* The SIGALRM has come: MM forgets that an alarm was set.
LEMMA CalmedOk ==
  ASSUME NEW x, Sound(x), x.who = HARDWARE, NEW p \in User, NEW i
  PROVE  LET u == Calmed(x, p, i)
         IN  /\ Sound(u) /\ Dims(x, u) /\ u.dont_reply = x.dont_reply /\ u.unended = x.unended
             /\ u.timer = x.timer /\ (i # SIGALRM => u = x)
             /\ \A q \in Slot : /\ Alive(u, q) <=> Alive(x, q)
                                /\ q # p => u.flags[q] = x.flags[q]
<1> DEFINE u == Calmed(x, p, i)
           f == [x.flags EXCEPT ![p] = @ \ {"ALARM_ON"}]
<1>0. x \in Table /\ p \in Slot /\ User \subseteq Slot BY SlotFacts DEF Sound, Core
<1>1. CASE i # SIGALRM
  <2>1. u = x BY <1>1 DEF Calmed
  <2>2. Dims(x, x) BY DEF Dims, SameNames
  <2> HIDE DEF u
  <2>3. Sound(u) /\ Dims(x, u) BY <2>1, <2>2
  <2>4. \A q \in Slot : (Alive(u, q) <=> Alive(x, q)) /\ u.flags[q] = x.flags[q] BY <2>1
  <2> QED BY <2>1, <2>3, <2>4 DEF u
<1>2. CASE i = SIGALRM
  <2>1. u = [x EXCEPT !.flags = f] BY <1>2 DEF Calmed
  <2>2. /\ f \in [Slot -> SUBSET MFlag] /\ f[p] = x.flags[p] \ {"ALARM_ON"}
        /\ \A q \in Slot \ {p} : f[q] = x.flags[q]
    BY <1>0, Fields
  <2> HIDE DEF f, u
  <2>3. u \in Table /\ u.flags = f /\ u.frames = x.frames /\ SameSig(x, u)
    BY <1>0, <2>1, <2>2 DEF Table, SameSig
  <2>4. /\ SameNames(x, u) /\ u.parent = x.parent /\ u.told = x.told
        /\ u.procs_in_use = x.procs_in_use /\ u.panic = x.panic
        /\ u.stray = x.stray /\ u.posted = x.posted /\ u.timer = x.timer /\ u.blocked = x.blocked
        /\ u.p_stop = x.p_stop /\ u.ksig = x.ksig /\ u.unended = x.unended /\ u.dont_reply = x.dont_reply
    BY <1>0, <2>1, <2>2 DEF Table, SameNames
  <2>5. \A q \in Slot : u.flags[q] \subseteq x.flags[q] /\ x.flags[q] \ {"ALARM_ON"} \subseteq u.flags[q]
    BY <2>2, <2>3
  <2>6. \A q \in Slot : (Used(u, q) <=> Used(x, q)) /\ (Alive(u, q) <=> Alive(x, q))
    BY <2>5 DEF Used, Alive
  <2>7. Quiet(x, u) BY <2>3, <2>4, <2>5 DEF Quiet, SameNames
  <2>8. Pledged(u)
    <3>1. Pledged(x) BY DEF Sound, Core
    <3> QED BY <2>3, <2>4, <3>1 DEF Pledged, SameNames, SameSig
  <2>9. Held(u, {})
    <3> SUFFICES ASSUME NEW y \in User PROVE HeldAt(u, y) BY DEF Held
    <3>1. HeldAt(x, y) /\ y \in Slot BY <1>0 DEF Sound, Held
    <3>2. Idle(u.flags[y]) <=> Idle(x.flags[y]) BY <2>5, <3>1 DEF Idle
    <3>3. Asleep(u.flags[y]) <=> Asleep(x.flags[y])
      <4>1. \A g \in {"WAITING", "PAUSED", "SIGSUSPENDED"} : g \in u.flags[y] <=> g \in x.flags[y]
        BY <2>5, <3>1
      <4> QED BY <4>1 DEF Asleep
    <3>4. Owed(u, y) <=> Owed(x, y) BY <2>4 DEF Owed, SameNames
    <3> QED BY <2>4, <2>6, <3>1, <3>2, <3>3, <3>4 DEF HeldAt, Gone
  <2>10. Sound(u)
    <3>1. u.who \in {HARDWARE, u.mp} BY <2>4 DEF SameNames
    <3> QED BY <2>7, <2>8, <2>9, <3>1, QuietOk
  <2>11. Dims(x, u)
    <3>1. \A q \in Slot : "WAITING" \in u.flags[q] => "WAITING" \in x.flags[q] BY <2>5
    <3> QED BY <2>4, <2>6, <3>1 DEF Dims
  <2> QED BY <1>0, <1>2, <2>2, <2>3, <2>4, <2>6, <2>10, <2>11 DEF u
<1> QED BY <1>1, <1>2

\* The kernel hears that MM is done with the signal.
LEMMA EndSigOk ==
  ASSUME NEW v, Sound(v), v.who = HARDWARE, NEW p \in User
  PROVE  LET w == EndSig(v, p)
         IN  /\ Sound(w) /\ Dims(v, w) /\ w.dont_reply = v.dont_reply
             /\ w.timer = v.timer /\ w.flags = v.flags
             /\ w.unended[p] = IF v.unended[p] = 0 THEN 0 ELSE v.unended[p] - 1
             /\ \A q \in User \ {p} : w.unended[q] = v.unended[q]
<1> DEFINE w == EndSig(v, p)
           n == IF v.unended[p] = 0 THEN 0 ELSE v.unended[p] - 1
           un == [v.unended EXCEPT ![p] = n]
<1>0. v \in Table /\ p \in Slot /\ User \subseteq Slot BY SlotFacts DEF Sound, Core
<1>1. w = [v EXCEPT !.unended = un] BY DEF EndSig
<1>2. v.unended \in [User -> Nat] /\ n \in Nat BY <1>0, Fields
<1>n. n = IF v.unended[p] = 0 THEN 0 ELSE v.unended[p] - 1 OBVIOUS
<1> HIDE DEF n, w
<1>3. un \in [User -> Nat] /\ un[p] = n /\ \A q \in User \ {p} : un[q] = v.unended[q] BY <1>2
<1> HIDE DEF un
<1>4. w \in Table /\ w.unended = un /\ w.flags = v.flags /\ w.frames = v.frames /\ SameSig(v, w)
  BY <1>0, <1>1, <1>3 DEF Table, SameSig
<1>5. /\ SameNames(v, w) /\ w.parent = v.parent /\ w.told = v.told
      /\ w.procs_in_use = v.procs_in_use /\ w.panic = v.panic
      /\ w.stray = v.stray /\ w.posted = v.posted /\ w.timer = v.timer /\ w.blocked = v.blocked
      /\ w.p_stop = v.p_stop /\ w.ksig = v.ksig /\ w.dont_reply = v.dont_reply
  BY <1>0, <1>1, <1>3 DEF Table, SameNames
<1>6. Quiet(v, w) BY <1>4, <1>5 DEF Quiet, SameNames
<1>7. Pledged(w)
  <2>1. Pledged(v) BY DEF Sound, Core
  <2> QED BY <1>4, <1>5, <2>1 DEF Pledged, SameNames, SameSig
<1>8. \A q : (Used(w, q) <=> Used(v, q)) /\ (Alive(w, q) <=> Alive(v, q)) BY <1>4 DEF Used, Alive
<1>9. Held(w, {})
  <2> SUFFICES ASSUME NEW y \in User PROVE HeldAt(w, y) BY DEF Held
  <2>1. HeldAt(v, y) BY DEF Sound, Held
  <2>2. Gone(v, y) => Gone(w, y)
    <3>1. CASE y = p BY <1>3, <1>4, <1>5, <1>n, <3>1 DEF Gone
    <3>2. CASE y # p BY <1>3, <1>4, <1>5, <3>2 DEF Gone
    <3> QED BY <3>1, <3>2
  <2>3. Owed(w, y) <=> Owed(v, y) BY <1>5 DEF Owed, SameNames
  <2> QED BY <1>4, <1>5, <1>8, <2>1, <2>2, <2>3 DEF HeldAt
<1>10. Sound(w)
  <2>1. w.who \in {HARDWARE, w.mp} BY <1>5 DEF SameNames
  <2> QED BY <1>6, <1>7, <1>9, <2>1, QuietOk
<1>11. Dims(v, w) BY <1>4, <1>5, <1>8 DEF Dims
<1> QED BY <1>3, <1>4, <1>5, <1>10, <1>11, <1>n DEF w

\* One signal.
LEMMA KRoundOk ==
  ASSUME NEW s, NEW p, Signalled(s, p), NEW i \in 1 .. 15, NEW x, Rounds(s, p, x), NEW full
  PROVE  Rounds(s, p, KRound(s, p, full, i, x))
<1> DEFINE st == KStart(s, p)
           w == KRound(s, p, full, i, x)
<1>0. /\ s \in Table /\ p \in User /\ p \in Slot /\ p # INIT_PROC_NR /\ User \subseteq Slot
      /\ s.pid[p] > INIT_PID /\ s.pid[p] \in Int
  BY StruckFacts, SlotFacts
<1>1. /\ st.who = HARDWARE /\ st.mp = MM /\ st.pid = s.pid /\ st.timer = s.timer
      /\ st.procgrp[MM] = s.procgrp[p] /\ \A y \in User : st.procgrp[y] = s.procgrp[y]
  BY KStartOk
<1>3. /\ Sound(x) /\ x.dont_reply /\ Dims(st, x)
      /\ (Alarmed(s) /\ ~Crosses(s) => Alarmed(x))
  BY DEF Rounds
<1>4. /\ x \in Table /\ x.who = HARDWARE /\ x.mp = MM /\ x.pid = s.pid
      /\ x.procgrp[MM] = s.procgrp[p] /\ \A y \in User : x.procgrp[y] = s.procgrp[y]
      /\ x.timer \subseteq User /\ x.timer \subseteq s.timer
  <2>1. x \in Table BY <1>3 DEF Sound, Core
  <2>2. SameNames(st, x) /\ x.timer \subseteq st.timer BY <1>3 DEF Dims
  <2> QED BY <1>1, <2>1, <2>2, Fields DEF SameNames
<1>d. st = KStart(s, p) OBVIOUS
<1> HIDE DEF st
<1>5. CASE i \notin s.ksig[p]
  <2>1. w = x BY <1>5 DEF KRound
  <2> QED BY <1>3, <1>d, <2>1 DEF Rounds
<1>6. CASE i \in s.ksig[p] /\ i = SIGALRM /\ "ALARM_ON" \notin x.flags[p]
  <2>1. w = x BY <1>6 DEF KRound
  <2> QED BY <1>3, <1>d, <2>1 DEF Rounds
<1>7. CASE i \in s.ksig[p] /\ ~(i = SIGALRM /\ "ALARM_ON" \notin x.flags[p])
  <2> DEFINE u == Calmed(x, p, i)
             id == IF i = SIGINT THEN 0 ELSE s.pid[p]
             v == check_sig(u, id, i, full)
  <2>1. w = EndSig(v, p) BY <1>7, Zenon DEF KRound
  <2>2. id \in Int /\ (i # SIGINT => id = s.pid[p]) /\ (i = SIGINT => id = 0) BY <1>0
  <2> HIDE DEF w, v, id
  <2>3. /\ Sound(u) /\ Dims(x, u) /\ u.dont_reply = x.dont_reply /\ u.unended = x.unended
        /\ u.timer = x.timer /\ (i # SIGALRM => u = x)
        /\ \A q \in Slot : /\ Alive(u, q) <=> Alive(x, q)
                           /\ q # p => u.flags[q] = x.flags[q]
    <3>1. Sound(x) /\ x.who = HARDWARE /\ p \in User BY <1>0, <1>3, <1>4
    <3> QED BY <3>1, CalmedOk
  <2> HIDE DEF u
  <2>4. /\ u.who = HARDWARE /\ u.mp = MM /\ u.pid = s.pid
        /\ u.procgrp[MM] = s.procgrp[p] /\ \A y \in User : u.procgrp[y] = s.procgrp[y]
    BY <1>4, <2>3 DEF Dims, SameNames
  <2>5. Spared(u, id)
    <3> SUFFICES ASSUME Addressed(u, INIT_PROC_NR, id) PROVE FALSE BY DEF Spared
    <3>0. INIT_PROC_NR \in User /\ u.pid[INIT_PROC_NR] = INIT_PID /\ s.procgrp[INIT_PROC_NR] = 0
      BY SlotFacts, <2>4 DEF Signalled, Sound, Core, Names, INIT_PROC_NR
    <3>1. CASE i # SIGINT
      <4>1. id > 0 BY <1>0, <2>2, <3>1 DEF INIT_PID
      <4>2. u.pid[INIT_PROC_NR] = id BY <4>1 DEF Addressed
      <4> QED BY <1>0, <2>2, <3>0, <3>1, <4>2 DEF INIT_PID
    <3>2. CASE i = SIGINT
      <4>1. s.procgrp[p] = s.pid[p] BY <1>0, <1>7, <3>2 DEF Signalled, Sound, Core, Pledged
      <4>2. u.procgrp[INIT_PROC_NR] = u.procgrp[u.mp] BY <2>2, <3>2 DEF Addressed
      <4>3. u.procgrp[INIT_PROC_NR] = 0 /\ u.procgrp[u.mp] = s.pid[p] BY <2>4, <3>0, <4>1
      <4>4. s.pid[p] = 0 BY <4>2, <4>3
      <4>5. s.pid[p] > 1 BY <1>0 DEF INIT_PID
      <4> QED BY <4>4, <4>5
    <3> QED BY <3>1, <3>2
  <2>6. After(u, v) BY <2>2, <2>3, <2>5, CheckSigOk DEF v
  <2>7. Sound(v) /\ v.dont_reply /\ v.who = HARDWARE /\ Fades(u, v) /\ v \in Table
    BY <1>3, <2>3, <2>4, <2>6 DEF After, Fades, Wanes, Dims, SameNames, Sound, Core
  <2>8. /\ Sound(w) /\ Dims(v, w) /\ w.dont_reply = v.dont_reply
        /\ w.timer = v.timer /\ w.flags = v.flags
    BY <1>0, <2>1, <2>7, EndSigOk
  <2>9. Dims(st, w)
    <3>1. Dims(u, v) BY <2>7 DEF Fades, Wanes
    <3>2. Dims(st, u) BY <1>3, <2>3, DimsTrans
    <3>3. Dims(st, v) BY <3>1, <3>2, DimsTrans
    <3> QED BY <2>8, <3>3, DimsTrans
  <2>10. ASSUME Alarmed(s), ~Crosses(s), NEW q \in w.timer PROVE "ALARM_ON" \in w.flags[q]
    <3>1. q \in v.timer /\ q \in u.timer /\ q \in x.timer /\ q \in User /\ q \in Slot
      BY <1>0, <1>4, <2>3, <2>7, <2>8, <2>10 DEF Fades, Wanes, Dims
    <3>2. "ALARM_ON" \in x.flags[q] BY <1>3, <2>10, <3>1 DEF Alarmed
    <3>3. CASE q # p \/ i # SIGALRM
      <4>1. "ALARM_ON" \in u.flags[q] BY <2>3, <3>1, <3>2, <3>3
      <4> QED BY <2>7, <2>8, <3>1, <4>1 DEF Fades
    <3>4. CASE q = p /\ i = SIGALRM BY <1>4, <1>7, <2>10, <3>1, <3>4 DEF Crosses
    <3> QED BY <3>3, <3>4
  <2>11. Alarmed(s) /\ ~Crosses(s) => Alarmed(w) BY <2>10 DEF Alarmed
  <2> QED BY <1>d, <2>7, <2>8, <2>9, <2>11 DEF Rounds, w
<1> QED BY <1>5, <1>6, <1>7

\* do_ksig(), from the first signal to the last.
LEMMA KSigOk ==
  ASSUME NEW s, NEW p, Signalled(s, p), NEW full
  PROVE  LET w == do_ksig(s, p, full)
         IN  /\ Sound(w) /\ w.dont_reply /\ w.who = HARDWARE /\ w.mp = MM /\ News(s, w)
             /\ Alarmed(s) /\ ~Crosses(s) => Alarmed(w)
<1> DEFINE st == KStart(s, p)
           F == [i \in 1 .. 15 |-> [x \in Table |-> KRound(s, p, full, i, x)]]
           T == [i \in 0 .. 15 |-> {x \in Table : Rounds(s, p, x)}]
           Is(f) == f = [i \in 0 .. 15 |-> IF i = 0 THEN st ELSE KRound(s, p, full, i, f[i - 1])]
           after[i \in 0 .. 15] == IF i = 0 THEN st ELSE KRound(s, p, full, i, after[i - 1])
           w == after[15]
<1>0. \A x : Rounds(s, p, x) => x \in Table BY DEF Rounds, Sound, Core
<1>1. st \in T[0]
  <2>1. Rounds(s, p, st) BY KStartOk
  <2> HIDE DEF st
  <2> QED BY <1>0, <2>1
<1>2. ASSUME NEW i \in 1 .. 15, NEW x \in T[i - 1]
      PROVE  x \in Table /\ KRound(s, p, full, i, x) \in T[i]
  <2>1. i - 1 \in 0 .. 15 /\ i \in 0 .. 15 OBVIOUS
  <2>2. x \in Table /\ Rounds(s, p, x) BY <1>2, <2>1
  <2> DEFINE y == KRound(s, p, full, i, x)
  <2>3. Rounds(s, p, y) BY <2>2, KRoundOk
  <2> HIDE DEF y
  <2>4. y \in T[i] BY <1>0, <2>1, <2>3
  <2> QED BY <2>2, <2>4 DEF y
<1> HIDE DEF T
<1> DEFINE a == 0
           b == 15
<1>r. a = 0 /\ b = 15 /\ a \in Int /\ b \in Int /\ a <= b /\ a + 1 = 1 /\ a \in a .. b /\ b \in a .. b OBVIOUS
<1>3. PICK f : LoopOf(f, a, b, st, F)
  <2> HIDE DEF a, b, F, st
  <2> QED BY <1>r, LoopExists
<1>4. ASSUME NEW i \in 1 .. 15, f[i - 1] \in T[i - 1]
      PROVE  f[i] = KRound(s, p, full, i, f[i - 1]) /\ f[i] \in T[i]
  <2>1. i \in a .. b /\ i # a OBVIOUS
  <2>2. f[i] = F[i][f[i - 1]] BY <1>3, <2>1 DEF LoopOf
  <2>3. f[i - 1] \in Table /\ KRound(s, p, full, i, f[i - 1]) \in T[i] BY <1>2, <1>4
  <2>4. F[i][f[i - 1]] = KRound(s, p, full, i, f[i - 1]) BY <2>3
  <2> QED BY <2>2, <2>3, <2>4
<1> HIDE DEF F, st, a, b
<1>5. \A i \in 0 .. 15 : f[i] \in T[i]
  <2>1. f[a] = st BY <1>r, <1>3 DEF LoopOf
  <2> QED BY <1>r, <1>1, <1>4, <2>1, LoopKeeps
<1>6. Is(f)
  <2>1. ASSUME NEW i \in 0 .. 15, i # 0 PROVE f[i] = KRound(s, p, full, i, f[i - 1])
    <3>1. i \in 1 .. 15 /\ i - 1 \in 0 .. 15 BY <2>1
    <3> QED BY <1>4, <1>5, <3>1
  <2>2. f[a] = st /\ DOMAIN f = a .. b /\ f = [i \in a .. b |-> f[i]] BY <1>r, <1>3 DEF LoopOf
  <2> QED BY <1>r, <2>1, <2>2
<1>7. Is(after) BY <1>6
<1>8. do_ksig(s, p, full) = w BY DEF do_ksig, KRound, KStart, Calmed, EndSig, st
<1> HIDE DEF after
<1>9. \A i \in 0 .. 15 : after[i] \in T[i]
  <2>1. after[a] = st BY <1>r, <1>7
  <2>2. \A i \in 1 .. 15 : after[i] = KRound(s, p, full, i, after[i - 1]) BY <1>7
  <2>3. \A i \in 1 .. 15 : after[i - 1] \in T[i - 1] => after[i] \in T[i] BY <1>2, <2>2
  <2> QED BY <1>r, <1>1, <2>1, <2>3, LoopKeeps
<1>10. Rounds(s, p, w) BY <1>9 DEF T
<1> HIDE DEF w
<1>11. /\ Sound(w) /\ w.dont_reply /\ Dims(KStart(s, p), w)
       /\ (Alarmed(s) /\ ~Crosses(s) => Alarmed(w))
  BY <1>10 DEF Rounds
<1>12. /\ st.who = HARDWARE /\ st.mp = MM /\ st.pid = s.pid /\ st.flags = s.flags /\ st.parent = s.parent
       /\ st.wpid = s.wpid /\ st.told = s.told
       /\ \A x \in User : st.procgrp[x] = s.procgrp[x]
  BY KStartOk DEF st
<1>13. Dims(st, w) BY <1>11 DEF st
<1>14. w.who = HARDWARE /\ w.mp = MM BY <1>12, <1>13 DEF Dims, SameNames
<1>15. News(s, w)
  <2> SUFFICES ASSUME NEW q \in User, w.told[q] # s.told[q] PROVE Tells(s, w, q) BY DEF News
  <2>1. Tells(st, w, q) BY <1>12, <1>13 DEF Dims
  <2> QED BY <1>12, <2>1 DEF Tells, Used, Alive
<1> QED BY <1>8, <1>11, <1>14, <1>15

-----------------------------------------------------------------------------
(***************************************************************************)
(* Around the calls: the main loop, the kernel and the clock.              *)
(***************************************************************************)
\* MM's globals, its messages and the kernel's part but for the answers that
\* signals still wait for.
Touch(s, w, q, d, po, bl, ti, ks, to) ==
  [s EXCEPT !.who = w, !.mp = q, !.dont_reply = d, !.posted = po, !.blocked = bl,
            !.timer = ti, !.ksig = ks, !.told = to]

\* Everything else.
Untouched(s, t) ==
  /\ t.flags = s.flags /\ t.parent = s.parent /\ t.pid = s.pid /\ t.procgrp = s.procgrp
  /\ t.wpid = s.wpid /\ t.unended = s.unended /\ t.frames = s.frames /\ SameSig(s, t)

Fits(w, q, d, po, bl, ti, ks, to) ==
  /\ q \in Slot /\ w \in {HARDWARE, q} /\ d \in BOOLEAN
  /\ po \in SUBSET User /\ bl \in SUBSET User /\ ti \in SUBSET User
  /\ ks \in [User -> SUBSET Sig] /\ to \in [Slot -> Pid]

\* What t is then.
Touched(s, t, w, q, d, po, bl, ti, ks, to) ==
  /\ t.who = w /\ t.mp = q /\ t.dont_reply = d /\ t.posted = po /\ t.blocked = bl
  /\ t.timer = ti /\ t.ksig = ks /\ t.told = to /\ Untouched(s, t)
  /\ Pledged(t) /\ Held(t, {}) => Sound(t)

\* What Touch() leaves alone, and that it is quiet.
LEMMA TouchOk ==
  ASSUME NEW s, Sound(s), NEW w, NEW q, NEW d, NEW po, NEW bl, NEW ti, NEW ks, NEW to,
         Fits(w, q, d, po, bl, ti, ks, to)
  PROVE  Touched(s, Touch(s, w, q, d, po, bl, ti, ks, to), w, q, d, po, bl, ti, ks, to)
<1> DEFINE t == Touch(s, w, q, d, po, bl, ti, ks, to)
<1>1. s \in Table BY DEF Sound, Core
<1>2. /\ q \in Slot /\ w \in Slot \cup {HARDWARE} /\ w \in {HARDWARE, q} /\ d \in BOOLEAN
      /\ po \in SUBSET User /\ bl \in SUBSET User /\ ti \in SUBSET User
      /\ ks \in [User -> SUBSET Sig] /\ to \in [Slot -> Pid]
  BY DEF Fits
<1>3. /\ t \in Table /\ t.who = w /\ t.mp = q /\ t.dont_reply = d /\ t.posted = po
      /\ t.blocked = bl /\ t.timer = ti /\ t.ksig = ks /\ t.told = to
  BY <1>1, <1>2 DEF Table, Touch
<1>4. /\ t.flags = s.flags /\ t.parent = s.parent /\ t.pid = s.pid /\ t.procgrp = s.procgrp
      /\ t.wpid = s.wpid /\ t.unended = s.unended /\ t.frames = s.frames /\ SameSig(s, t)
      /\ t.procs_in_use = s.procs_in_use /\ t.p_stop = s.p_stop
      /\ t.panic = s.panic /\ t.stray = s.stray
  BY <1>1 DEF Table, Touch, SameSig
<1> HIDE DEF t
<1>5. Quiet(s, t) BY <1>3, <1>4 DEF Quiet
<1>6. Pledged(t) /\ Held(t, {}) => Sound(t) BY <1>2, <1>3, <1>5, QuietOk
<1> QED BY <1>3, <1>4, <1>6 DEF Untouched, Touched, t

\* Between two steps: MM is idle.
Ready(s) == Sound(s) /\ s.who = HARDWARE /\ s.mp = MM /\ ~s.dont_reply

\* Nobody is told anything that it did not wait for.
Right(s, t) == \A p \in User : "WAITING" \in s.flags[p] /\ t.told[p] # 0 => Tells(s, t, p)

Zero == [p \in Slot |-> 0]

\* Between two steps MM owes no answer.
LEMMA ReadyFacts ==
  ASSUME NEW s, Ready(s)
  PROVE  /\ s \in Table /\ HARDWARE \notin User /\ MM \in Slot /\ User \subseteq Slot
         /\ Zero \in [Slot -> Pid] /\ Pledged(s)
         /\ s.posted \in SUBSET User /\ s.blocked \in SUBSET User /\ s.timer \in SUBSET User
         /\ s.ksig \in [User -> SUBSET Sig] /\ s.told \in [Slot -> Pid]
         /\ \A x \in User :
              /\ ~Alive(s, x) => Gone(s, x)
              /\ Alive(s, x) => IF x \in s.blocked THEN Asleep(s.flags[x]) ELSE Idle(s.flags[x])
              /\ x \in s.posted => x \notin s.blocked
<1>1. s \in Table /\ Pledged(s) /\ Held(s, {}) /\ s.who = HARDWARE BY DEF Ready, Sound, Core
<1>2. HARDWARE \notin User /\ MM \in Slot /\ User \subseteq Slot /\ 0 \in Pid BY SlotFacts DEF HARDWARE
<1>3. \A x \in User : ~Owed(s, x) BY <1>1, <1>2 DEF Owed
<1>4. ASSUME NEW x \in User
      PROVE  /\ ~Alive(s, x) => Gone(s, x)
             /\ Alive(s, x) => IF x \in s.blocked THEN Asleep(s.flags[x]) ELSE Idle(s.flags[x])
             /\ x \in s.posted => x \notin s.blocked
  <2>1. HeldAt(s, x) BY <1>1 DEF Held
  <2> QED BY <1>3, <2>1 DEF HeldAt
<1>5. Zero \in [Slot -> Pid] BY <1>2 DEF Zero
<1> QED BY <1>1, <1>2, <1>4, <1>5, Fields

\* The kernel may add to what it has for MM, about live processes.
LEMMA OutsideOk ==
  ASSUME NEW s, Ready(s), NEW po \in SUBSET User, NEW ti \in SUBSET s.timer,
         NEW ks \in [User -> SUBSET Sig], NEW to \in [Slot -> Pid],
         \A x \in User : /\ x \in po => x \in s.posted \/ (Alive(s, x) /\ x \notin s.blocked)
                         /\ ks[x] = s.ksig[x] \/ Alive(s, x),
         ks[INIT_PROC_NR] = {}, \A x \in User : SIGINT \in ks[x] => s.procgrp[x] = s.pid[x],
         "ALARM" \notin Calls => \A x \in User : SIGALRM \notin ks[x]
  PROVE  LET t == Touch(s, HARDWARE, MM, FALSE, po, s.blocked, ti, ks, to)
         IN  Ready(t) /\ (Alarmed(s) => Alarmed(t))
<1> DEFINE t == Touch(s, HARDWARE, MM, FALSE, po, s.blocked, ti, ks, to)
<1>1. /\ s \in Table /\ Sound(s) /\ HARDWARE \notin User /\ MM \in Slot /\ User \subseteq Slot /\ Pledged(s)
      /\ s.blocked \in SUBSET User /\ s.timer \in SUBSET User
      /\ \A x \in User :
           /\ ~Alive(s, x) => Gone(s, x)
           /\ Alive(s, x) => IF x \in s.blocked THEN Asleep(s.flags[x]) ELSE Idle(s.flags[x])
           /\ x \in s.posted => x \notin s.blocked
  BY ReadyFacts DEF Ready
<1>2. Fits(HARDWARE, MM, FALSE, po, s.blocked, ti, ks, to) BY <1>1 DEF Fits
<1>3. /\ t.who = HARDWARE /\ t.mp = MM /\ t.dont_reply = FALSE /\ t.posted = po /\ t.blocked = s.blocked
      /\ t.timer = ti /\ t.ksig = ks /\ t.told = to /\ Untouched(s, t)
      /\ Pledged(t) /\ Held(t, {}) => Sound(t)
  <2>1. Touched(s, t, HARDWARE, MM, FALSE, po, s.blocked, ti, ks, to)
    BY <1>1, <1>2, TouchOk
  <2> HIDE DEF t
  <2> QED BY <2>1 DEF Touched
<1> HIDE DEF t
<1>4. \A x : Alive(t, x) <=> Alive(s, x) BY <1>3 DEF Alive, Untouched
<1>5. Pledged(t)
  <2>1. INIT_PROC_NR \notin t.timer BY <1>1, <1>3 DEF Pledged
  <2>2. "ALARM" \notin Calls => t.timer = {} BY <1>1, <1>3 DEF Pledged
  <2>3. \A p \in User : SIGINT \in t.ksig[p] => t.procgrp[p] = t.pid[p] BY <1>3 DEF Untouched
  <2> QED BY <1>3, <2>1, <2>2, <2>3 DEF Pledged
<1>6. Held(t, {})
  <2> SUFFICES ASSUME NEW x \in User PROVE HeldAt(t, x) BY DEF Held
  <2>1. ~Owed(t, x) BY <1>1, <1>3 DEF Owed
  <2>2. /\ ~Alive(s, x) => Gone(s, x)
        /\ Alive(s, x) => IF x \in s.blocked THEN Asleep(s.flags[x]) ELSE Idle(s.flags[x])
        /\ x \in s.posted => x \notin s.blocked
    BY <1>1
  <2>3. /\ x \in po => x \in s.posted \/ (Alive(s, x) /\ x \notin s.blocked)
        /\ ks[x] = s.ksig[x] \/ Alive(s, x)
    OBVIOUS
  <2>4. ~Alive(t, x) => Gone(t, x) BY <1>3, <1>4, <2>2, <2>3 DEF Gone, Untouched
  <2>5. t.flags[x] = s.flags[x] BY <1>3 DEF Untouched
  <2> QED BY <1>3, <1>4, <2>1, <2>2, <2>3, <2>4, <2>5 DEF HeldAt
<1>7. Sound(t) BY <1>3, <1>5, <1>6
<1>8. Alarmed(s) => Alarmed(t) BY <1>3 DEF Alarmed, Untouched
<1> QED BY <1>3, <1>7, <1>8 DEF Ready, t

\* With nothing told the table is as good.
LEMMA FreshOk ==
  ASSUME Ready(m)
  PROVE  /\ Ready(Fresh) /\ Untouched(m, Fresh) /\ Fresh.told = Zero
         /\ Fresh.posted = m.posted /\ Fresh.blocked = m.blocked /\ Fresh.timer = m.timer
         /\ Fresh.ksig = m.ksig
<1> DEFINE t == Touch(m, HARDWARE, MM, FALSE, m.posted, m.blocked, m.timer, m.ksig, Zero)
<1>1. /\ m \in Table /\ Sound(m) /\ MM \in Slot /\ Zero \in [Slot -> Pid] /\ Pledged(m)
      /\ m.posted \in SUBSET User /\ m.blocked \in SUBSET User /\ m.timer \in SUBSET User
      /\ m.ksig \in [User -> SUBSET Sig] /\ INIT_PROC_NR \in User
  BY ReadyFacts, SlotFacts DEF Ready
<1>2. m.who = HARDWARE /\ m.mp = MM /\ m.dont_reply = FALSE BY Fields, <1>1 DEF Ready
<1>3. Fresh = t
  <2>1. Fresh = [m EXCEPT !.told = Zero] BY DEF Fresh, Zero
  <2> QED BY <1>1, <1>2, <2>1 DEF Table, Touch
<1>4. Ready(t)
  <2>1. /\ m.ksig[INIT_PROC_NR] = {} /\ (\A x \in User : SIGINT \in m.ksig[x] => m.procgrp[x] = m.pid[x])
        /\ "ALARM" \notin Calls => \A x \in User : SIGALRM \notin m.ksig[x]
    BY <1>1 DEF Pledged
  <2>2. m.timer \in SUBSET m.timer OBVIOUS
  <2> HIDE DEF t
  <2> QED BY <1>1, <2>1, <2>2, OutsideOk DEF t
<1>5. /\ t.posted = m.posted /\ t.blocked = m.blocked /\ t.timer = m.timer
      /\ t.ksig = m.ksig /\ t.told = Zero /\ Untouched(m, t)
  <2>1. Fits(HARDWARE, MM, FALSE, m.posted, m.blocked, m.timer, m.ksig, Zero) BY <1>1 DEF Fits
  <2>2. /\ t.who = HARDWARE /\ t.mp = MM /\ t.dont_reply = FALSE /\ t.posted = m.posted
        /\ t.blocked = m.blocked /\ t.timer = m.timer /\ t.ksig = m.ksig /\ t.told = Zero
        /\ Untouched(m, t) /\ (Pledged(t) /\ Held(t, {}) => Sound(t))
    <3>1. Touched(m, t, HARDWARE, MM, FALSE, m.posted, m.blocked, m.timer, m.ksig, Zero)
      BY <1>1, <2>1, TouchOk
    <3> HIDE DEF t
    <3> QED BY <3>1 DEF Touched
  <2> HIDE DEF t
  <2> QED BY <2>2
<1> HIDE DEF t
<1> QED BY <1>3, <1>4, <1>5

\* A process that sent a call to MM can be served.
LEMMA ReceivedOk ==
  ASSUME Ready(m), NEW p \in m.posted
  PROVE  LET s == Received(p)
         IN  /\ Serving(s) /\ s.mp = p /\ s.told = Zero /\ Untouched(m, s) /\ s.timer = m.timer
<1> DEFINE po == m.posted \ {p}
           bl == m.blocked \cup {p}
           t == Touch(m, p, p, FALSE, po, bl, m.timer, m.ksig, Zero)
<1>1. /\ m \in Table /\ Sound(m) /\ HARDWARE \notin User /\ User \subseteq Slot
      /\ Zero \in [Slot -> Pid] /\ Pledged(m)
      /\ m.posted \in SUBSET User /\ m.blocked \in SUBSET User /\ m.timer \in SUBSET User
      /\ m.ksig \in [User -> SUBSET Sig]
      /\ \A x \in User :
           /\ ~Alive(m, x) => Gone(m, x)
           /\ Alive(m, x) => IF x \in m.blocked THEN Asleep(m.flags[x]) ELSE Idle(m.flags[x])
           /\ x \in m.posted => x \notin m.blocked
  BY ReadyFacts DEF Ready
<1>2. p \in User /\ p \in Slot /\ Fits(p, p, FALSE, po, bl, m.timer, m.ksig, Zero)
  BY <1>1 DEF Fits
<1>3. Received(p) = t
  <2>1. Fresh = [m EXCEPT !.told = Zero] BY DEF Fresh, Zero
  <2>2. Fresh.posted = m.posted /\ Fresh.blocked = m.blocked BY FreshOk
  <2>3. Received(p) = [Fresh EXCEPT !.who = p, !.mp = p, !.dont_reply = FALSE,
                                    !.posted = po, !.blocked = bl]
    BY <2>2 DEF Received
  <2> HIDE DEF po, bl
  <2> DEFINE r == Received(p)
  <2>4. r = [Fresh EXCEPT !.who = p, !.mp = p, !.dont_reply = FALSE, !.posted = po, !.blocked = bl]
    BY <2>3
  <2> HIDE DEF r
  <2>5. r = t BY <1>1, <2>1, <2>4 DEF Table, Touch
  <2> QED BY <2>5 DEF r
<1>p. po = m.posted \ {p} /\ bl = m.blocked \cup {p} OBVIOUS
<1> HIDE DEF po, bl
<1>4. /\ t.who = p /\ t.mp = p /\ t.dont_reply = FALSE /\ t.posted = po /\ t.blocked = bl
      /\ t.timer = m.timer /\ t.ksig = m.ksig /\ t.told = Zero /\ Untouched(m, t)
      /\ (Pledged(t) /\ Held(t, {}) => Sound(t))
  <2>1. Touched(m, t, p, p, FALSE, po, bl, m.timer, m.ksig, Zero)
    BY <1>1, <1>2, TouchOk
  <2> HIDE DEF t
  <2> QED BY <2>1 DEF Touched
<1> HIDE DEF t
<1>5. \A x : Alive(t, x) <=> Alive(m, x) BY <1>4 DEF Alive, Untouched
<1>6. Pledged(t) BY <1>1, <1>4 DEF Pledged, Untouched, SameSig
<1>7. Alive(m, p) /\ p \notin m.blocked BY <1>1, <1>2 DEF Gone
<1>8. Held(t, {})
  <2> SUFFICES ASSUME NEW x \in User PROVE HeldAt(t, x) BY DEF Held
  <2>1. Owed(t, x) <=> x = p BY <1>4 DEF Owed
  <2>2. /\ ~Alive(m, x) => Gone(m, x)
        /\ Alive(m, x) => IF x \in m.blocked THEN Asleep(m.flags[x]) ELSE Idle(m.flags[x])
        /\ x \in m.posted => x \notin m.blocked
    BY <1>1
  <2>3. t.flags[x] = m.flags[x] BY <1>4 DEF Untouched
  <2>4. ~Alive(t, x) => Gone(t, x) /\ x # p BY <1>4, <1>5, <1>7, <1>p, <2>2 DEF Gone, Untouched
  <2>5. CASE x = p BY <1>4, <1>5, <1>7, <1>p, <2>1, <2>2, <2>3, <2>5 DEF HeldAt
  <2>6. CASE x # p BY <1>4, <1>5, <1>p, <2>1, <2>2, <2>3, <2>4, <2>6 DEF HeldAt
  <2> QED BY <2>5, <2>6
<1>9. Serving(t) BY <1>2, <1>4, <1>5, <1>6, <1>7, <1>8 DEF Serving
<1> QED BY <1>3, <1>4, <1>9

\* The end of the loop: who is still owed an answer gets it.
LEMMA FinishOk ==
  ASSUME NEW s, Sound(s), s.who \in User \/ s.dont_reply
  PROVE  LET t == Finish(s)
         IN  Ready(t) /\ Untouched(s, t) /\ t.told = s.told /\ t.timer = s.timer
<1> DEFINE bl == IF ~s.dont_reply /\ Alive(s, s.who) THEN s.blocked \ {s.who} ELSE s.blocked
           t == Touch(s, HARDWARE, MM, FALSE, s.posted, bl, s.timer, s.ksig, s.told)
<1>1. /\ s \in Table /\ Booked(s) /\ Pledged(s) /\ Held(s, {}) /\ HARDWARE \notin User /\ MM \in Slot
  BY SlotFacts DEF Sound, Core, HARDWARE
<1>2. Fits(HARDWARE, MM, FALSE, s.posted, bl, s.timer, s.ksig, s.told)
  <2>1. /\ bl \in SUBSET User /\ s.posted \in SUBSET User /\ s.timer \in SUBSET User
        /\ s.ksig \in [User -> SUBSET Sig] /\ s.told \in [Slot -> Pid]
    BY <1>1, Fields
  <2> HIDE DEF bl
  <2> QED BY <1>1, <2>1 DEF Fits
<1>3. \A x \in User : Owed(s, x) => x \notin bl \/ ~Alive(s, x) BY DEF Owed
<1>4. \A x \in User : ~Owed(s, x) => (x \in bl <=> x \in s.blocked) BY DEF Owed
<1>5. bl \subseteq s.blocked OBVIOUS
<1>6. Finish(s) = t
  <2> DEFINE u == IF s.dont_reply THEN s ELSE reply(s, s.who)
  <2>1. u = [s EXCEPT !.blocked = bl]
    <3>1. CASE s.dont_reply
      <4>1. u = s /\ bl = s.blocked BY <3>1
      <4> QED BY <1>1, <4>1 DEF Table
    <3>2. CASE ~s.dont_reply /\ Alive(s, s.who)
      <4>1. s.who \in User BY <3>2
      <4>2. s.who \in s.blocked BY <1>1, <3>2, <4>1 DEF Held, HeldAt, Owed
      <4>3. u = [s EXCEPT !.blocked = @ \ {s.who}] BY <3>2, <4>2 DEF reply
      <4>4. bl = s.blocked \ {s.who} BY <3>2
      <4> QED BY <4>3, <4>4
    <3>3. CASE ~s.dont_reply /\ ~Alive(s, s.who)
      <4>1. s.who \in User BY <3>3
      <4>2. ~(s.who < 0) BY <4>1, SlotFacts
      <4>3. u = [s EXCEPT !.panic = @ \/ s.who < 0] BY <3>3 DEF reply
      <4>4. bl = s.blocked BY <3>3
      <4>5. s.panic = FALSE BY <1>1 DEF Table, Booked
      <4>6. u = [s EXCEPT !.panic = FALSE] BY <4>2, <4>3, <4>5
      <4> HIDE DEF u, bl
      <4>7. u = s BY <1>1, <4>5, <4>6 DEF Table
      <4> QED BY <1>1, <4>4, <4>7 DEF Table
    <3> QED BY <3>1, <3>2, <3>3
  <2>2. Finish(s) = [u EXCEPT !.who = HARDWARE, !.mp = MM, !.dont_reply = FALSE] BY DEF Finish
  <2> HIDE DEF u, bl
  <2> QED BY <1>1, <2>1, <2>2 DEF Table, Touch
<1> HIDE DEF bl
<1>7. /\ t.who = HARDWARE /\ t.mp = MM /\ t.dont_reply = FALSE /\ t.posted = s.posted /\ t.blocked = bl
      /\ t.timer = s.timer /\ t.ksig = s.ksig /\ t.told = s.told /\ Untouched(s, t)
      /\ (Pledged(t) /\ Held(t, {}) => Sound(t))
  <2>1. Touched(s, t, HARDWARE, MM, FALSE, s.posted, bl, s.timer, s.ksig, s.told)
    BY <1>1, <1>2, TouchOk
  <2> HIDE DEF t
  <2> QED BY <2>1 DEF Touched
<1> HIDE DEF t
<1>8. \A x : Alive(t, x) <=> Alive(s, x) BY <1>7 DEF Alive, Untouched
<1>9. Pledged(t) BY <1>1, <1>7 DEF Pledged, Untouched, SameSig
<1>10. Held(t, {})
  <2> SUFFICES ASSUME NEW x \in User PROVE HeldAt(t, x) BY DEF Held
  <2>1. ~Owed(t, x) BY <1>1, <1>7 DEF Owed
  <2>2. HeldAt(s, x) BY <1>1 DEF Held
  <2>3. t.flags[x] = s.flags[x] BY <1>7 DEF Untouched
  <2>4. Gone(s, x) => Gone(t, x) BY <1>5, <1>7 DEF Gone, Untouched
  <2>5. CASE Owed(s, x) BY <1>3, <1>5, <1>7, <1>8, <2>1, <2>2, <2>3, <2>4, <2>5 DEF HeldAt
  <2>6. CASE ~Owed(s, x) BY <1>4, <1>7, <1>8, <2>1, <2>2, <2>3, <2>4, <2>6 DEF HeldAt
  <2> QED BY <2>5, <2>6
<1>11. Ready(t) BY <1>7, <1>9, <1>10 DEF Ready
<1> QED BY <1>6, <1>7, <1>11

-----------------------------------------------------------------------------
(***************************************************************************)
(* The steps.                                                              *)
(***************************************************************************)
IInv == Ready(m)

\* What a step that starts with an idle MM must do.
Step(t) == Ready(t) /\ Right(m, t) /\ (Alarmed(m) /\ ~Crosses(m) => Alarmed(t))

\* Whoever is told, is told by what MM did with the fresh table.
LEMMA RightOk ==
  ASSUME Ready(m), NEW s, Untouched(m, s), s.told = Zero, NEW w, News(s, w), NEW t, t.told = w.told
  PROVE  Right(m, t)
<1> SUFFICES ASSUME NEW p \in User, "WAITING" \in m.flags[p], t.told[p] # 0
             PROVE  Tells(m, t, p)
  BY DEF Right
<1>1. s.told[p] = 0 BY SlotFacts DEF Zero
<1>2. s.flags = m.flags /\ s.pid = m.pid /\ s.parent = m.parent /\ s.wpid = m.wpid /\ s.procgrp = m.procgrp
  BY DEF Untouched
<1>3. Tells(s, w, p) BY <1>1, <1>2 DEF News
<1> QED BY <1>2, <1>3 DEF Tells, Used, Alive

\* The end of a call.
LEMMA CallDone ==
  ASSUME IInv, NEW p \in m.posted, NEW w, Served(Received(p), w)
  PROVE  Step(Finish(w))
<1> DEFINE s == Received(p)
           t == Finish(w)
<1>1. Serving(s) /\ s.mp = p /\ s.told = Zero /\ Untouched(m, s) /\ s.timer = m.timer
  BY ReceivedOk DEF IInv
<1>2. s.who = p /\ p \in User BY <1>1 DEF Serving
<1>3. Sound(w) /\ w.who = s.who /\ News(s, w) /\ (Alarmed(s) => Alarmed(w))
  BY DEF Served
<1> HIDE DEF s
<1>4. Ready(t) /\ Untouched(w, t) /\ t.told = w.told /\ t.timer = w.timer
  BY <1>2, <1>3, FinishOk
<1> HIDE DEF t
<1>5. Alarmed(m) => Alarmed(t)
  <2>1. Alarmed(m) => Alarmed(s) BY <1>1 DEF Alarmed, Untouched
  <2> QED BY <1>3, <1>4, <2>1 DEF Alarmed, Untouched
<1>6. Right(m, t) BY <1>1, <1>3, <1>4, RightOk DEF IInv
<1> QED BY <1>4, <1>5, <1>6 DEF Step, t

\* Kernel signals.
LEMMA KSigStep ==
  ASSUME IInv, KSig
  PROVE  Step(m')
<1> DEFINE pending == {p \in User : m.ksig[p] # {}}
           p == Least(pending)
<1>1. p \in pending
  <2>1. pending \in SUBSET Nat /\ pending # {} BY SlotFacts DEF KSig
  <2> HIDE DEF pending
  <2> QED BY <2>1, LeastFacts
<1>2. p \in User /\ m.ksig[p] # {} BY <1>1
<1>3. PICK full \in Full : m' = Finish(do_ksig(Fresh, p, full)) BY DEF KSig
<1> HIDE DEF p, pending
<1>4. /\ Ready(Fresh) /\ Untouched(m, Fresh) /\ Fresh.told = Zero /\ Fresh.ksig = m.ksig
      /\ Fresh.timer = m.timer
  BY FreshOk DEF IInv
<1>5. Signalled(Fresh, p) BY <1>2, <1>4 DEF Signalled, Ready
<1> DEFINE w == do_ksig(Fresh, p, full)
           t == Finish(w)
<1>6. /\ Sound(w) /\ w.dont_reply /\ News(Fresh, w)
      /\ (Alarmed(Fresh) /\ ~Crosses(Fresh) => Alarmed(w))
  BY <1>5, KSigOk
<1> HIDE DEF w
<1>7. Ready(t) /\ Untouched(w, t) /\ t.told = w.told /\ t.timer = w.timer
  BY <1>6, FinishOk
<1> HIDE DEF t
<1>8. ASSUME Alarmed(m), ~Crosses(m) PROVE Alarmed(t)
  <2>1. Alarmed(Fresh) /\ ~Crosses(Fresh) BY <1>4, <1>8 DEF Alarmed, Crosses, Untouched
  <2> QED BY <1>6, <1>7, <2>1 DEF Alarmed, Untouched
<1>9. Right(m, t) BY <1>4, <1>6, <1>7, RightOk DEF IInv
<1>10. Step(t) BY <1>7, <1>8, <1>9 DEF Step
<1> QED BY <1>3, <1>10 DEF t, w

\* A step of the kernel, of the clock or of a process that sends its call.
LEMMA OutsideStep ==
  ASSUME IInv, NEW po \in SUBSET User, NEW ti \in SUBSET m.timer, NEW ks \in [User -> SUBSET Sig],
         \A x \in User : /\ x \in po => x \in m.posted \/ (Alive(m, x) /\ x \notin m.blocked)
                         /\ ks[x] = m.ksig[x] \/ Alive(m, x),
         ks[INIT_PROC_NR] = {}, \A x \in User : SIGINT \in ks[x] => m.procgrp[x] = m.pid[x],
         "ALARM" \notin Calls => \A x \in User : SIGALRM \notin ks[x]
  PROVE  Step([Fresh EXCEPT !.posted = po, !.timer = ti, !.ksig = ks])
<1> DEFINE t == Touch(m, HARDWARE, MM, FALSE, po, m.blocked, ti, ks, Zero)
           u == [Fresh EXCEPT !.posted = po, !.timer = ti, !.ksig = ks]
<1>1. m \in Table /\ Zero \in [Slot -> Pid] /\ User \subseteq Slot BY ReadyFacts DEF IInv, Ready
<1>2. m.who = HARDWARE /\ m.mp = MM /\ m.dont_reply = FALSE BY Fields, <1>1 DEF IInv, Ready
<1>3. Ready(t) /\ (Alarmed(m) => Alarmed(t)) BY <1>1, OutsideOk DEF IInv
<1>4. u = t
  <2>1. Fresh = [m EXCEPT !.told = Zero] BY DEF Fresh, Zero
  <2> QED BY <1>1, <1>2, <2>1 DEF Table, Touch
<1>5. t.told = Zero BY <1>1 DEF Touch, Table
<1> HIDE DEF t
<1>6. Right(m, t) BY <1>1, <1>5 DEF Right, Zero
<1> HIDE DEF u
<1>7. Step(u) BY <1>3, <1>4, <1>6 DEF Step
<1> QED BY <1>7 DEF u

\* A call is sent.
LEMMA PostStep ==
  ASSUME IInv, NEW p \in User, Post(p)
  PROVE  Step(m')
<1> DEFINE po == m.posted \cup {p}
           u == [Fresh EXCEPT !.posted = po, !.timer = m.timer, !.ksig = m.ksig]
<1>1. /\ m \in Table /\ Pledged(m) /\ m.posted \in SUBSET User /\ m.timer \in SUBSET User
      /\ m.ksig \in [User -> SUBSET Sig] /\ User \subseteq Slot
  BY ReadyFacts DEF IInv, Ready
<1>2. /\ Fresh.posted = m.posted /\ Fresh.timer = m.timer /\ Fresh.ksig = m.ksig
      /\ Fresh = [m EXCEPT !.told = Zero]
  BY FreshOk DEF IInv, Fresh, Zero
<1>3. m' = u
  <2>1. m' = [Fresh EXCEPT !.posted = po] BY <1>2 DEF Post
  <2>2. m' = [m EXCEPT !.told = Zero, !.posted = po] BY <1>1, <1>2, <2>1
  <2>3. u = [m EXCEPT !.told = Zero, !.posted = po] BY <1>1, <1>2 DEF Table
  <2> QED BY <2>2, <2>3
<1>4. Alive(m, p) /\ p \notin m.blocked BY DEF Post, Running
<1>5. /\ m.ksig[INIT_PROC_NR] = {} /\ (\A x \in User : SIGINT \in m.ksig[x] => m.procgrp[x] = m.pid[x])
      /\ "ALARM" \notin Calls => \A x \in User : SIGALRM \notin m.ksig[x]
  BY <1>1 DEF Pledged
<1>6. \A x \in User : /\ x \in po => x \in m.posted \/ (Alive(m, x) /\ x \notin m.blocked)
                      /\ m.ksig[x] = m.ksig[x] \/ Alive(m, x)
  BY <1>4
<1>7. po \in SUBSET User /\ m.timer \in SUBSET m.timer BY <1>1
<1> HIDE DEF po
<1>8. Step(u) BY <1>1, <1>5, <1>6, <1>7, OutsideStep
<1> HIDE DEF u
<1> QED BY <1>3, <1>8

\* An alarm is due.
LEMMA AlarmStep ==
  ASSUME IInv, NEW p \in User, AlarmFires(p)
  PROVE  Step(m')
<1> DEFINE ti == m.timer \ {p}
           ks == [m.ksig EXCEPT ![p] = @ \cup {SIGALRM}]
           u == [Fresh EXCEPT !.posted = m.posted, !.timer = ti, !.ksig = ks]
<1>1. /\ m \in Table /\ Pledged(m) /\ m.posted \in SUBSET User /\ m.timer \in SUBSET User
      /\ m.ksig \in [User -> SUBSET Sig] /\ User \subseteq Slot
      /\ \A x \in User : ~Alive(m, x) => Gone(m, x)
  BY ReadyFacts DEF IInv, Ready
<1>2. /\ Fresh.posted = m.posted /\ Fresh.timer = m.timer /\ Fresh.ksig = m.ksig
      /\ Fresh = [m EXCEPT !.told = Zero]
  BY FreshOk DEF IInv, Fresh, Zero
<1>3. p \in m.timer BY DEF AlarmFires
<1>4. "ALARM" \in Calls /\ p # INIT_PROC_NR /\ Alive(m, p) BY <1>1, <1>3 DEF Pledged, Gone
<1>5. SIGALRM \in Sig BY <1>4, SigsAssumption
<1>6. ks \in [User -> SUBSET Sig] /\ ks[p] = m.ksig[p] \cup {SIGALRM} /\ \A x \in User \ {p} : ks[x] = m.ksig[x]
  BY <1>1, <1>5
<1>7. m' = u
  <2>1. m' = [Fresh EXCEPT !.timer = ti, !.ksig = ks] BY <1>2 DEF AlarmFires
  <2> HIDE DEF ti, ks
  <2>2. m' = [m EXCEPT !.told = Zero, !.timer = ti, !.ksig = ks] BY <1>1, <1>2, <2>1
  <2>3. u = [m EXCEPT !.told = Zero, !.timer = ti, !.ksig = ks] BY <1>1, <1>2 DEF Table
  <2> QED BY <2>2, <2>3
<1>8. ti \in SUBSET m.timer OBVIOUS
<1> HIDE DEF ti, ks
<1>9. ks[INIT_PROC_NR] = {} BY <1>1, <1>4, <1>6, SlotFacts DEF Pledged
<1>10. ASSUME NEW x \in User, SIGINT \in ks[x] PROVE m.procgrp[x] = m.pid[x]
  <2>1. SIGINT \in m.ksig[x] BY <1>6, <1>10 DEF SIGINT, SIGALRM
  <2> QED BY <1>1, <2>1 DEF Pledged
<1>11. \A x \in User : /\ x \in m.posted => x \in m.posted \/ (Alive(m, x) /\ x \notin m.blocked)
                       /\ ks[x] = m.ksig[x] \/ Alive(m, x)
  BY <1>4, <1>6
<1>12. Step(u) BY <1>1, <1>4, <1>6, <1>8, <1>9, <1>10, <1>11, OutsideStep
<1> HIDE DEF u
<1> QED BY <1>7, <1>12

\* A fault or a key.
LEMMA KernelSignalStep ==
  ASSUME IInv, NEW p \in User, NEW sig \in KernelSig, KernelSignal(p, sig)
  PROVE  Step(m')
<1> DEFINE ks == [m.ksig EXCEPT ![p] = @ \cup {sig}]
           u == [Fresh EXCEPT !.posted = m.posted, !.timer = m.timer, !.ksig = ks]
<1>1. /\ m \in Table /\ Pledged(m) /\ m.posted \in SUBSET User /\ m.timer \in SUBSET User
      /\ m.ksig \in [User -> SUBSET Sig] /\ User \subseteq Slot
  BY ReadyFacts DEF IInv, Ready
<1>2. /\ Fresh.posted = m.posted /\ Fresh.timer = m.timer /\ Fresh.ksig = m.ksig
      /\ Fresh = [m EXCEPT !.told = Zero]
  BY FreshOk DEF IInv, Fresh, Zero
<1>4. p # INIT_PROC_NR /\ Alive(m, p) /\ (sig = SIGINT => m.procgrp[p] = m.pid[p])
  BY DEF KernelSignal
<1>5. sig \in Sig /\ sig # SIGALRM BY SigsAssumption
<1>6. ks \in [User -> SUBSET Sig] /\ ks[p] = m.ksig[p] \cup {sig} /\ \A x \in User \ {p} : ks[x] = m.ksig[x]
  BY <1>1, <1>5
<1>7. m' = u
  <2>1. m' = [Fresh EXCEPT !.ksig = ks] BY <1>2 DEF KernelSignal
  <2> HIDE DEF ks
  <2>2. m' = [m EXCEPT !.told = Zero, !.ksig = ks] BY <1>1, <1>2, <2>1
  <2>3. u = [m EXCEPT !.told = Zero, !.ksig = ks] BY <1>1, <1>2 DEF Table
  <2> QED BY <2>2, <2>3
<1>8. m.timer \in SUBSET m.timer OBVIOUS
<1> HIDE DEF ks
<1>9. ks[INIT_PROC_NR] = {} BY <1>1, <1>4, <1>6, SlotFacts DEF Pledged
<1>10. ASSUME NEW x \in User, SIGINT \in ks[x] PROVE m.procgrp[x] = m.pid[x]
  <2>1. CASE x = p /\ sig = SIGINT BY <1>4, <2>1
  <2>2. CASE SIGINT \in m.ksig[x] BY <1>1, <2>2 DEF Pledged
  <2> QED BY <1>6, <1>10, <2>1, <2>2
<1>11. \A x \in User : /\ x \in m.posted => x \in m.posted \/ (Alive(m, x) /\ x \notin m.blocked)
                       /\ ks[x] = m.ksig[x] \/ Alive(m, x)
  BY <1>4, <1>6
<1>13. ASSUME "ALARM" \notin Calls, NEW x \in User PROVE SIGALRM \notin ks[x]
  BY <1>1, <1>5, <1>6, <1>13 DEF Pledged
<1>12. Step(u) BY <1>1, <1>6, <1>8, <1>9, <1>10, <1>11, <1>13, OutsideStep
<1> HIDE DEF u
<1> QED BY <1>7, <1>12

\* What the arguments of WAITPID and KILL are.
LEMMA ArgsOk ==
  ASSUME IInv, NEW p \in User
  PROVE  /\ WaitArgs(p) \subseteq Wpid /\ KillIds \subseteq Int
         /\ "own group" \notin WaitKinds => 0 \notin WaitArgs(p)
         /\ -1 \in Wpid
<1>1. /\ m \in Table /\ Names(m) /\ Kin(m) BY DEF IInv, Ready, Sound, Core
<1>2. m.pid \in [Slot -> Pid] /\ m.procgrp \in [Slot -> Pid] BY <1>1, Fields
<1>3. /\ MaxPid \in Nat /\ MaxPid > 0 /\ Pid = 0 .. MaxPid /\ User \subseteq Slot
      /\ Wpid = -MaxPid .. MaxPid
  BY SlotFacts, PidAssumption DEF Wpid, INIT_PID
<1>4. -1 \in Wpid /\ 0 \in Wpid BY <1>3
<1>5. \A c \in Slot : m.pid[c] \in Wpid /\ -m.procgrp[c] \in Wpid /\ m.pid[c] \in Int /\ -m.procgrp[c] \in Int
  <2> SUFFICES ASSUME NEW c \in Slot
               PROVE  m.pid[c] \in Wpid /\ -m.procgrp[c] \in Wpid /\ m.pid[c] \in Int /\ -m.procgrp[c] \in Int
    OBVIOUS
  <2>1. m.pid[c] \in 0 .. MaxPid /\ m.procgrp[c] \in 0 .. MaxPid BY <1>2, <1>3
  <2> QED BY <1>3, <2>1
<1>6. WaitArgs(p) \subseteq Wpid
  <2> SUFFICES ASSUME NEW a \in WaitArgs(p) PROVE a \in Wpid OBVIOUS
  <2>1. \/ a = -1 \/ a = 0
        \/ \E c \in Slot : a = m.pid[c] \/ a = -m.procgrp[c]
    BY DEF WaitArgs
  <2> QED BY <1>4, <1>5, <2>1
<1>7. KillIds \subseteq Int
  <2> SUFFICES ASSUME NEW a \in KillIds PROVE a \in Int OBVIOUS
  <2>1. \/ a = -1 \/ a = 0
        \/ \E c \in User : a = m.pid[c] \/ a = -m.procgrp[c]
    BY DEF KillIds
  <2> QED BY <1>3, <1>5, <2>1
<1>8. ASSUME "own group" \notin WaitKinds, 0 \in WaitArgs(p) PROVE FALSE
  <2> DEFINE own == {c \in Slot : InUse(c) /\ m.parent[c] = p}
             groups == {-m.procgrp[c] : c \in own}
             pids == {m.pid[c] : c \in own}
  <2>a. \/ 0 \in IF "any" \in WaitKinds THEN {-1} ELSE {}
        \/ 0 \in IF "pid" \in WaitKinds THEN pids ELSE {}
        \/ 0 \in IF "group" \in WaitKinds THEN groups \ {0} ELSE {}
        \/ 0 \in IF "own group" \in WaitKinds THEN {0} ELSE {}
    BY <1>8, Zenon DEF WaitArgs
  <2> HIDE DEF groups, pids
  <2>c. 0 \notin {-1} /\ 0 \notin groups \ {0} /\ 0 \notin {} OBVIOUS
  <2>b. 0 \in pids BY <1>8, <2>a, <2>c
  <2>1. \E c \in Slot : InUse(c) /\ m.parent[c] = p /\ m.pid[c] = 0 BY <2>b DEF pids
  <2>2. PICK c \in Slot : InUse(c) /\ m.parent[c] = p /\ m.pid[c] = 0 BY <2>1
  <2>3. c \in User \ {INIT_PROC_NR}
    <3>1. \A x \in 0 .. INIT_PROC_NR : m.parent[x] = MM BY <1>1 DEF Kin, Family
    <3>2. p # MM BY SlotFacts
    <3>3. c \notin 0 .. INIT_PROC_NR BY <2>2, <3>1, <3>2
    <3> QED BY <3>3, SlotFacts DEF INIT_PROC_NR
  <2>4. m.pid[c] > INIT_PID BY <1>1, <2>2, <2>3 DEF Names, Used, InUse
  <2> QED BY <2>2, <2>4 DEF INIT_PID
<1> QED BY <1>4, <1>6, <1>7, <1>8

\* Every call that is served.
LEMMA CallStep ==
  ASSUME IInv, "PTRACE" \notin Calls, PidsAbound, NEW p \in User,
         \/ Fork(p) \/ Exit_(p) \/ Waitpid(p) \/ Kill(p) \/ Pause(p) \/ Exec(p)
         \/ Sigsuspend(p) \/ Sigaction(p) \/ Sigprocmask(p) \/ Sigreturn(p)
         \/ Alarm(p) \/ Setsid(p) \/ TraceOk(p) \/ Trace(p)
  PROVE  Step(m')
<1> DEFINE s == Received(p)
<1>1. p \in m.posted
  BY DEF Fork, Exit_, Waitpid, Kill, Pause, Exec, Sigsuspend, Sigaction, Sigprocmask,
         Sigreturn, Alarm, Setsid, TraceOk, Trace, Call
<1>2. Serving(s) /\ s.mp = p /\ Untouched(m, s) BY <1>1, ReceivedOk DEF IInv
<1>3. ASSUME NEW w, Served(s, w), m' = Finish(w) PROVE Step(m') BY <1>1, <1>3, CallDone
<1> HIDE DEF s
<1>s. s = Received(p) BY DEF s
<1>4. CASE Fork(p)
  <2>1. PICK memory \in BOOLEAN : m' = Finish(do_fork(s, memory)) BY <1>4, <1>s DEF Fork, Call
  <2> QED BY <1>2, <1>3, <2>1, ForkOk
<1>5. CASE Exit_(p)
  <2>1. p # INIT_PROC_NR /\ \E full \in Full : m' = Finish(do_mm_exit(s, full))
    BY <1>5, <1>s DEF Exit_, Call
  <2>2. PICK full \in Full : m' = Finish(do_mm_exit(s, full)) BY <2>1
  <2> QED BY <1>2, <1>3, <2>1, <2>2, ExitOk
<1>6. CASE Waitpid(p)
  <2>1. PICK arg \in IF p = INIT_PROC_NR THEN {-1} ELSE WaitArgs(p), nohang \in BOOLEAN :
          m' = Finish(do_waitpid(s, arg, nohang))
    BY <1>6, <1>s DEF Waitpid, Call
  <2>2. WaitFor(s, arg)
    <3>1. CASE p = INIT_PROC_NR
      <4>1. arg = -1 BY <2>1, <3>1
      <4>2. -1 \in Wpid BY ArgsOk
      <4>3. -1 # 0 OBVIOUS
      <4> QED BY <1>2, <3>1, <4>1, <4>2, <4>3 DEF WaitFor
    <3>2. CASE p # INIT_PROC_NR
      <4>1. arg \in WaitArgs(p) BY <2>1, <3>2
      <4> QED BY <1>2, <3>2, <4>1, ArgsOk DEF WaitFor
    <3> QED BY <3>1, <3>2
  <2> QED BY <1>2, <1>3, <2>1, <2>2, WaitpidOk
<1>7. CASE Kill(p)
  <2>1. p # INIT_PROC_NR BY <1>7 DEF Kill, Call
  <2>2. PICK id \in KillIds, sig \in Sig, full \in Full : m' = Finish(do_kill(s, id, sig, full))
    BY <1>7, <1>s DEF Kill, Call
  <2>3. id \in Int BY <2>2, ArgsOk
  <2> QED BY <1>2, <1>3, <2>1, <2>2, <2>3, KillOk
<1>8. CASE Pause(p)
  <2>1. m' = Finish(do_pause(s)) BY <1>8, <1>s DEF Pause, Call
  <2> QED BY <1>2, <1>3, <2>1, PauseOk
<1>9. CASE Exec(p)
  <2>1. m' = Finish(do_exec(s)) /\ "EXEC" \in Calls BY <1>9, <1>s DEF Exec, Call
  <2> QED BY <1>2, <1>3, <2>1, ExecOk
<1>10. CASE Sigsuspend(p)
  <2>1. p # INIT_PROC_NR /\ "SIGSUSPEND" \in Calls BY <1>10 DEF Sigsuspend, Call
  <2>2. PICK mask \in Masks, full \in Full : m' = Finish(do_sigsuspend(s, mask, full))
    BY <1>10, <1>s DEF Sigsuspend, Call
  <2> QED BY <1>2, <1>3, <2>1, <2>2, SigsuspendOk
<1>11. CASE Sigaction(p)
  <2>1. "SIGACTION" \in Calls BY <1>11 DEF Sigaction, Call
  <2>2. PICK sig \in Sig, handler \in {"SIG_IGN", "SIG_DFL", "catch"}, act \in SigActs :
          m' = Finish(do_sigaction(s, sig, handler, act))
    BY <1>11, <1>s DEF Sigaction, Call
  <2> QED BY <1>2, <1>3, <2>1, <2>2, SigactionOk
<1>12. CASE Sigprocmask(p)
  <2>1. p # INIT_PROC_NR /\ "SIGPROCMASK" \in Calls BY <1>12 DEF Sigprocmask, Call
  <2>2. PICK how \in {"SIG_BLOCK", "SIG_UNBLOCK", "SIG_SETMASK"}, set \in Masks, full \in Full :
          m' = Finish(do_sigprocmask(s, how, set, full))
    BY <1>12, <1>s DEF Sigprocmask, Call
  <2> QED BY <1>2, <1>3, <2>1, <2>2, SigprocmaskOk
<1>13. CASE Sigreturn(p)
  <2>1. p # INIT_PROC_NR /\ m.frames[p] # << >> BY <1>13 DEF Sigreturn, Call
  <2>2. PICK full \in Full : m' = Finish(do_sigreturn(s, full)) BY <1>13, <1>s DEF Sigreturn, Call
  <2>3. s.frames[s.mp] # << >> BY <1>2, <2>1 DEF Untouched
  <2> QED BY <1>2, <1>3, <2>1, <2>2, <2>3, SigreturnOk
<1>14. CASE Alarm(p)
  <2>1. p # INIT_PROC_NR /\ "ALARM" \in Calls BY <1>14 DEF Alarm, Call
  <2>2. PICK on \in BOOLEAN : m' = Finish(do_alarm(s, on)) BY <1>14, <1>s DEF Alarm, Call
  <2> QED BY <1>2, <1>3, <2>1, <2>2, AlarmOk
<1>15. CASE Setsid(p)
  <2>1. p # INIT_PROC_NR /\ m' = Finish(do_setsid(s)) BY <1>15, <1>s DEF Setsid, Call
  <2> QED BY <1>2, <1>3, <2>1, SetsidOk
<1>16. ~TraceOk(p) /\ ~Trace(p) BY DEF TraceOk, Trace, Call
<1> QED BY <1>4, <1>5, <1>6, <1>7, <1>8, <1>9, <1>10, <1>11, <1>12, <1>13, <1>14, <1>15, <1>16

\* Every step.
LEMMA StepOk ==
  ASSUME IInv, "PTRACE" \notin Calls, PidsAbound, Next
  PROVE  IInv' /\ Right(m, m') /\ (Alarmed(m) /\ ~Crosses(m) => Alarmed(m'))
<1>1. CASE KSig BY <1>1, KSigStep DEF Step, IInv
<1>2. ASSUME NEW p \in User,
             \/ Post(p) \/ AlarmFires(p) \/ (\E sig \in KernelSig : KernelSignal(p, sig))
             \/ Fork(p) \/ Exit_(p) \/ Waitpid(p) \/ Kill(p) \/ Pause(p) \/ Exec(p)
             \/ Sigsuspend(p) \/ Sigaction(p) \/ Sigprocmask(p) \/ Sigreturn(p)
             \/ Alarm(p) \/ Setsid(p) \/ TraceOk(p) \/ Trace(p)
      PROVE  Step(m')
  BY <1>2, PostStep, AlarmStep, KernelSignalStep, CallStep, Zenon
<1>3. KSig \/ Step(m') BY <1>2 DEF Next
<1>4. IInv' <=> Ready(m') BY DEF IInv
<1> QED BY <1>1, <1>3, <1>4 DEF Step

\* It holds at the start.
LEMMA InitOk == Init => IInv
<1> SUFFICES ASSUME Init PROVE IInv OBVIOUS
<1>1. /\ NR_PROCS \in Nat /\ NR_PROCS >= 3 /\ MaxPid \in Nat /\ MaxPid >= 2 /\ User \subseteq Slot
      /\ Slot = 0 .. NR_PROCS - 1 /\ User = 2 .. NR_PROCS - 1 /\ Pid = 0 .. MaxPid
      /\ INIT_PROC_NR = 2 /\ MM = 0 /\ INIT_PID = 1 /\ HARDWARE = -1
  BY SlotFacts, PidAssumption DEF INIT_PROC_NR, MM, INIT_PID, HARDWARE
<1> DEFINE fl == [p \in Slot |-> IF p <= INIT_PROC_NR THEN {"IN_USE"} ELSE {}]
           pa == [p \in Slot |-> MM]
           pi == [p \in Slot |-> IF p = INIT_PROC_NR THEN INIT_PID ELSE 0]
           none == [p \in User |-> {}]
           false == [p \in User |-> FALSE]
           no == [p \in User |-> 0]
           empty == [p \in User |-> << >>]
           plain == [p \in User |-> [x \in Sig |-> [mask |-> {}, flags |-> {}]]]
<1>2. m = [flags |-> fl, parent |-> pa, pid |-> pi, procgrp |-> Zero, wpid |-> Zero, told |-> Zero,
           sigstatus |-> false, ignore |-> none, catch |-> none, sigmask |-> none, sigmask2 |-> none,
           own |-> none, sigpending |-> none, sigact |-> plain, frames |-> empty,
           procs_in_use |-> INIT_PROC_NR + 1, next_pid |-> INIT_PID + 1,
           who |-> HARDWARE, mp |-> MM, dont_reply |-> FALSE,
           posted |-> {}, blocked |-> {}, p_stop |-> {}, timer |-> {},
           ksig |-> none, unended |-> no, panic |-> FALSE, stray |-> FALSE]
  BY Zenon DEF Init, PerUser, PlainAct, Zero
<1>3. /\ fl \in [Slot -> SUBSET MFlag] /\ pa \in [Slot -> Slot] /\ pi \in [Slot -> Pid]
      /\ Zero \in [Slot -> Pid] /\ Zero \in [Slot -> -MaxPid .. MaxPid]
      /\ false \in [User -> BOOLEAN] /\ no \in [User -> Nat]
  BY <1>1 DEF MFlag, Zero
<1>4. none \in [User -> Mask] /\ none \in [User -> SUBSET Sig] /\ empty \in [User -> Seq(Mask)]
  BY DEF Mask
<1>5. plain \in [User -> [Sig -> [mask : Mask, flags : SUBSET {"SA_NODEFER", "SA_RESETHAND"}]]]
  BY DEF Mask
<1>6. /\ \A p \in Slot : fl[p] = (IF p <= 2 THEN {"IN_USE"} ELSE {}) /\ pa[p] = 0
                         /\ pi[p] = (IF p = 2 THEN 1 ELSE 0) /\ Zero[p] = 0
      /\ \A p \in User : none[p] = {} /\ no[p] = 0 /\ empty[p] = << >>
  BY <1>1 DEF Zero
<1> HIDE DEF fl, pa, pi, none, false, no, empty, plain
<1>7. INIT_PROC_NR + 1 \in 0 .. NR_PROCS /\ INIT_PID + 1 \in INIT_PID + 1 .. MaxPid
      /\ HARDWARE \in Slot \cup {HARDWARE} /\ MM \in Slot /\ FALSE \in BOOLEAN
  BY <1>1
<1>8. m \in Table BY <1>2, <1>3, <1>4, <1>5, <1>7 DEF Table
<1>9. /\ m.flags = fl /\ m.parent = pa /\ m.pid = pi /\ m.procgrp = Zero /\ m.wpid = Zero
      /\ m.procs_in_use = 3 /\ m.who = HARDWARE /\ m.mp = MM /\ ~m.dont_reply
      /\ m.posted = {} /\ m.blocked = {} /\ m.p_stop = {} /\ m.timer = {} /\ m.ksig = none
      /\ m.unended = no /\ ~m.panic /\ ~m.stray
      /\ m.ignore = none /\ m.catch = none /\ m.sigmask = none /\ m.own = none
      /\ m.sigpending = none /\ m.frames = empty
  BY <1>1, <1>2
<1>10. \A p \in Slot : /\ Used(m, p) <=> p <= 2
                       /\ Alive(m, p) <=> p <= 2
                       /\ m.flags[p] = IF p <= 2 THEN {"IN_USE"} ELSE {}
  BY <1>6, <1>9 DEF Used, Alive
<1>11. \A p \in User : p \in Slot /\ p >= 2 /\ (p <= 2 => p = INIT_PROC_NR) /\ p # HARDWARE BY <1>1
<1>12. Booked(m)
  <2>1. {p \in Slot : Used(m, p)} = 0 .. 2
    <3>1. \A p : p \in Slot /\ p <= 2 <=> p \in 0 .. 2 BY <1>1
    <3> QED BY <1>10, <3>1
  <2>2. Cardinality(0 .. 2) = 3
    <3>1. \A a, b \in Int : Cardinality(a .. b) = IF a > b THEN 0 ELSE b - a + 1
      BY FS_Interval, Zenon
    <3>2. 0 \in Int /\ 2 \in Int /\ ~(0 > 2) /\ 2 - 0 + 1 = 3 OBVIOUS
    <3> QED BY <3>1, <3>2
  <2>3. \A p \in 0 .. 2 : p \in Slot BY <1>1
  <2>4. \A p \in 0 .. 1 : p \in Slot /\ p <= 2 BY <1>1
  <2>5. m.procs_in_use = Cardinality({p \in Slot : Used(m, p)}) BY <1>9, <2>1, <2>2
  <2>6. INIT_PROC_NR \in Slot /\ INIT_PROC_NR <= 2 BY <1>1
  <2> QED BY <1>9, <1>10, <2>4, <2>5, <2>6 DEF Booked
<1>13. Names(m)
  <2>1. \A p \in 0 .. 2 : p \in Slot BY <1>1
  <2>2. \A p \in 0 .. 1 : p \in Slot /\ p # 2 BY <1>1
  <2>3. \A p \in 1 .. 2 : p \in Slot BY <1>1
  <2> QED BY <1>1, <1>6, <1>9, <1>10, <1>11, <2>2, <2>3 DEF Names
<1>14. Pledged(m)
  <2>1. \A p \in User : m.ksig[p] = {} BY <1>6, <1>9
  <2> QED BY <1>1, <1>9, <2>1 DEF Pledged
<1>15. Kin(m)
  <2>1. \A p \in 0 .. INIT_PROC_NR : p \in Slot BY <1>1
  <2> QED BY <1>1, <1>6, <1>9, <1>10, <1>11, <2>1 DEF Kin, Family
<1>16. Waits(m, {})
  <2>1. \A p \in User : "WAITING" \notin m.flags[p] BY <1>10, <1>11
  <2> QED BY <2>1 DEF Waits
<1>17. Held(m, {})
  <2> SUFFICES ASSUME NEW x \in User PROVE HeldAt(m, x) BY DEF Held
  <2>1. ~Owed(m, x) BY <1>9, <1>11 DEF Owed
  <2>2. Gone(m, x) BY <1>6, <1>9 DEF Gone
  <2>3. Idle(m.flags[x]) BY <1>10, <1>11 DEF Idle
  <2> QED BY <1>9, <2>1, <2>2, <2>3 DEF HeldAt
<1>18. Masked(m, {})
  <2> SUFFICES ASSUME NEW x \in User PROVE MaskedAt(m, x) BY DEF Masked
  <2>1. "SIGSUSPENDED" \notin m.flags[x] BY <1>10, <1>11
  <2> QED BY <1>6, <1>9, <2>1 DEF MaskedAt, MaskOK, PendOK
<1> QED BY <1>8, <1>9, <1>12, <1>13, <1>14, <1>15, <1>16, <1>17, <1>18
        DEF IInv, Ready, Sound, Core

-----------------------------------------------------------------------------
(***************************************************************************)
(* The theorems.  They hold of the instances without tracing, with as many *)
(* slots, pids, signals and calls as one likes.                            *)
(***************************************************************************)
\* The inductive invariant.
LEMMA Inductive ==
  ASSUME "PTRACE" \notin Calls, PidsAbound
  PROVE  Spec => []IInv
<1>1. IInv /\ [Next]_m => IInv'
  <2> SUFFICES ASSUME IInv, [Next]_m PROVE IInv' OBVIOUS
  <2>1. CASE Next BY <2>1, StepOk
  <2>2. CASE UNCHANGED m BY <2>2 DEF IInv
  <2> QED BY <2>1, <2>2
<1> QED BY <1>1, InitOk, PTL DEF Spec

\* What it says, and that the checked properties are in it.
LEMMA IInvFacts ==
  ASSUME IInv
  PROVE  /\ m \in Table /\ Booked(m) /\ Names(m) /\ Kin(m) /\ Waits(m, {}) /\ Masked(m, {})
         /\ User \subseteq Slot /\ \A p \in Slot : InUse(p) <=> Used(m, p)
BY SlotFacts DEF IInv, Ready, Sound, Core, InUse, Used

\* However processes come and go, the table is typed and counted, pids and
\* groups are told apart (do_fork()'s search for a free pid) and MM does not
\* panic.
THEOREM ProcessTable ==
  ASSUME "PTRACE" \notin Calls, PidsAbound
  PROVE  Spec => []TableSound
<1>1. IInv => TableSound
  <2> SUFFICES ASSUME IInv PROVE TableSound OBVIOUS
  <2>1. TypeOK BY IInvFacts DEF TypeOK
  <2>2. PidsUnique
    <3> SUFFICES ASSUME NEW p \in User, NEW q \in User, p # q, InUse(p), InUse(q)
                 PROVE  m.pid[p] # m.pid[q] /\ (m.pid[p] = m.procgrp[q] => m.procgrp[p] = m.pid[p])
      BY DEF PidsUnique
    <3>1. Used(m, p) /\ Used(m, q) BY DEF Used, InUse
    <3> QED BY <3>1, IInvFacts DEF Names
  <2>3. ProcsCounted
    <3>1. {p \in Slot : InUse(p)} = {p \in Slot : Used(m, p)} BY DEF InUse, Used
    <3> QED BY <3>1, IInvFacts DEF ProcsCounted, Booked
  <2>4. NoPanic BY IInvFacts DEF NoPanic, Booked
  <2> QED BY <2>1, <2>2, <2>3, <2>4 DEF TableSound
<1> QED BY <1>1, Inductive, PTL

\* Nobody is an orphan (disinherit() in mm_exit()).
THEOREM NoOrphans ==
  ASSUME "PTRACE" \notin Calls, PidsAbound
  PROVE  Spec => []ParentsAlive
<1>1. IInv => ParentsAlive
  <2> SUFFICES ASSUME IInv, NEW p \in User \ {INIT_PROC_NR}, InUse(p) PROVE Alive(m, m.parent[p])
    BY DEF ParentsAlive
  <2>1. Used(m, p) /\ ~(p > NR_PROCS) BY SlotFacts DEF Used, InUse
  <2> QED BY <2>1, IInvFacts DEF Kin, Family
<1> QED BY <1>1, Inductive, PTL

\* Every caller is answered once: whom reply() answers waits, and who waits is
\* suspended in one call that somebody will end.
THEOREM OneAnswer ==
  ASSUME "PTRACE" \notin Calls, PidsAbound
  PROVE  Spec => []AnsweredOnce
<1>1. IInv => AnsweredOnce
  <2> SUFFICES ASSUME IInv PROVE AnsweredOnce OBVIOUS
  <2>1. RepliesAwaited BY IInvFacts DEF RepliesAwaited, Booked
  <2>2. Suspended
    <3> SUFFICES ASSUME NEW p \in User, Alive(m, p)
                 PROVE  Cardinality(m.flags[p] \cap Suspensions) = IF p \in m.blocked THEN 1 ELSE 0
      BY DEF Suspended
    <3>1. IF p \in m.blocked THEN Asleep(m.flags[p]) ELSE Idle(m.flags[p])
      BY ReadyFacts DEF IInv, Ready
    <3> DEFINE S == m.flags[p] \cap Suspensions
    <3>2. CASE p \notin m.blocked
      <4>1. S = {} BY <3>1, <3>2 DEF Idle, Suspensions
      <4> QED BY <3>2, <4>1, FS_EmptySet
    <3>3. CASE p \in m.blocked
      <4>1. S = {"WAITING"} \/ S = {"PAUSED"} \/ S = {"SIGSUSPENDED"}
        BY <3>1, <3>3 DEF Asleep, Suspensions
      <4> HIDE DEF S
      <4>2. Cardinality(S) = 1 BY <4>1, FS_Singleton
      <4> QED BY <3>3, <4>2 DEF S
    <3> QED BY <3>2, <3>3
  <2> QED BY <2>1, <2>2 DEF AnsweredOnce
<1> QED BY <1>1, Inductive, PTL

\* Nobody sleeps in WAIT while a child that it waits for hangs.  A process that
\* waits for its own group may change groups in the meantime, so the theorem is
\* about the other arguments of waitpid().
THEOREM NoLostWaits ==
  ASSUME "PTRACE" \notin Calls, PidsAbound, "own group" \notin WaitKinds
  PROVE  Spec => []NoLostWait
<1>1. IInv => NoLostWait
  <2> SUFFICES ASSUME IInv, NEW p \in User, NEW c \in User, "WAITING" \in m.flags[p], Alive(m, p),
                      Qualifies(p, c)
               PROVE  "HANGING" \notin m.flags[c]
    BY DEF NoLostWait
  <2>1. Child(m, p, c) BY DEF Child, Qualifies, Used, InUse
  <2> QED BY <2>1, IInvFacts DEF Waits
<1> QED BY <1>1, Inductive, PTL

\* When its handlers have returned a process has the mask that it chose.
THEOREM MaskComesBack ==
  ASSUME "PTRACE" \notin Calls, PidsAbound
  PROVE  Spec => []MaskRestored
<1>1. IInv => MaskRestored
  <2> SUFFICES ASSUME IInv, NEW p \in User, Alive(m, p), m.frames[p] = << >>,
                      "SIGSUSPENDED" \notin m.flags[p]
               PROVE  m.sigmask[p] = m.own[p]
    BY DEF MaskRestored
  <2>1. MaskedAt(m, p) BY IInvFacts DEF Masked
  <2> QED BY <2>1 DEF MaskedAt, MaskOK
<1> QED BY <1>1, Inductive, PTL

\* A signal stays pending only while it is blocked or a handler runs.  EXEC is
\* the exception: it drops the handlers and frames and looks at nothing.
THEOREM NoForgottenSignal ==
  ASSUME "PTRACE" \notin Calls, PidsAbound, "EXEC" \notin Calls
  PROVE  Spec => []PendingDelivered
<1>1. IInv => PendingDelivered
  <2> SUFFICES ASSUME IInv, NEW p \in User, Alive(m, p), m.sigpending[p] \ m.sigmask[p] # {}
               PROVE  m.frames[p] # << >>
    BY DEF PendingDelivered
  <2>1. MaskedAt(m, p) BY IInvFacts DEF Masked
  <2> QED BY <2>1 DEF MaskedAt, PendOK
<1> QED BY <1>1, Inductive, PTL

\* MM loses sight of an alarm only when its owner set it while the SIGALRM of the
\* last one was on the way (do_ksig()), whatever is caught, ignored, blocked,
\* forked, executed or killed.
THEOREM AlarmsStayKnown ==
  ASSUME "PTRACE" \notin Calls, PidsAbound
  PROVE  Spec => AlarmsKept
<1>1. ASSUME IInv, IInv', Alarmed(m) /\ ~Crosses(m) => Alarmed(m'), AlarmsKnown, ~Crossing
      PROVE  AlarmsKnown'
  <2>1. Alarmed(m) BY <1>1 DEF AlarmsKnown, Alarmed
  <2>2. ~Crosses(m) BY <1>1 DEF Crossing, Crosses
  <2>3. Ready(m') BY <1>1 DEF IInv
  <2>4. ASSUME NEW p \in m'.timer PROVE Alive(m', p) /\ "ALARM_ON" \in m'.flags[p]
    <3>1. p \in User BY <2>3, ReadyFacts
    <3>2. Alive(m', p) BY <2>3, <3>1, ReadyFacts DEF Gone
    <3> QED BY <1>1, <2>1, <2>2, <3>2 DEF Alarmed
  <2> QED BY <2>4 DEF AlarmsKnown
<1>2. IInv /\ IInv' /\ [Next]_m => [AlarmsKnown /\ ~Crossing => AlarmsKnown']_m
  <2> SUFFICES ASSUME IInv, IInv', Next, AlarmsKnown, ~Crossing PROVE AlarmsKnown' OBVIOUS
  <2> QED BY <1>1, StepOk
<1> QED BY <1>2, Inductive, PTL DEF Spec, AlarmsKept

\* So where that never happens MM knows of every alarm that runs, and its owner
\* lives.
THEOREM AlarmsAreKnown ==
  ASSUME "PTRACE" \notin Calls, PidsAbound
  PROVE  Spec /\ []~Crossing => []AlarmsKnown
<1>1. Init => AlarmsKnown BY DEF Init, AlarmsKnown
<1>2. AlarmsKnown /\ ~Crossing /\ [AlarmsKnown /\ ~Crossing => AlarmsKnown']_m => AlarmsKnown'
  BY DEF AlarmsKnown
<1> QED BY <1>1, <1>2, AlarmsStayKnown, PTL DEF Spec, AlarmsKept

\* A process that sleeps in WAIT is woken about a child that it waits for
\* (cleanup() in mm_exit(), do_waitpid() and disinherit()).
THEOREM WokenRight ==
  ASSUME "PTRACE" \notin Calls, PidsAbound
  PROVE  Spec => WaitRight
<1>1. IInv /\ [Next]_m =>
        [\A p \in User : "WAITING" \in m.flags[p] /\ m'.told[p] # 0 =>
           \E c \in User : /\ InUse(c) /\ m.pid[c] = m'.told[p]
                           /\ m.parent[c] = p \/ p = INIT_PROC_NR
                           /\ m.wpid[p] \in {-1, m.pid[c], -m.procgrp[c]}]_m
  <2> SUFFICES ASSUME IInv, Next, NEW p \in User, "WAITING" \in m.flags[p], m'.told[p] # 0
               PROVE  \E c \in User : /\ InUse(c) /\ m.pid[c] = m'.told[p]
                                      /\ m.parent[c] = p \/ p = INIT_PROC_NR
                                      /\ m.wpid[p] \in {-1, m.pid[c], -m.procgrp[c]}
    OBVIOUS
  <2>1. Tells(m, m', p) BY StepOk DEF Right
  <2> QED BY <2>1 DEF Tells, Used, InUse
<1> QED BY <1>1, Inductive, PTL DEF Spec, WaitRight
=============================================================================
