--------------------------------- MODULE Mm ---------------------------------
(***************************************************************************)
(* The memory manager's process table: creation, exit and WAIT             *)
(* (mm/forkexit.c), signals (mm/signal.c), tracing (mm/trace.c), sessions  *)
(* (mm/getset.c) and the main loop (mm/main.c), with the little of the     *)
(* kernel's table that MM relies on: who is blocked in a call, who is      *)
(* stopped, which kernel signals are pending or not ended, which alarms    *)
(* run.                                                                    *)
(*                                                                         *)
(* MM serves one message at a time, so a call is one step; what interleaves *)
(* is the order in which messages reach MM, and the kernel signals and     *)
(* alarms in between.  As in Kernel, the table is one record m and every C *)
(* function is an operator from one record to the next.  What a user puts  *)
(* into its message is chosen when MM takes the message up.                *)
(***************************************************************************)
EXTENDS Integers, Sequences, FiniteSets

CONSTANTS
  NR_PROCS,    \* slots of the table: MM, FS, INIT and the rest
  LAST_FEW,    \* the last slots, kept for the super-user
  MaxPid,      \* pids run from INIT_PID + 1 to MaxPid and start again (30000)
  Sig,         \* the signal numbers of this instance
  KernelSig,   \* those that the kernel's tasks raise, SIGALRM aside
  SigActs,     \* the sa_mask and sa_flags that users choose
  WaitKinds,   \* the arguments of waitpid() that users choose
  Masks,       \* the signal masks that users choose
  MaxFrames,   \* bound on unfinished signal handlers per process
  Calls        \* the calls of this instance

MM           == 0
INIT_PROC_NR == 2
INIT_PID     == 1
HARDWARE     == -1
SIGHUP  == 1
SIGINT  == 2
SIGTRAP == 5
SIGKILL == 9
SIGALRM == 14
NoSig   == 0

Slot == 0 .. NR_PROCS - 1
User == INIT_PROC_NR .. NR_PROCS - 1
Pid  == 0 .. MaxPid

MFlag == {"IN_USE", "WAITING", "HANGING", "PAUSED", "ALARM_ON", "TRACED",
          "STOPPED", "SIGSUSPENDED"}

CallNames == {"FORK", "EXIT", "WAITPID", "KILL", "PAUSE", "SIGSUSPEND", "SIGACTION",
              "SIGPROCMASK", "SIGRETURN", "ALARM", "SETSID", "PTRACE", "EXEC"}

ASSUME SlotsAssumption == NR_PROCS \in Nat /\ NR_PROCS > INIT_PROC_NR
ASSUME LastFewAssumption == LAST_FEW \in 0 .. NR_PROCS
\* Pids enough for all processes and the groups of all processes.
PidsAbound == MaxPid > 2 * (NR_PROCS - 3)

ASSUME PidAssumption   ==
  /\ MaxPid \in Nat /\ MaxPid > INIT_PID /\ MaxPid > NR_PROCS - 3
  /\ "SETSID" \in Calls => PidsAbound
ASSUME SigsAssumption  == /\ Sig \subseteq 1 .. 15 /\ {SIGHUP, SIGKILL} \subseteq Sig
                          /\ "ALARM" \in Calls => SIGALRM \in Sig
                          /\ {"EXEC", "PTRACE"} \subseteq Calls => SIGTRAP \in Sig
                          /\ KernelSig \subseteq Sig \ {SIGALRM, SIGKILL}
ASSUME ActsAssumption  ==
  SigActs \subseteq [mask : SUBSET (Sig \ {SIGKILL}),
                     flags : SUBSET {"SA_NODEFER", "SA_RESETHAND"}]
ASSUME MasksAssumption == Masks \subseteq SUBSET (Sig \ {SIGKILL})
ASSUME FramesAssumption == MaxFrames \in Nat
ASSUME CallsAssumption == Calls \subseteq CallNames

VARIABLE m

\* A set of signals without SIGKILL, which can be neither caught nor blocked.
Mask == SUBSET (Sig \ {SIGKILL})

\* The table: the fields of mproc, MM's globals, the kernel's part, history.
Table ==
  [flags : [Slot -> SUBSET MFlag], parent : [Slot -> Slot],
   pid : [Slot -> Pid], procgrp : [Slot -> Pid], wpid : [Slot -> -MaxPid .. MaxPid],
   sigstatus : [User -> BOOLEAN], ignore : [User -> Mask], catch : [User -> Mask],
   sigmask : [User -> Mask], sigmask2 : [User -> Mask], sigpending : [User -> Mask],
   sigact : [User -> [Sig -> [mask : Mask, flags : SUBSET {"SA_NODEFER", "SA_RESETHAND"}]]],
   procs_in_use : 0 .. NR_PROCS, next_pid : INIT_PID + 1 .. MaxPid,
   who : Slot \cup {HARDWARE}, mp : Slot, dont_reply : BOOLEAN,
   frames : [User -> Seq(Mask)], posted : SUBSET User, blocked : SUBSET User,
   p_stop : SUBSET User, timer : SUBSET User,
   ksig : [User -> SUBSET Sig], unended : [User -> Nat],
   told : [Slot -> Pid], own : [User -> Mask], panic : BOOLEAN, stray : BOOLEAN]

\* "Alive": in use and not hanging, the test of reply() and check_sig().
Alive(s, p) == "IN_USE" \in s.flags[p] /\ "HANGING" \notin s.flags[p]
Least(S)    == CHOOSE x \in S : \A y \in S : x <= y

-----------------------------------------------------------------------------
(***************************************************************************)
(* Answers.  A send to a process that is not waiting for MM would block MM *)
(* itself: field stray records it.                                         *)
(***************************************************************************)
reply(s, p) ==
  IF ~Alive(s, p) THEN [s EXCEPT !.panic = @ \/ s.who < 0]
  ELSE IF p \in s.blocked THEN [s EXCEPT !.blocked = @ \ {p}]
  ELSE [s EXCEPT !.stray = TRUE]

\* The answer to a WAIT says which child it is about.
reply_child(s, p, c) == [reply(s, p) EXCEPT !.told[p] = s.pid[c]]

\* The parent of the dead process c learns of it and c's slot becomes free.
cleanup(s, c) ==
  LET q == s.parent[c]
      t == reply_child(s, q, c)
  IN  [t EXCEPT !.flags[q] = @ \ {"WAITING"}, !.flags[c] = {},
                !.procs_in_use = @ - 1]

-----------------------------------------------------------------------------
(***************************************************************************)
(* Exit                                                                    *)
(***************************************************************************)
\* MM and the clock task agree on the alarm.
set_alarm(s, p, on) ==
  [s EXCEPT !.flags[p] = IF on THEN @ \cup {"ALARM_ON"} ELSE @ \ {"ALARM_ON"},
            !.timer = IF on THEN @ \cup {p} ELSE @ \ {p}]

\* Field h, with the parent's entry copied to the child's.
Copy(h, p, c) == [h EXCEPT ![c] = h[p]]

\* The kernel's slot of the child is a copy, too, with the parent's alarm but
\* not its signals and stop; the child waits for MM's answer.
sys_fork(s, p, c) ==
  [s EXCEPT !.blocked = s.blocked \cup {c}, !.p_stop = s.p_stop \ {c},
            !.frames = Copy(s.frames, p, c),
            !.timer = IF p \in s.timer THEN s.timer \cup {c} ELSE s.timer]

\* The kernel forgets the process, whatever it was doing.
sys_xit(s, p) ==
  [s EXCEPT !.posted = @ \ {p}, !.blocked = @ \ {p}, !.p_stop = @ \ {p},
            !.timer = @ \ {p}, !.ksig[p] = {}, !.unended[p] = 0, !.frames[p] = << >>]

\* The three tests of mm_exit() for the child c that q waits for.
RightChild(s, q, c) ==
  \/ s.wpid[q] = -1
  \/ s.wpid[q] = s.pid[c]
  \/ -s.wpid[q] = s.procgrp[c]

\* Mutant: a child that hangs already stays with its dead parent.
disinherit_Live(s, p) ==
  [s EXCEPT !.parent = [i \in Slot |-> IF /\ "IN_USE" \in s.flags[i] /\ s.parent[i] = p
                                          /\ "HANGING" \notin s.flags[i]
                                       THEN INIT_PROC_NR ELSE @[i]]]

\* The children of p become INIT's; one that hangs is reported if INIT waits.
disinherit(s, p) ==
  LET adopt(t, i) ==
        LET u == [t EXCEPT !.parent[i] = INIT_PROC_NR]
        IN  IF ~("IN_USE" \in t.flags[i] /\ t.parent[i] = p) THEN t
            ELSE IF "WAITING" \in u.flags[INIT_PROC_NR] /\ "HANGING" \in u.flags[i]
            THEN cleanup(u, i) ELSE u
      after[i \in -1 .. NR_PROCS - 1] == IF i = -1 THEN s ELSE adopt(after[i - 1], i)
  IN  after[NR_PROCS - 1]

\* Mutant: every child satisfies a parent that waits.
release_AnyChild(s, p) ==
  LET t == sys_xit(IF "ALARM_ON" \in s.flags[p] THEN set_alarm(s, p, FALSE) ELSE s, p)
      q == s.parent[p]
  IN  disinherit(IF "WAITING" \in t.flags[q] THEN cleanup(t, p)
                 ELSE [t EXCEPT !.flags[p] = @ \cup {"HANGING"}], p)

\* mm_exit() but for the hangup of the process group.
release(s, p) ==
  LET t == sys_xit(IF "ALARM_ON" \in s.flags[p] THEN set_alarm(s, p, FALSE) ELSE s, p)
      q == s.parent[p]
  IN  disinherit(IF "WAITING" \in t.flags[q] /\ RightChild(t, q, p)
                 THEN cleanup(t, p)
                 ELSE [t EXCEPT !.flags[p] = @ \cup {"HANGING"}], p)

-----------------------------------------------------------------------------
(***************************************************************************)
(* Signals.  "full" is the set of processes whose stack has no room for a  *)
(* signal frame, a choice made anew in every step.  mm_exit(), check_sig() *)
(* and sig_proc() call each other; but only the exit of the process whose  *)
(* pid is the caller's process group hangs the group up, so the exits      *)
(* inside that hangup are plain ones: hangup() is that call of check_sig() *)
(* and survive() is sig_proc() without its exit.                           *)
(***************************************************************************)

\* Mutant: the call is answered and stays suspended for MM.
unpause_Flag(s, p) ==
  IF s.flags[p] \cap {"PAUSED", "WAITING", "SIGSUSPENDED"} = {} \/ "HANGING" \in s.flags[p]
  THEN s ELSE reply(s, p)

\* A process that is suspended in a call to MM returns from it.  (Calls to FS
\* are FS's affair.)
unpause(s, p) ==
  LET f == IF "PAUSED" \in s.flags[p] THEN "PAUSED"
           ELSE IF "WAITING" \in s.flags[p] THEN "WAITING" ELSE "SIGSUSPENDED"
  IN  IF f \notin s.flags[p] \/ "HANGING" \in s.flags[p] THEN s
      ELSE reply([s EXCEPT !.flags[p] = @ \ {f}], p)

\* Mutant: the parent is told and waits on.
stop_proc_Waiting(s, p) ==
  LET q == s.parent[p]
      t == [s EXCEPT !.p_stop = @ \cup {p}, !.flags[p] = @ \cup {"STOPPED"}]
  IN  IF "WAITING" \in t.flags[q] THEN reply_child(t, q, p)
      ELSE [t EXCEPT !.sigstatus[p] = TRUE]

\* A traced process stops, in the kernel and in MM, and its parent learns of
\* it now, if it waits, or later: sigstatus says that a stop is unreported (exit
\* statuses are left out).
stop_proc(s, p) ==
  LET q == s.parent[p]
      t == [s EXCEPT !.p_stop = @ \cup {p}, !.flags[p] = @ \cup {"STOPPED"}]
  IN  IF "WAITING" \in t.flags[q]
      THEN reply_child([t EXCEPT !.flags[q] = @ \ {"WAITING"}], q, p)
      ELSE [t EXCEPT !.sigstatus[p] = TRUE]

\* Mutant: the mask in force is saved, also during SIGSUSPEND.
deliver_Mask(s, p, sig) ==
  LET act == s.sigact[p][sig]
      t == [s EXCEPT
              !.frames[p] = <<s.sigmask[p]>> \o @,
              !.sigmask[p] = IF "SA_NODEFER" \in act.flags
                             THEN (@ \cup act.mask) \ {sig} ELSE @ \cup act.mask \cup {sig},
              !.catch[p] = IF "SA_RESETHAND" \in act.flags THEN @ \ {sig} ELSE @,
              !.sigpending[p] = @ \ {sig}]
  IN  unpause(t, p)

\* A frame with the mask to return to, and the mask of the handler.
deliver(s, p, sig) ==
  LET act == s.sigact[p][sig]
      saved == IF "SIGSUSPENDED" \in s.flags[p] THEN s.sigmask2[p] ELSE s.sigmask[p]
      t == [s EXCEPT
              !.frames[p] = <<saved>> \o @,
              !.sigmask[p] = IF "SA_NODEFER" \in act.flags
                             THEN (@ \cup act.mask) \ {sig} ELSE @ \cup act.mask \cup {sig},
              !.catch[p] = IF "SA_RESETHAND" \in act.flags THEN @ \ {sig} ELSE @,
              !.sigpending[p] = @ \ {sig}]
  IN  unpause(t, p)

\* The signal ends p: neither traced, ignored, blocked nor caught.
Dies(s, p, sig, full) ==
  /\ Alive(s, p)
  /\ "TRACED" \in s.flags[p] => sig = SIGKILL
  /\ sig \notin s.ignore[p] \cup s.sigmask[p]
  /\ sig \in s.catch[p] => p \in full

\* sig_proc() for a process that the signal does not end.
survive(s, p, sig) ==
  IF ~Alive(s, p) THEN [s EXCEPT !.panic = TRUE]
  ELSE IF "TRACED" \in s.flags[p] /\ sig # SIGKILL THEN stop_proc(unpause(s, p), p)
  ELSE IF sig \in s.ignore[p] THEN s
  ELSE IF sig \in s.sigmask[p] THEN [s EXCEPT !.sigpending[p] = @ \cup {sig}]
  ELSE deliver(s, p, sig)

\* The processes that "id" stands for: a pid, the caller's group (0), all but
\* INIT (-1), or a group (-id).
Addressed(s, p, id) ==
  /\ Alive(s, p)
  /\ id > 0 => s.pid[p] = id
  /\ id = 0 => s.procgrp[p] = s.procgrp[s.mp]
  /\ id = -1 => s.pid[p] # INIT_PID
  /\ id < -1 => s.procgrp[p] = -id

\* INIT is the super-user's, like MM in whose name kernel signals are sent;
\* all other processes belong to one ordinary user.
Permitted(s, p) == p = INIT_PROC_NR => s.mp \in {MM, INIT_PROC_NR}

\* The end of check_sig(): a caller that died is not answered.
Checked(s) == [s EXCEPT !.dont_reply = @ \/ ~Alive(s, s.mp)]

\* check_sig(-procgrp, SIGHUP), called when the leader of procgrp has exited.
hangup(s, procgrp, full) ==
  LET after[i \in INIT_PROC_NR - 1 .. NR_PROCS - 1] ==
        IF i < INIT_PROC_NR THEN s
        ELSE LET t == after[i - 1]
             IN  IF ~(Addressed(t, i, -procgrp) /\ Permitted(t, i)) THEN t
                 ELSE IF Dies(t, i, SIGHUP, full) THEN release(t, i)
                 ELSE survive(t, i, SIGHUP)
  IN  Checked(after[NR_PROCS - 1])

mm_exit(s, p, full) ==
  LET procgrp == IF s.pid[p] = s.procgrp[s.mp] THEN s.procgrp[s.mp] ELSE 0
      t == release(s, p)
  IN  IF procgrp = 0 THEN t ELSE hangup(t, procgrp, full)

sig_proc(s, p, sig, full) ==
  IF Dies(s, p, sig, full) THEN mm_exit(s, p, full) ELSE survive(s, p, sig)

check_sig(s, id, sig, full) ==
  LET after[i \in INIT_PROC_NR - 1 .. NR_PROCS - 1] ==
        IF i < INIT_PROC_NR THEN s
        ELSE LET t == after[i - 1]
             IN  IF Addressed(t, i, id) /\ Permitted(t, i)
                 THEN sig_proc(t, i, sig, full) ELSE t
  IN  IF id = INIT_PID /\ sig = SIGKILL THEN s ELSE Checked(after[NR_PROCS - 1])

\* Mutant: nothing is delivered when a mask changes.
check_pending_Never(s, full) == s

\* The first pending signal that is not blocked any more is delivered.
check_pending(s, full) ==
  LET p == s.mp
      open == s.sigpending[p] \ s.sigmask[p]
  IN  IF open = {} THEN s
      ELSE sig_proc([s EXCEPT !.sigpending[p] = @ \ {Least(open)}], p, Least(open), full)

-----------------------------------------------------------------------------
(***************************************************************************)
(* The calls, for the caller s.mp = s.who.                                 *)
(***************************************************************************)

\* The d-th candidate for the next pid; after MaxPid comes INIT_PID + 1.
pid_after(s, d) ==
  IF s.next_pid + d <= MaxPid THEN s.next_pid + d ELSE s.next_pid + d - MaxPid + INIT_PID

\* Mutant: a pid that is still the number of a process group is given away.
free_pid_Group(s, c) ==
  LET Taken(n) == \E p \in Slot \ {c} : s.pid[p] = n
      free == {d \in 1 .. MaxPid - 1 : ~Taken(pid_after(s, d))}
  IN  pid_after(s, Least(free))

\* The next pid, in cyclic order, that is neither a pid nor a process group,
\* in whatever slot but the child's.
free_pid(s, c) ==
  LET Taken(n) == \E p \in Slot \ {c} : s.pid[p] = n \/ s.procgrp[p] = n
      free == {d \in 1 .. MaxPid - 1 : ~Taken(pid_after(s, d))}
  IN  pid_after(s, Least(free))

\* Mutant: MM alone drops the child's alarm.
do_fork_NoAlarm(s, memory) ==
  LET p == s.mp
      c == Least({i \in Slot : "IN_USE" \notin s.flags[i]})
      pid == free_pid(s, c)
      t == [s EXCEPT !.procs_in_use = s.procs_in_use + 1,
                     !.flags = [s.flags EXCEPT ![c] = s.flags[p] \ {"TRACED", "ALARM_ON"}],
                     !.parent = [s.parent EXCEPT ![c] = p],
                     !.pid = [s.pid EXCEPT ![c] = pid], !.next_pid = pid,
                     !.procgrp = Copy(s.procgrp, p, c), !.wpid = Copy(s.wpid, p, c),
                     !.sigstatus = [s.sigstatus EXCEPT ![c] = FALSE],
                     !.ignore = Copy(s.ignore, p, c), !.catch = Copy(s.catch, p, c),
                     !.sigmask = Copy(s.sigmask, p, c), !.sigmask2 = Copy(s.sigmask2, p, c),
                     !.sigpending = Copy(s.sigpending, p, c),
                     !.sigact = Copy(s.sigact, p, c), !.own = Copy(s.own, p, c)]
  IN  IF \/ s.procs_in_use = NR_PROCS \/ ~memory
         \/ s.procs_in_use >= NR_PROCS - LAST_FEW /\ p # INIT_PROC_NR
      THEN s ELSE reply(sys_fork(t, p, c), c)

\* The child's slot is a copy of the parent's.  Memory may be short.
do_fork(s, memory) ==
  LET p == s.mp
      c == Least({i \in Slot : "IN_USE" \notin s.flags[i]})
      pid == free_pid(s, c)
      t == [s EXCEPT !.procs_in_use = s.procs_in_use + 1,
                     !.flags = [s.flags EXCEPT ![c] = s.flags[p] \ {"TRACED"}],
                     !.parent = [s.parent EXCEPT ![c] = p],
                     !.pid = [s.pid EXCEPT ![c] = pid], !.next_pid = pid,
                     !.procgrp = Copy(s.procgrp, p, c), !.wpid = Copy(s.wpid, p, c),
                     !.sigstatus = [s.sigstatus EXCEPT ![c] = FALSE],
                     !.ignore = Copy(s.ignore, p, c), !.catch = Copy(s.catch, p, c),
                     !.sigmask = Copy(s.sigmask, p, c), !.sigmask2 = Copy(s.sigmask2, p, c),
                     !.sigpending = Copy(s.sigpending, p, c),
                     !.sigact = Copy(s.sigact, p, c), !.own = Copy(s.own, p, c)]
  IN  IF \/ s.procs_in_use = NR_PROCS \/ ~memory
         \/ s.procs_in_use >= NR_PROCS - LAST_FEW /\ p # INIT_PROC_NR
      THEN s ELSE reply(sys_fork(t, p, c), c)

do_mm_exit(s, full) == [mm_exit(s, s.mp, full) EXCEPT !.dont_reply = TRUE]

\* Mutant: the caller waits without looking at what has already happened.
do_waitpid_Late(s, arg, nohang) ==
  LET children == {c \in Slot : "IN_USE" \in s.flags[c] /\ s.parent[c] = s.mp}
  IN  IF children = {} \/ nohang THEN s
      ELSE [s EXCEPT !.flags[s.mp] = @ \cup {"WAITING"}, !.wpid[s.mp] = arg,
                     !.dont_reply = TRUE]

\* Mutant: the main loop answers the caller once more.
do_waitpid_Twice(s, arg, nohang) ==
  LET children == {c \in Slot : "IN_USE" \in s.flags[c] /\ s.parent[c] = s.mp}
      hanging == {c \in children : "HANGING" \in s.flags[c]}
  IN  IF hanging # {} THEN cleanup(s, Least(hanging))
      ELSE IF children = {} \/ nohang THEN s
      ELSE [s EXCEPT !.flags[s.mp] = @ \cup {"WAITING"}, !.wpid[s.mp] = arg,
                     !.dont_reply = TRUE]

\* The first child that qualifies and has news is reported; else the caller
\* waits, if there is a child that qualifies at all.
do_waitpid(s, arg, nohang) ==
  LET p == s.mp
      pidarg == IF arg = 0 THEN -s.procgrp[p] ELSE arg
      children == {c \in Slot : /\ "IN_USE" \in s.flags[c] /\ s.parent[c] = p
                                /\ pidarg > 0 => pidarg = s.pid[c]
                                /\ pidarg < -1 => -pidarg = s.procgrp[c]}
      news == {c \in children : \/ "HANGING" \in s.flags[c]
                                \/ "STOPPED" \in s.flags[c] /\ s.sigstatus[c]}
      c == Least(news)
      t == [s EXCEPT !.dont_reply = TRUE]
  IN  IF news # {}
      THEN IF "HANGING" \in s.flags[c] THEN cleanup(t, c)
           ELSE [reply_child(t, p, c) EXCEPT !.sigstatus[c] = FALSE]
      ELSE IF children = {} \/ nohang THEN s
      ELSE [t EXCEPT !.flags[p] = @ \cup {"WAITING"}, !.wpid[p] = pidarg]

do_kill(s, id, sig, full) == check_sig(s, id, sig, full)

do_pause(s) == [s EXCEPT !.flags[s.mp] = @ \cup {"PAUSED"}, !.dont_reply = TRUE]

do_sigsuspend(s, mask, full) ==
  check_pending([s EXCEPT !.sigmask2[s.mp] = s.sigmask[s.mp],
                          !.sigmask[s.mp] = mask,
                          !.flags[s.mp] = @ \cup {"SIGSUSPENDED"},
                          !.dont_reply = TRUE], full)

\* handler is SIG_IGN, SIG_DFL or "catch".
do_sigaction(s, sig, handler, act) ==
  LET p == s.mp
  IN  IF sig = SIGKILL THEN s
      ELSE [s EXCEPT
              !.ignore[p] = IF handler = "SIG_IGN" THEN @ \cup {sig} ELSE @ \ {sig},
              !.sigpending[p] = IF handler = "SIG_IGN" THEN @ \ {sig} ELSE @,
              !.catch[p] = IF handler = "catch" THEN @ \cup {sig} ELSE @ \ {sig},
              !.sigact[p][sig] = act]

\* own is a ghost: the mask that the program chose outside its handlers.
do_sigprocmask(s, how, set, full) ==
  LET p == s.mp
      mask == CASE how = "SIG_BLOCK"   -> s.sigmask[p] \cup set
                [] how = "SIG_UNBLOCK" -> s.sigmask[p] \ set
                [] how = "SIG_SETMASK" -> set
      t == [s EXCEPT !.sigmask[p] = mask,
                     !.own[p] = IF s.frames[p] = << >> THEN mask ELSE @]
  IN  IF how = "SIG_BLOCK" THEN t ELSE check_pending(t, full)

\* The handler returns; the mask comes from its frame.
do_sigreturn(s, full) ==
  LET p == s.mp
  IN  check_pending([s EXCEPT !.sigmask[p] = Head(s.frames[p]) \ {SIGKILL},
                              !.frames[p] = Tail(@)], full)

do_alarm(s, on) == set_alarm(s, s.mp, on)

do_setsid(s) == [s EXCEPT !.procgrp[s.mp] = s.pid[s.mp]]

\* A new program: no handlers and none of their frames; it begins without an
\* answer from MM, a traced one with SIGTRAP.
do_exec(s) ==
  LET p == s.mp
  IN  [s EXCEPT !.catch[p] = {}, !.blocked = @ \ {p}, !.dont_reply = TRUE,
                !.sigact[p] = [x \in Sig |-> IF x \in s.catch[p]
                                            THEN [mask |-> {}, flags |-> @[x].flags]
                                            ELSE @[x]],
                !.frames[p] = << >>, !.timer = @ \ {p}, !.own[p] = s.sigmask[p],
                !.ksig[p] = IF "TRACED" \in s.flags[p] THEN @ \cup {SIGTRAP} ELSE @]

\* T_OK by the child; the rest by anybody, on a stopped process c.
do_trace_ok(s) == [s EXCEPT !.flags[s.mp] = @ \cup {"TRACED"}]

findproc(s, pid) ==
  {c \in INIT_PROC_NR + 1 .. NR_PROCS - 1 : "IN_USE" \in s.flags[c] /\ s.pid[c] = pid}

do_trace(s, c, request, data, full) ==
  LET killed == sig_proc([s EXCEPT !.flags[c] = @ \ {"TRACED"}], c, data, full)
      signalled == IF data = NoSig THEN s
                   ELSE [killed EXCEPT !.flags[c] = @ \cup {"TRACED"}]
  IN  IF "STOPPED" \notin s.flags[c] THEN s
      ELSE IF request = "T_EXIT" THEN mm_exit(s, c, full)
      ELSE [signalled EXCEPT !.flags[c] = @ \ {"STOPPED"}, !.p_stop = @ \ {c}]

\* A KSIG message for p: every signal in turn, and the kernel is told when MM
\* is done with it.  A SIGALRM that nobody waits for is disregarded.
do_ksig(s, p, full) ==
  LET map == s.ksig[p]
      start == [s EXCEPT !.who = HARDWARE, !.mp = MM, !.dont_reply = TRUE,
                         !.ksig[p] = {}, !.unended[p] = @ + Cardinality(map),
                         !.procgrp[MM] = s.procgrp[p]]
      one(t, i) ==
        IF i = SIGALRM /\ "ALARM_ON" \notin t.flags[p] THEN t
        ELSE LET u == IF i = SIGALRM THEN [t EXCEPT !.flags[p] = @ \ {"ALARM_ON"}] ELSE t
                 id == IF i = SIGINT THEN 0 ELSE s.pid[p]
                 v == check_sig(u, id, i, full)
             IN  [v EXCEPT !.unended[p] = IF @ = 0 THEN 0 ELSE @ - 1]
      after[i \in 0 .. 15] ==
        IF i = 0 THEN start ELSE IF i \in map THEN one(after[i - 1], i) ELSE after[i - 1]
  IN  after[15]

-----------------------------------------------------------------------------
(***************************************************************************)
(* The main loop and what happens around MM.                               *)
(***************************************************************************)
PlainAct == [mask |-> {}, flags |-> {}]
PerUser(x) == [p \in User |-> x]

\* mm_init(): MM, FS and INIT.
Init ==
  m = [flags    |-> [p \in Slot |-> IF p <= INIT_PROC_NR THEN {"IN_USE"} ELSE {}],
       parent   |-> [p \in Slot |-> MM],
       pid      |-> [p \in Slot |-> IF p = INIT_PROC_NR THEN INIT_PID ELSE 0],
       procgrp  |-> [p \in Slot |-> 0],
       wpid     |-> [p \in Slot |-> 0],
       told     |-> [p \in Slot |-> 0],
       sigstatus |-> PerUser(FALSE),
       ignore   |-> PerUser({}),
       catch    |-> PerUser({}),
       sigmask  |-> PerUser({}), sigmask2 |-> PerUser({}), own |-> PerUser({}),
       sigpending |-> PerUser({}),
       sigact   |-> PerUser([x \in Sig |-> PlainAct]),
       frames   |-> PerUser(<< >>),
       procs_in_use |-> INIT_PROC_NR + 1, next_pid |-> INIT_PID + 1,
       who |-> HARDWARE, mp |-> MM, dont_reply |-> FALSE,
       posted |-> {}, blocked |-> {}, p_stop |-> {}, timer |-> {},
       ksig |-> PerUser({}), unended |-> PerUser(0),
       panic |-> FALSE, stray |-> FALSE]

\* told is about the answers of the last step only.
Fresh == [m EXCEPT !.told = [p \in Slot |-> 0]]

\* The kernel lets p run: MM owes it nothing and no signal of it is open.
Running(p) ==
  /\ Alive(m, p)
  /\ p \notin m.posted \cup m.blocked \cup m.p_stop
  /\ m.ksig[p] = {} /\ m.unended[p] = 0

\* A process sends a call to MM and waits for its answer.
Post(p) ==
  /\ Running(p)
  /\ m' = [Fresh EXCEPT !.posted = @ \cup {p}]

\* The clock task finds the alarm of p due.
AlarmFires(p) ==
  /\ p \in m.timer
  /\ m' = [Fresh EXCEPT !.timer = @ \ {p}, !.ksig[p] = @ \cup {SIGALRM}]

\* A fault of a running process, or a key at the terminal of a session.
KernelSignal(p, sig) ==
  /\ p # INIT_PROC_NR /\ Alive(m, p)
  /\ IF sig = SIGINT THEN m.procgrp[p] = m.pid[p] ELSE Running(p)
  /\ m' = [Fresh EXCEPT !.ksig[p] = @ \cup {sig}]

\* get_work(): MM receives the call of p.
Received(p) ==
  [Fresh EXCEPT !.who = p, !.mp = p, !.dont_reply = FALSE,
                !.posted = @ \ {p}, !.blocked = @ \cup {p}]

\* The end of the loop.  who, mp and dont_reply are set anew at its top.
Finish(s) ==
  LET t == IF s.dont_reply THEN s ELSE reply(s, s.who)
  IN  [t EXCEPT !.who = HARDWARE, !.mp = MM, !.dont_reply = FALSE]

\* The stacks that have no room for a signal frame: it matters for those who
\* catch signals only.
Full == SUBSET {p \in User : m.catch[p] # {}}

InUse(p) == "IN_USE" \in m.flags[p]

\* The arguments of the call that p makes.
WaitArgs(p) ==
  LET own == {c \in Slot : InUse(c) /\ m.parent[c] = p}
  IN  UNION {IF "any" \in WaitKinds THEN {-1} ELSE {},
             IF "pid" \in WaitKinds THEN {m.pid[c] : c \in own} ELSE {},
             IF "group" \in WaitKinds THEN {-m.procgrp[c] : c \in own} \ {0} ELSE {},
             IF "own group" \in WaitKinds THEN {0} ELSE {}}
KillIds == {0, -1} \cup UNION {{m.pid[c], -m.procgrp[c]} : c \in {x \in User : InUse(x)}}

\* One call of p.  INIT forks and waits; its handlers are left out, because no
\* signal of this model is for INIT.
Call(p, call, s) ==
  /\ call \in Calls /\ p \in m.posted
  /\ p = INIT_PROC_NR => call \in {"FORK", "WAITPID"}
  /\ m' = Finish(s)

Fork(p)    == \E memory \in BOOLEAN : Call(p, "FORK", do_fork(Received(p), memory))
Exit_(p)   == \E full \in Full : Call(p, "EXIT", do_mm_exit(Received(p), full))
Waitpid(p) == \E arg \in IF p = INIT_PROC_NR THEN {-1} ELSE WaitArgs(p), nohang \in BOOLEAN :
                Call(p, "WAITPID", do_waitpid(Received(p), arg, nohang))
Kill(p)    == \E id \in KillIds, sig \in Sig, full \in Full :
                Call(p, "KILL", do_kill(Received(p), id, sig, full))
Pause(p)   == Call(p, "PAUSE", do_pause(Received(p)))
Sigsuspend(p) == \E mask \in Masks, full \in Full :
                   Call(p, "SIGSUSPEND", do_sigsuspend(Received(p), mask, full))
Sigaction(p) == \E sig \in Sig, handler \in {"SIG_IGN", "SIG_DFL", "catch"}, act \in SigActs :
                  Call(p, "SIGACTION", do_sigaction(Received(p), sig, handler, act))
Sigprocmask(p) == \E how \in {"SIG_BLOCK", "SIG_UNBLOCK", "SIG_SETMASK"},
                     set \in Masks, full \in Full :
                    Call(p, "SIGPROCMASK", do_sigprocmask(Received(p), how, set, full))
Sigreturn(p) == /\ m.frames[p] # << >>
                /\ \E full \in Full : Call(p, "SIGRETURN", do_sigreturn(Received(p), full))
Alarm(p)   == \E on \in BOOLEAN : Call(p, "ALARM", do_alarm(Received(p), on))
Setsid(p)  == Call(p, "SETSID", do_setsid(Received(p)))
Exec(p)    == Call(p, "EXEC", do_exec(Received(p)))
TraceOk(p) == Call(p, "PTRACE", do_trace_ok(Received(p)))
\* All requests fail alike on a process that is not stopped.
Requests(c) == IF "STOPPED" \notin m.flags[c] THEN {<<"T_RESUME", NoSig>>}
               ELSE {<<"T_EXIT", NoSig>>} \cup {"T_RESUME"} \X (Sig \cup {NoSig})
Trace(p)   == \E pid \in {m.pid[x] : x \in User}, full \in Full :
                \E c \in findproc(m, pid) : \E req \in Requests(c) :
                  Call(p, "PTRACE", do_trace(Received(p), c, req[1], req[2], full))

\* The kernel sends signals to MM when no other message is waiting for it.
KSig ==
  LET pending == {p \in User : m.ksig[p] # {}}
  IN  /\ pending # {} /\ m.posted = {}
      /\ \E full \in Full : m' = Finish(do_ksig(Fresh, Least(pending), full))

Next ==
  /\ ~m.panic /\ ~m.stray
  /\ \/ KSig
     \/ \E p \in User :
          \/ Post(p) \/ AlarmFires(p) \/ (\E sig \in KernelSig : KernelSignal(p, sig))
          \/ Fork(p) \/ Exit_(p) \/ Waitpid(p) \/ Kill(p) \/ Pause(p) \/ Exec(p)
          \/ Sigsuspend(p) \/ Sigaction(p) \/ Sigprocmask(p) \/ Sigreturn(p)
          \/ Alarm(p) \/ Setsid(p) \/ TraceOk(p) \/ Trace(p)
  /\ \A p \in User : Len(m'.frames[p]) <= MaxFrames

Spec == Init /\ [][Next]_m
-----------------------------------------------------------------------------
(***************************************************************************)
(* Properties                                                              *)
(***************************************************************************)
Suspensions == {"WAITING", "PAUSED", "SIGSUSPENDED"}

\* Every field of the table has its type.
TypeOK == m \in Table

\* A pid names one process, and the number of a process group belongs to no
\* process but its leader, however often pids have wrapped around: do_fork()
\* looks at the groups that outlive their leaders, too.
PidsUnique ==
  \A p, q \in User : p # q /\ InUse(p) /\ InUse(q) =>
    /\ m.pid[p] # m.pid[q]
    /\ m.pid[p] = m.procgrp[q] => m.procgrp[p] = m.pid[p]

\* The parent of every process is there and can still wait for it, whatever
\* the order in which parents and children die (the disinheriting in mm_exit()).
ParentsAlive == \A p \in User \ {INIT_PROC_NR} : InUse(p) => Alive(m, m.parent[p])

\* What do_waitpid() accepts as a child to wait for.
Qualifies(p, c) ==
  /\ InUse(c) /\ m.parent[c] = p
  /\ m.wpid[p] > 0 => m.wpid[p] = m.pid[c]
  /\ m.wpid[p] < -1 => -m.wpid[p] = m.procgrp[c]

\* Nobody waits for what has already happened: no process sleeps in WAIT while
\* a child that its WAIT accepts hangs (mm_exit(), do_waitpid()).
NoLostWait ==
  \A p, c \in User : "WAITING" \in m.flags[p] /\ Alive(m, p) /\ Qualifies(p, c)
                       => "HANGING" \notin m.flags[c]

\* A live process whose call MM holds is suspended in exactly one of WAIT, PAUSE
\* and SIGSUSPEND, and one that is not suspended got its answer: no process is
\* left without an answer that no signal or exit will ever send.
Suspended ==
  \A p \in User : Alive(m, p) =>
    Cardinality(m.flags[p] \cap Suspensions) = (IF p \in m.blocked THEN 1 ELSE 0)

\* MM never answers a process that does not wait for an answer, which would
\* block MM (reply() uses send()).
RepliesAwaited == ~m.stray

\* Every call is answered once: never a process that does not wait, and none is
\* left without a suspension that somebody will end.
AnsweredOnce == RepliesAwaited /\ Suspended

\* procs_in_use, on which do_fork() relies to find a slot, counts the slots.
ProcsCounted == m.procs_in_use = Cardinality({p \in Slot : InUse(p)})

\* A process that sleeps in WAIT is woken about a child that it waits for: its
\* own, of the pid or of the group that it asked for.
WaitRight ==
  [][\A p \in User : "WAITING" \in m.flags[p] /\ m'.told[p] # 0 =>
       \E c \in User : /\ InUse(c) /\ m.pid[c] = m'.told[p]
                       /\ m.parent[c] = p \/ p = INIT_PROC_NR
                       /\ m.wpid[p] \in {-1, m.pid[c], -m.procgrp[c]}]_m

\* MM tells the kernel of every kernel signal that it is done with it, so that
\* the process may run again (do_endsig() in the kernel counts).  The code does
\* not: do_ksig() goes on to the next signal when it disregards a SIGALRM, and a
\* process that cancels an alarm which has just expired stays SIG_PENDING for
\* ever (MmCancel.cfg).
SignalsEnded == \A p \in User : m.unended[p] = 0

\* An alarm that runs belongs to a live process and MM knows of it, so that its
\* SIGALRM will not be disregarded (do_ksig()).
AlarmsKnown == \A p \in m.timer : Alive(m, p) /\ "ALARM_ON" \in m.flags[p]

\* A process has set an alarm while the SIGALRM of its last one is still on the
\* way to MM, which will take it for the new one (MmCross.cfg).
Crossing == \E p \in m.timer : SIGALRM \in m.ksig[p]

\* Only that makes MM lose sight of an alarm: fork copies it in both tables, exec
\* and exit stop it, do_ksig() forgets the one that fired and no other, and
\* stops, kills and handlers leave it alone.
AlarmsKept == [][AlarmsKnown /\ ~Crossing => AlarmsKnown']_m

\* When all handlers have returned, the mask is the one that the program chose,
\* also when SIGSUSPEND had replaced it and handlers were nested.
MaskRestored ==
  \A p \in User : Alive(m, p) /\ m.frames[p] = << >> /\ "SIGSUSPENDED" \notin m.flags[p]
                    => m.sigmask[p] = m.own[p]

\* A pending signal that is not blocked waits only for a handler to return: no
\* change of the mask leaves one behind.
PendingDelivered ==
  \A p \in User : Alive(m, p) /\ m.sigpending[p] \ m.sigmask[p] # {} => m.frames[p] # << >>

\* No legal sequence of calls makes MM panic: sig_proc() is only called for
\* live processes, as its two tests demand.
NoPanic == ~m.panic

\* The process table through all creations and deaths: typed, counted, pids told
\* apart, and no panic.
TableSound == TypeOK /\ PidsUnique /\ ProcsCounted /\ NoPanic
=============================================================================
