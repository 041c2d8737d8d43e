# TLA+ models of MINIX-ST 2.0.2

MINIX 2.0.2 for the Atari ST is a message-passing operating system: a small
kernel with device tasks, two server processes (the memory manager MM and the
file system FS) and user processes that reach everything through messages to the
servers. This directory holds TLA+ models of its core, the TLC configurations
that check them and TLAPS proofs about them. Paths below are relative to
`src/src/` unless they start with `src/`.

## 1. The system

| part | code | state | operations |
|------|------|-------|------------|
| message passing, scheduling | `kernel/proc.c`, `kernel/proc.h` | `p_flags`, `p_callerq`, `p_sendto`, `p_getfrom`, ready queues `rdy_head/rdy_tail`, `proc_ptr`, `bill_ptr`, held interrupts, `p_int_blocked` | `sys_call`, `mini_send`, `mini_rec`, `interrupt`, `unhold`, `ready`, `unready`, `sched`, `pick_proc` |
| system task | `kernel/system.c` | `p_pending`, `p_pendcount`, `sig_procs`, process slots | fork, fresh, exec, xit, kill, endsig, trace, `cause_sig`, `inform`, copying, times, maps |
| shadowing | `kernel/stshadow.c` | `p_shadow`, memory maps, `p_physio` | `mkshadow`, `rmshadow`, `unshadow`: the ST has no MMU, so a forked child has a copy of its parent's image and exchanges it with its parent's whenever it runs |
| clock task | `kernel/clock.c` | `realtime`, `pending_ticks`, `p_alarm`, `next_alarm`, `sched_ticks`, `watch_dog[]` | clock interrupt, tick, set alarm, get/set time, synchronous alarm task |
| MM: processes and signals | `mm/main.c`, `forkexit.c`, `signal.c`, `trace.c`, `getset.c` | the `mproc` table, `procs_in_use`, `next_pid` | fork, exit, waitpid, kill, pause, sigaction family, alarm, ptrace, setsid, KSIG |
| MM: memory and images | `mm/alloc.c`, `break.c`, `exec.c` | the hole list, memory maps | alloc, free, adjust, exec |
| FS | `fs/*.c` | block cache, inode, filp and super block tables, `fproc` with `fp_suspended`/`fp_task` | read, write, names, pipes, locks, devices, suspend/revive |
| drivers | `kernel/stprint.c`, `sttty.c`, `stfloppy.c`, `stacsi.c`, `memory.c`, ... | device registers and one request each | open, read, write, ioctl, cancel |
| network | `inet/`, `kernel/dp8390.c` | not enabled in this configuration | |
| programs | `commands/`, `lib/`, `test/`, `sttools/` | | |

How the parts meet. A user process only does SENDREC with MM or FS. MM and FS
call tasks, and MM calls FS (`tell_fs`); a task answers, and a driver may send to
FS on its own to revive a process. Interrupts turn into messages from HARDWARE.
A signal that the kernel raises is parked in the process slot (`PENDING`,
`SIG_PENDING`) and handed to MM as a message in HARDWARE's name when MM asks for
one; MM then decides, builds a frame or kills, and answers with `sys_endsig` or
`sys_xit`. The kernel's table and MM's table describe the same processes and are
kept in step only by such messages.

What is hard about it:

* the scheduler's queues are written by kernel calls, by interrupts and by the
  exchange of images, and an interrupt that arrives inside the kernel is held and
  replayed later (`proc.c:75`, `proc.c:92`);
* rendezvous without buffers: a wakeup that is lost is lost for good, a cycle of
  senders never ends (`proc.c:202`, `proc.c:277`);
* signals are counted in two places and pass through two servers
  (`system.c:1057`), while the process may exit, exec, fork or be traced;
* MM answers a suspended process from five places (`main.c`, `forkexit.c`,
  `signal.c`, `trace.c`), and an answer that nobody awaits blocks MM itself;
* alarms race with the calls that set and cancel them (`mm/signal.c:305`);
* an image is in place for one process of a family only, and the slot of
  memory a process owns changes hands without MM knowing (`stshadow.c`);
* the clock interrupt and the clock task share variables without locks, and a
  comment of 35 lines argues that this is harmless (`clock.c:405`);
* FS parks calls that cannot go on and runs them again from the top; whoever
  changes what they wait for must release them (`pipe.c`, `lock.c`, `open.c`);
* FS and a driver may send to each other at the same time, and a cancellation may
  cross the completion of what it cancels (`device.c:272`, `stprint.c:167`);
* memory is handed out by MM and taken back at an address that the kernel names
  (`alloc.c`, `rmshadow()`).

`PROJECT.json` lists these hazards at their lines, with the properties that
cover them.

### What makes each part correct

* Message passing: exactly the runnable processes are queued and the right one
  runs; every blocked sender is found by its receiver; nobody waits for a message
  that is already there; an interrupt is never lost; senders never wait in a circle.
* System task: a kernel signal reaches MM when MM could take it; its counts match;
  a process is not scheduled before its signals have been dealt with.
* Shadowing: every live process has a copy of its image of its own, and the
  process that runs is the one whose image is in place.
* MM: pids are unique, every process has a live parent, a parent never sleeps on
  while a child it waits for hangs, an answer is awaited, signals are delivered
  when unblocked, masks are restored, alarms known to both tables.
* Clock: an alarm goes off, once, not before its time; a ready user and a ready
  shadow get their turn; an image does not move while a device works on it.
* Pipes: a pipe is a queue of bytes, nobody sleeps for what is there, and calls
  that wake each other come to an end.
* Locks: locks exclude each other, unlocking clears what it names, nobody waits
  for a lock that is free.
* Printer and FS: a call returns, a suspended process is revived or cancelled,
  no job is reported done before it is.
* Memory: holes and allocated blocks partition memory, free clicks in a row are
  one hole.

## 2. The modules

| module | role |
|--------|------|
| `Kernel` | the kernel: message passing, scheduling, interrupts, system task, shadowing |
| `MCKernel` | its instances: who talks to whom |
| `KernelProofs` | the queues, message passing, interrupts and signals keep the table good; one lemma per action, and the first theorems: types, queues, counts |
| `KernelSafetyProofs` | on top of these: rendezvous, deadlock, interrupts, signals, images |
| `Mm`, `MCMm` | MM's process table and signals, with what MM relies on of the kernel |
| `MmProofs` | its theorems |
| `AlarmClock` | what the clock task promises about alarms, without its data |
| `Clock`, `MCClock` | the clock task, its interrupt handler, the synchronous alarm task, and the exchange of images it drives |
| `ClockProofs` | its theorems, the safety half of the refinement included |
| `Pipe`, `MCPipe`, `PipeProofs` | pipes and FIFOs in FS: parked and retried calls |
| `Locks`, `MCLocks`, `LocksProofs` | advisory locks in FS |
| `Printer`, `MCPrinter`, `PrinterProofs` | the printer task, its interrupts, and the FS that calls it |
| `Holes`, `MCHoles`, `HolesProofs` | the hole list of MM under fork, exec and exit |

`Clock` and `Kernel` share the scheduler: `Kernel` has every process and no time,
`Clock` has time, quanta and transfers for a few users and stands for everybody
else by `busy`. `Printer` composes three parties (FS, the task, the device).

### Kernel

The process table and the scheduler's globals are the fields of one record `k`;
each C function is an operator from one record to the next and keeps its name.
The kernel runs to completion with interrupts held, so an operator that a trap or
a task's turn executes is one step.

| field | in the code |
|-------|-------------|
| `flags` | `p_flags`, with `P_SLOT_FREE`, `SENDING`, `RECEIVING`, `PENDING`, `SIG_PENDING`, `P_STOP`, ... as a set |
| `callerq`, `sendto`, `getfrom` | `p_callerq`/`p_sendlink` as a sequence, `p_sendto`, `p_getfrom` |
| `rdy`, `proc_ptr`, `bill_ptr` | `rdy_head`/`rdy_tail` as sequences, `proc_ptr`, `bill_ptr` |
| `held`, `int_blocked` | `held_head` list (`p_int_held`), `p_int_blocked` |
| `pending`, `pendcount`, `sig_procs` | the same names |
| `shadow`, `core` | `p_shadow`, and the memory slot of the image (`p_map`) |
| `panic` | what `panic()` was called with, if it was |
| `court` | history: signals that MM has been told of and has not ended |

`unholding` says that `unhold()` still has interrupts to replay before the
kernel returns to a process; `alloc` is the set of memory slots MM has handed out;
`stopped` are the processes that are STOPPED in MM's table, which is what MM looks
at before it asks for T_RESUME (`mm/trace.c:48`) and what a FORK copies to the child
(`mm/forkexit.c:75`), unlike `P_STOP`. The three panics of `stshadow.c` are in the model:
whether a sharer is in physio when `rmshadow()` has to move it (`busy`) is a free choice, as
no code excludes it, and after a panic nothing happens any more (`Halting`, `Halted`).

| action | code |
|--------|------|
| `SysCall` | a trap into `sys_call()` by the process that runs |
| `Interrupt`, `HoldInterrupt`, `Unhold` | `interrupt()` from a process, from inside the kernel, and its replay |
| `UserTrap`, `TaskSignal` | an exception of a process; a task that calls `cause_sig()` |
| `ClockTick` | the clock task's turn: alarm signals, `sched()`, exchange of images |
| `Fork`, `Fresh`, `Exec`, `Xit`, `Kill`, `EndSig`, `Trace` | the system task's turn for each request |

What is relied on of the callers is in one definition, `Trusted`: a user process
only does SENDREC with MM or FS (`sys_call()` refuses the rest), tasks and servers
call those in `Talks`, and a task answers a process that waits for it. `EndSig`
needs a signal MM has been told of: MM ends each one once. Message contents,
accounting and the layout of memory are left out; time is left out of
`ClockTick`, where which alarms expire and whether images are exchanged is a free
choice.

### Mm

MM serves one message at a time, so a call is one step. What interleaves is the
order in which messages reach MM, and the kernel signals and alarms between them:
`Post` queues a process's message, `AlarmFires` and `KernelSignal` mark a process
in the kernel's table, one action per call takes a message up and runs its
handler to the end, `KSig` runs `do_ksig()` for every process that the message
names. Like `Kernel`, the state is one record `m`: the fields of `mproc`
(`flags`, `pid`, `procgrp`, `parent`, `wpid`, `ignore`, `catch`, `sigmask`,
`sigpending`, ...), `procs_in_use` and `next_pid`, then the kernel's side
(`posted` and `blocked` in a call, `p_stop`, kernel signals pending in `ksig` and
`unended`, `timer`),
and history: `told`, the child that the answer to a WAIT is about; `own`, the
mask the program itself has set; `stray`, an answer that nobody awaits; `panic`.

Abstractions: one ordinary user besides INIT and MM; exit statuses are left out
and `mp_sigstatus` is a Boolean, "a stop not yet reported"; INIT forks and waits,
and no modelled signal reaches its handlers; SIGINT stands for the two signals of
the keyboard; a stack without room for a frame is a free choice (`full`).
`do_signal`, reboot, core dumps, ids and memory are not modelled.

### Clock

Unlike the kernel proper the clock task runs with interrupts on. Its handlers are
cut where they access what `clock_handler()` reads or writes, and `pc` says where
the task is: `HardInt`, `TickReset`, `RingAlarms`, `CountDown` (or `CountLoad`
and `CountStore`: `--sched_ticks` is one instruction or three, as the compiler
likes), `Expire` and `TickEnd` are `do_clocktick()`; `do_setalarm`, `ResetNext`
and `common_setalarm` are SET_ALARM and SET_SYNC_AL. `clock_handler` may come
between any two of them. Times are kept relative to `realtime`, so that they stay
bounded: `Transfer` moves them by `pending_ticks`. `LONG_MAX` is later than any
alarm; `Off` is `p_alarm = 0`.

The other processes appear by what they do to these variables: `SetAlarm`,
`TimeCall` (messages), `Cancel` and `Fork` (the system task, behind the back of
the clock task), `Block`, `EndIO`, `Wake`, `DeviceInterrupt` and `Dispatch` (the
scheduler and `p_physio`), `SynRun` and `ServerReceives` (the synchronous alarm
task and its customer). No process runs between two steps of the task.

`AlarmsServed` says that `Clock` implements `AlarmClock`: `left` is `p_alarm`
less the ticks that are pending, or nothing; `rung` are the alarms that were
served and whose owners are being told. `AlarmClock` lets an alarm go off only
when it is due, turns it off with it, and is fair to ticks and due alarms.

### Pipe

One inode, all processes that use it; one action per call, as FS serves one
message at a time. `hang` is the parked call (`fp_suspended`, `fp_task`,
`fp_fd`, `fp_nbytes`), `revived` the processes with `fp_revived`, `get_work` runs
the first of them again before FS takes a new message. `data` holds for each byte
of the file who wrote it, so that order can be stated. `release` follows its loop
to the letter: table order, and a count that is compared after it is counted
down. All descriptors of one end share a filp, because `common_open()` looks for
the filp of a partner and everything else duplicates. The inode is a FIFO or was
made by `pipe()` (`kind`). `SetFl` is F_SETFL and may clear any flag, the O_APPEND that
`common_open()` forces on a FIFO included. `adrift` is history: F_SETFL has done so to writers whose
position was not the end of the file. Then, and only then, the file is no queue any more (section 3), so
the properties about wakeups and order say what holds until then.

### Locks

The lock table of one file. `Clear` is one round of the loop of `lock_op()` that
clears a region, `Cleared` the loop; it reads the slots that it fills itself
when it splits a lock. `want` is the lock a parked process waits for.

### Printer

`pp` says where the task is, `fs` where FS is in `call_task()` (its two loops are
`call_task` and `Answer`), `msg` and `mail` are the messages on the way. The task
has priority over FS (`FsRuns`). `piaint()` is in the model twice: as the handler,
`piaint`, one step; and as `do_write()` calls it, `TaskEntry`, `TaskTest`,
`TaskPut` (the decrement of `left`), `TaskOut` (the byte goes out) and `TaskLine` (BUSY is
read), where the handler may come in between any two. `outc` and `Ready` are the
device: the BUSY line goes on for a while or was so fast that nobody saw it, and
each falling edge is an interrupt.

### Holes

`hole` is the list from `hole_head` as a sequence; the list of free slots is
what is left of `NR_HOLES`. `Images` are the addresses of the images in memory,
whose number do_fork() keeps within `NR_PROCS` (a zombie has a slot of the process
table, too, but no memory: the code forks less). `prog` has an entry per program that is in memory: its
text, its data, and the shadows of the processes that forked. `seg` has the file of each and its
`mp_seg[T]`: EXEC of an A_SEP file that is in execution takes the text of the other
program (`find_share`) and allocates data only. `Freed` is what
`rmshadow()` tells MM to free: a shadow, or from the base of the text the length of text and data.
With shared text that is the image of somebody else, and what happens to memory after
that is not modelled: such a free sets `astray` and ends the behaviour.
`del_slot()` is a removal from the sequence.

## 3. Runs

All runs explore their whole state space.

| run | instance | what it shows |
|-----|----------|---------------|
| `KernelIpc` | 5 tasks, MM, FS, one user; a driver that calls CLOCK and sends to FS on its own; interrupts, held interrupts, a user that is stopped and resumed | queues, scheduling, rendezvous, no cycle of senders, no lost interrupt |
| `KernelSig` | 4 tasks, MM, FS, two users; two signals, up to `MaxPending` = 2 unfinished per process; kill, traps, fork, exec, exit | a signal reaches MM as soon as MM would take it; the counts agree and the table is well typed |
| `KernelFork` | 4 tasks, MM, FS, three users, three memory slots; fork, exit, exec, clock ticks, physio at any time | every live process owns an image, the one that runs is in place, and of the panics of `stshadow.c` only that of physio happens |
| `MmLife` | INIT and two users; fork, exec, exit, waitpid (any, a pid, a group), kill, setsid | pids, parents, counts, waits; a WAIT is answered once, whichever exit, kill or broadcast ends it |
| `MmSig` | INIT and one user; three signals, handlers up to two deep, masks, pause, sigsuspend, kernel signals | masks restored, unblocked signals delivered, PAUSE and SIGSUSPEND answered once |
| `MmTrace` | INIT and two users that may fork; fork, exec, pause, waitpid, ptrace, alarm | a call is answered once, to somebody who waits for it, while processes are stopped and resumed; a step never makes MM forget an alarm that runs, through fork, exec and exit, but for an expired alarm that crosses a new one |
| `ClockAlarm` | two users, a driver and a server with alarms of one tick; `MaxRaces` = 2 ticks hit the task at work | `next_alarm` is never too late, the clock never blocks on SYN_ALRM; refinement of `AlarmClock`; synchronous alarms arrive |
| `ClockSched` | four users, three of them sharing a slot; quantum of 2 ticks, `FLIPWAIT` = 1, one tick that races, one user that blocks or device that interrupts | the quantum survives the race for `sched_ticks`, images are pinned, everybody gets a turn |
| `Pipe` | two processes, a pipe of 2 bytes, requests up to 3, full disk, any F_SETFL | wakeups and order of bytes until F_SETFL sets writers adrift; cascades always end |
| `Printer` | two processes, one at a time at the printer, jobs up to 3 bytes | FS returns, writers are answered, images pinned while printing, no job done early |
| `Locks` | three processes, a table of 2 locks, 3 bytes | exclusion, counts, exact unlocking, nobody forgotten |
| `Holes` | four processes, two chunks of 3 and 5 clicks, files with and without separate text | until a home is freed whose text is shared: memory is conserved, holes are merged, no panic |

Several invariants are conjunctions of parts that only make sense together:
`CountsSound` of `Kernel` (type, `SignalCounts`), `TableSound` of `Mm` (type, unique pids, `procs_in_use`, no panic), `AnsweredOnce`
(`Suspended`, `RepliesAwaited`), `AlarmsSound`, `SchedSound`, `WakeupsSound`,
`PrinterSound`, `TableSound` of `Locks`, `MemorySound`. All but `AnsweredOnce`
include the type invariant of their module.

### Where the code departs from its comments

Some properties hold only for instances that leave a case out, or exclude a case in
their statement, because the code does not do what a comment or an assertion
says. Six configurations that are not among the runs each check a property that the code breaks; TLC
prints the counterexample (`tlc -config X.cfg M`, with the `MC` module of the component).

| configuration | breaks | why |
|---------------|--------|-----|
| `KernelTrace` (`MCKernel`) | `ReadyQueues` | a process that is stopped while its FORK is queued at MM gets a child that is STOPPED for MM (`mm/forkexit.c:75` clears only TRACED) and runs for the kernel. MM lets a T_RESUME of it through (`mm/trace.c:48`), and `do_trace()` calls `lock_ready()` without a look at the flags (`kernel/system.c:1030`): the child is queued twice. `kernel/proc.h:71`: "A process is runnable iff p_flags == 0." |
| `HolesShare` (`MCHoles`) | `TextKept` | two processes execute an A_SEP file; when one leaves, `rmshadow()` names the base of the shared text with the length of text and data (`kernel/stshadow.c:90`): the image of the process that loaded the text is freed, and the data of the other one never is. Without SHADOWING the text is freed only if "No other process shares the text segment" (`mm/exec.c:424`). |
| `MmCancel` (`MCMm`) | `SignalsEnded` | a SIGALRM that crosses `alarm(0)` is disregarded with `continue`, which skips `sys_endsig()` (`mm/signal.c:305`): the process stays SIG_PENDING for ever. `kernel/system.c:1064` says the flag is kept only while there are signals MM has not finished with. |
| `MmCross` (`MCMm`) | `AlarmsKnown` | an old SIGALRM that crosses a new `alarm()` clears ALARM_ON (`mm/signal.c:306`); the new one will be disregarded, though line 301 says that this is for processes that have not requested one. `AlarmsKept`, which the run `MmTrace` checks, excludes this step (`Crossing`). |
| `PipeAppend` (`MCPipe`) | `AppendForced` | F_SETFL can clear the O_APPEND that `common_open()` forces on a FIFO (`fs/misc.c:112`, `fs/open.c:165` "force append mode"). A writer that opens a drained FIFO again has the old position and leaves a gap of bytes that nobody wrote, or writes over bytes that nobody has read: what the FIFO holds is not what came in, which `QueueOrder` excludes by `adrift`. |
| `PipeSleep` (`MCPipe`) | `NoLostWakeup` | the same writer does not write at position 0, so that `fs/pipe.c:153` releases nobody: a reader sleeps with data in the FIFO. `WakeupsSound` excludes it by `adrift`. |

Others can be seen by changing the named constant in the `.cfg` of a run.

| change | breaks | why |
|--------|--------|-----|
| `MmLife`: `WaitKinds = {"own group"}` | `NoLostWait` | `waitpid(0)` of a process of group 0: `pidarg = -0` (`mm/forkexit.c:225`), which `do_waitpid()` reads as "any child" and `mm_exit()` as "group 0". Line 227 says "At this point, pidarg != 0". |
| `MmTrace`: `KILL` in `Calls`, `INVARIANT NoPanic` | `NoPanic` | T_RESUME with a signal of a stopped process that was killed meanwhile: `do_trace()` looks at STOPPED only (`mm/trace.c:48`), `sig_proc()` panics (`mm/signal.c:460`). |
| `Printer`: `MaxOpen = 2` | `PrinterSound`, then a deadlock with FS in its call | a second write finds the printer busy and is refused, but has overwritten `caller`, `procno`, `orig`, `left` and `addr` (`kernel/stprint.c:103`, "Reject command if printer is busy"): the first writer is never revived, its image stays pinned, and a later CANCEL is not answered. |
| `Locks`: `Mixed = TRUE`, `Procs = {1, 2}`, `MaxPos = 3` | `WaitersBlocked` | unlocking the middle of a lock in a full table returns ENOLCK at `fs/lock.c:114` after other locks have been removed, and skips `lock_revive()`; the head of the file says "revive processes when a lock is released". |
| `Holes`: `NR_HOLES = 5` (and without the assumption) | `NoPanic`, with it `MemorySound` | the table needs as many slots as there are processes and chunks; 128 are plenty for 32 processes. |

Met while modelling, and not stated as properties: the hangup of a session
compares the pid of the dying process with the group of whoever MM serves
(`mm/forkexit.c:152`), so that a leader killed from another session sends none;
nothing keeps the process in place from exiting while a sharer of its
address is in physio, and then `rmshadow()` panics (`kernel/stshadow.c:75`, a step of `Kernel`);
a waitpid for one child is answered with another
that stopped (`mm/trace.c:102`); F_UNLCK removes locks of other processes too
(`fs/lock.c:76`), and an F_SETLKW may wait in a circle; `susp_count` (`fs/glo.h:11`,
"number of procs suspended on pipe") still counts calls that a signal has ended;
`fp_cum_io_partial` is not reset by an error or a signal (`fs/read.c:84` says
that it "is only nonzero when doing partial writes"), so that the next
transfer returns too much; a nonblocking write of exactly PIPE_SIZE bytes waits
(`fs/pipe.c:128`); an interrupted open of a FIFO leaves its descriptor open;
a nonblocking write to the printer whose CANCEL crosses the completion returns
what the CANCEL message holds at the place of the status (`fs/device.c:283`);
after a cancelled job DEV_OPEN and DEV_CLOSE clear a byte outside of the process
table (`kernel/stprint.c:188`, `procno` is -999); and the race of the two
`piaint()` for `left` may print one byte behind the buffer (`left` = -1 in
`TypeOK`). With two customers of SET_SYNC_AL whose alarms are due at
once, `cause_alarm()` would send to SYN_ALRM a second time, when it is not in its
receive any more, and CLOCK would block (`kernel/clock.c:338`); inet is the only
one, hence `SyncAssumption`. `ready()` puts users at the head of USER_Q, though its comment says
"to the end" (`kernel/proc.c:336`).

### Bounds, and why they suffice

* Processes. Every property relates at most a process, its parent or child and a
  server. Two users under INIT give the cases parent/child, siblings, orphan
  and a stranger that kills; three users in `KernelFork` are needed for an
  image shared by three.
* `Slots` = number of users: every process can own an image and none is spare, so
  a slot that is freed wrongly is soon handed out again.
* `MaxPending` = 2 unfinished kernel signals per process: one being handled and
  one arriving.
* `MaxFrames` = 2 nested handlers, so that a handler interrupts a handler.
* `MaxPid` in `MmLife` and `MmSig` is just above the `2 * (NR_PROCS - 3)` pids and groups
  that can be taken (`PidsAbound`), so that `next_pid` wraps around and skips used
  ones. Without SETSID there are no groups but INIT's, and 3 pids are enough in `MmTrace`.
* `LAST_FEW` = 0 in the `Mm` runs: an ordinary user may fork until the table is full. The refusal for the last
  slots is in `do_fork` and in the proofs, but no run exercises it.
* `Sig` holds the signals with a part of their own (1 for the hangup, 9, 14 where
  there are alarms, 5 where a traced process may exec) and one more where handlers matter.
* Tracing (`P_STOP`) is in `KernelIpc` and not in `KernelSig`, where it would triple
  the states: that stops and signals together keep the queues right is proved.
* Clock: `MaxDelta` = 1 tick, because alarms of different processes are set at
  different times and so come in every order anyway; `MaxRaces` counts ticks that
  find the task at work, 2 to hit one handler twice; `MaxEvents` how often a user
  blocks or a device interrupts before everybody only computes, which is when
  `FairShare` promises something. `ClockAlarm` has no users that compute,
  `ClockSched` no alarms: the two halves meet only in `pc`.
* Pipe: 2 bytes and requests of 1, 2 and 3 give the cases below, equal to and
  above `PIPE_SIZE`. `MaxIntr` = 1: `susp_count` may exceed the processes that
  hang by one, more would change nothing that is compared.
* Locks: 3 bytes are needed to split a lock, 2 slots are full at once, 3 processes
  give one that holds and two that wait.
* Holes: the two chunks cannot be merged with each other, and one of them can hold
  three blocks with free clicks between them.

No symmetry is used: slots are searched in order by the code.

### Deadlock and fairness

The Kernel runs check deadlock: interrupts and IDLE always go on until a panic (`Halted`); so do `Clock`
(the timer), `Printer` and `Locks`. In Mm everybody may legitimately be paused or
waiting, in Pipe everybody may hang on a pipe nobody fills, in Holes the model ends
with a panic or a stray free; these say `CHECK_DEADLOCK FALSE`.

`Kernel`, `Mm`, `Locks` and `Holes` state no fairness. "Nobody waits for what is
already there" is stated as safety (`NoMissedRendezvous`, `NoLostInterrupt`,
`SignalsReachMM`, `NoLostWait`, `PendingDelivered`, `WaitersBlocked`): it is the
part of progress that the code itself decides.

* `Clock`: the timer interrupt comes for ever (strong fairness of `clock_handler`,
  as the task may be at work now and then); a ready task runs (weak for
  `ClockStep`, strong for `SynRun`, which CLOCK may precede); servers block again
  (strong for `Dispatch`), inet comes back to its receive, a transfer ends. Tasks
  have priority and FIFO order in TASK_Q, which is what justifies these.
* `Pipe`: `WF(get_work)`. FS does not wait while it has work in its own table.
* `Printer`: the task and the handler run when they can, the printer takes each
  character in the end, and FS, which has a lower priority than the task, runs
  again and again when the task blocks again and again (strong).

## 4. What is proved

Every theorem holds for all values of the constants that satisfy the named
assumptions of the module (sizes are natural numbers, `LAST_FEW` is not more than
the table has, and so on: each is what the code's `#define`s satisfy). Where a theorem needs
more, the column "under" says what, and the table of section 3 shows the behaviour of the
code that makes it necessary; a hypothesis that is not in that table is
explained below.

| module | theorem | property | under |
|--------|---------|----------|-------|
| `KernelProofs` | `RunnableQueued` | `ReadyQueues` | `[]StopsAgree` |
| | `RightProcessRuns` | `Scheduled` | `[]StopsAgree` |
| | `SendersQueued` | `CallerQueues` | `[]StopsAgree` |
| | `SignalsCounted` | `CountsSound` | `[]StopsAgree` |
| | `HardwareFree` | `HardwareNeverBlocks`, not run | `[]StopsAgree` |
| `KernelSafetyProofs` | `Rendezvous` | `NoMissedRendezvous` | `[]StopsAgree` |
| | `DeadlockFree` | `NoSendCycle` | `[]StopsAgree` |
| | `InterruptsKept` | `NoLostInterrupt` | `[]StopsAgree` |
| | `MMTold` | `SignalsReachMM` | `[]StopsAgree` |
| | `ImagesOwned` | `ImageOwnership` | `[]StopsAgree` |
| | `InPlace` | `RunsInPlace` | `[]StopsAgree` |
| | `StopsKept` | `[]StopsAgree`, not run | `BornRunning` |
| `MmProofs` | `ProcessTable` | `TableSound` | no tracing, `PidsAbound` |
| | `NoOrphans` | `ParentsAlive` | no tracing, `PidsAbound` |
| | `OneAnswer` | `AnsweredOnce` | no tracing, `PidsAbound` |
| | `NoLostWaits` | `NoLostWait` | no tracing, `PidsAbound`, no `"own group"` |
| | `WokenRight` | `WaitRight` (of every step) | no tracing, `PidsAbound` |
| | `MaskComesBack` | `MaskRestored` | no tracing, `PidsAbound` |
| | `NoForgottenSignal` | `PendingDelivered` | no tracing, `PidsAbound`, no exec |
| | `AlarmsStayKnown` | `AlarmsKept` (of every step) | no tracing, `PidsAbound` |
| | `AlarmsAreKnown` | `[]AlarmsKnown`, not run | no tracing, `PidsAbound`, `[]~Crossing` |
| `ClockProofs` | `AlarmsSoundAlways` | `AlarmsSound` | |
| | `SchedSoundAlways` | `SchedSound` | |
| | `ImagesPinned` | `ImagePinned` (of every step) | |
| | `AlarmsRefine` | `AlarmsServed` without its fairness | |
| `PipeProofs` | `NobodyForgotten` | `WakeupsSound` with `NoLostWakeup` | a pipe, or a FIFO until `adrift` |
| | `PipeIsQueue` | `QueueOrder`, which ends at `adrift` | |
| | `PipeAlwaysQueue` | `QueueStep` of every step, not run | what `pipe()` makes |
| `LocksProofs` | `TableSoundAlways` | `TableSound` | |
| | `UnlocksExactly` | `UnlockExact` (of every step) | |
| | `WaitersBlockedAlways` | `WaitersBlocked` | `Mixed = FALSE` |
| `PrinterProofs` | `WriterPinned` | `PrinterSound` | `MaxOpen <= 1` |
| | `DoneAtTheEnd` | `NoEarlyDone` | `MaxOpen <= 1` |
| | `NoForgottenCall` | `Attended`, not run | `MaxOpen <= 1` |
| `HolesProofs` | `MemoryConserved` | `MemorySound` | until `astray` |
| | `RefusalsJustified` | `NoFalseRefusal` | until `astray` |
| | `NeverPanics` | `NoPanic` | until `astray` |

### Kernel

None of the properties of `KernelProofs` is inductive on its own. `ready()` may only append a process that is
not queued, which holds because the process had a flag before; which flags it had
depends on the caller queues and on the counts of signals; `unready()` of a
process that sends would leave it on a caller queue. The inductive invariant is
therefore the conjunction

    IInv == Good(k) /\ Settled(k)
            /\ unholding \in BOOLEAN /\ alloc \subseteq Slots /\ stopped \subseteq User
            /\ (unholding => k.held # << >>)

where `Good` says: the table is well typed, exactly the runnable processes are
queued in the queue of their class, flags are consistent (`FlagsOK`: free slots,
IDLE and HARDWARE never block, only processes have signals), caller queues hold
exactly the senders, and `sig_procs` and `p_pendcount` agree with the flags.
Each operator (`mini_send`, `mini_rec`, `inform`, `interrupt`, `cause_sig`,
`SetShadow`, `do_xit`, ...) has a lemma that it keeps `Good`; each action has one
that it keeps `IInv`. `KernelSafetyProofs` adds to `IInv` that nobody who receives is
on the other end of a sender (`Met`), that senders do not wait in a ring (`NoRing`, which the
check in `mini_send()` keeps because the chain that it follows ends), that a task with
a noted interrupt does not wait for one (`NoneLost`), that MM does not wait while
`sig_procs > 0` (`Told`), and who owns which image (`ImagesOK`). `Eases(s, t)`
says which steps cannot break these: nobody begins to wait in them.

The code breaks `ReadyQueues`, and with it everything that rests on it, when T_RESUME meets a
process without P_STOP (section 3, `KernelTrace`). The theorems therefore
assume `[]StopsAgree`: whoever is STOPPED for MM is P_STOP for the kernel. `StopsKept` says that one
thing only can make that false: a process that is born STOPPED (`BornRunning`), that is, a FORK that MM serves for
a process that it has stopped. No trap, signal, exec, exit or exchange resumes somebody who is stopped
(`Stays`). So all theorems hold of a system whose debuggers do not fork that way, and of one without any.

### Memory manager

A call is one step, but inside the step loops over the table kill, adopt,
wake and answer processes and call each other: `mm_exit()`, `check_sig()`, `sig_proc()`,
`cleanup()`. The invariant is therefore a predicate on tables,

    Sound(s) == Core(s) /\ Kin(s) /\ Waits(s, {}) /\ Held(s, {}) /\ Masked(s, {})

with exceptions for the process whose turn it is, and every C function has a lemma
that it keeps `Sound` up to these. `Core` has the type, the books (free slots,
`procs_in_use`), the pids and the groups, and what kernel signals may be pending; `Kin` the
parents, with an argument for the loop that disinherits; `Waits` that nobody waits
for a child that hangs; `Held` that a process whose call MM holds is suspended
in one call or being served, and that nothing in the kernel is left of the dead; `Masked` where the
mask is that a program will get back. Half of the properties also need to know how a
function changes the table: `Fades(s, t)` says that processes only die, wake up
and are adopted, that nobody is told of a child it did not wait for, and that no
alarm is forgotten that still runs; it is transitive, so that it goes through the loops.
`Good`, the invariant of the specification, adds that between two steps MM owes no answer.

Tracing is left out of these theorems because a traced process is stopped in the kernel and in MM by
different calls, so that `NoPanic` is false with it (section 3); the run `MmTrace` checks `AnsweredOnce` and
`AlarmsKept` with it on a small instance. `PidsAbound`: with fewer pids than processes and groups the loop of
`do_fork()` that looks for a pid would not end. EXEC drops the frames of handlers without looking at the
pending signals (`mm/exec.c`), hence the hypothesis of `NoForgottenSignal`.
Alarms: MM and the kernel agree step by step, with handlers, ignored and blocked signals, forks and
execs, as long as no process that has a new alarm has an old SIGALRM on its way to MM (`Crossing`); there the code
breaks `AlarmsKnown` (section 3, `MmCross`), so `AlarmsStayKnown` is about all other steps and
`AlarmsAreKnown` about behaviours without that crossing. That every kernel signal is
ended is not a theorem: the only step of `do_ksig()` that can fail to is the one that does (`MmCancel`).

### Clock, pipes, locks, printer, memory

`Clock`: the invariant says at each `pc` what `next_alarm`, the alarms and `sched_ticks` may
be when ticks have come in between (`Alarms`, `Quantum`: overdue by no more than the
ticks that found the task at work), whose request the task holds
(`Requests`), that the customer of SYN_ALRM has no alarm while SYN_ALRM is told to
run (`Syn`), and that one of those who share a slot is in it and the ready shadows are queued
once (`Queues`). The refinement is proved as initial states to initial states and each
step to a step of `AlarmClock` or a stutter, under the mapping of `AlarmsServed`.

`Pipe`: `SuspCovers`, `RevivingCounted` and `Sleepers` (whoever hangs, hangs for a
reason that is still there, unless the loop of `get_work()` has yet to reach it) are
kept by every round of `release()`; `Contents` says whose bytes the pipe holds, in which
order, and that writers without O_APPEND stand at the end of the file. All of it is kept until a step sets `adrift`,
and what `pipe()` makes never is: its writers start at the end and stay there.

`Locks`: `TableSound` is inductive; the loop of `lock_op()`, which reads slots that it fills itself, is proved by an
induction over its rounds (`Loop`). `WaitersBlocked` needs that where a
process has two locks on a byte they are of one kind, which is what `Mixed = FALSE` says.

`Printer`: which process the task works for, what the device still owes it an
interrupt for, whose image is pinned and what FS waits for (`TaskState`,
`Interrupts`, `Pins`, `ServerState`, `UserState`). `MaxOpen <= 1`: the printer
daemon is the only one that opens it.

`Holes`: `Sorted(s, T)` says of a list that it is sorted and that only the holes at
the places `T` touch their successors. `Absorb` takes a place out of `T`, so that
`free_mem()`, which puts a block between two holes, leaves none behind after the
two rounds of `merge()`. `Layout` says that the clicks of the holes and of the blocks are
those of the chunks, each once; `ProgsOK`, that every image has an address of its own, so that the
block that `rmshadow()` names is the one that nobody else has. A step that names
another block, or one whose text somebody else uses, is `astray`, and the invariant ends with it. As each hole ends where a chunk
ends or a block begins (`HolesCounted`), there are fewer holes than processes and chunks
together, whatever their order: with `HolesAssumption` a slot is free when `free_mem()` needs one.

The recursive functions by which loops are written are reasoned about by the least
round at which an invariant of the loop would fail (`LoopKeeps`, `Loop`), not by the induction theorems of the library.

### What is only model-checked

* Liveness and fairness, which is out of the prover's reach: `SyncDelivered`,
  `FairShare`, `ShadowsRun` and the fairness of `AlarmsServed` in `Clock`,
  `CascadeEnds` in `Pipe`, `FsReturns` and `WriterAnswered` in `Printer`.
* Tracing in `Mm`.

## 5. Not modelled

Message contents and copying (`cp_mess`, `umap`, `do_copy`): data. Accounting and
times of day. The layout of signal frames. In FS the block cache, inodes, super
blocks, names, mounts and protection: FS serves one call at a time and these are
sequential code on large tables, without the interleavings that are the subject
here. Disk, terminal and serial drivers: device registers and timing; to the
kernel they are tasks that receive interrupts and send, which `KernelIpc`
contains. Network: not enabled in this configuration. Loading of programs, the
argument stack, brk. Boot, other machines, libraries, commands and tests.

Pipes: FIFOs opened for reading and writing at once, several descriptors of one
process for one end, a full filp table. Printer: more than one process that has
it open (see section 3). Locks: several files, which share nothing but the number
of slots. Persistence and crashes are not a subject: nothing modelled here
survives a reboot.

## 6. Plan

1. Tracing in `MmProofs`, for the properties that hold with it (`ParentsAlive`,
   `MaskRestored`).
2. `Signals`, composing `Kernel` and `Mm`: the kernel part of `Mm` implemented by
   `Kernel`, so that what `Kernel` relies on of MM (each signal ended once) and
   what `Mm` relies on of the kernel are discharged against each other.
3. The block cache of FS: LRU chains, `b_count`, dirty blocks before eviction.
