------------------------------- MODULE Printer -------------------------------
(***************************************************************************)
(* The printer task (kernel/stprint.c), its interrupt handler, and the     *)
(* file system that calls it (fs/device.c, fs/pipe.c, fs/misc.c).          *)
(*                                                                         *)
(* FS sends DEV_WRITE and waits for an answer; the answer SUSPEND parks    *)
(* the writer until the printer sends REVIVE.  A signal, or a write that   *)
(* must not block, sends CANCEL after it.  The task has priority over FS:  *)
(* FS runs only while the task is blocked, and interrupts come at any      *)
(* time.  The processes stand for those that open /dev/lp.                 *)
(***************************************************************************)
EXTENDS Integers, FiniteSets

CONSTANTS
  Procs,       \* processes that print
  MaxOpen,     \* how many of them may have the printer open at once
  MaxCount,    \* bound: bytes of one write
  CANCELED     \* the process number that marks a cancelled request

ASSUME PrinterAssumption ==
  /\ IsFiniteSet(Procs)
  /\ MaxOpen \in Nat
  /\ MaxCount \in Nat \ {0}
  /\ CANCELED \notin Procs

VARIABLES
  busy, procno, left,   \* the variables of stprint.c
  physio,      \* processes whose p_physio is set
  pp,          \* where the task is
  msg,         \* the message it works on, or is blocked sending
  int_blocked, \* p_int_blocked of the task
  pbsy, irq,   \* the BUSY line, and an edge of it not yet seen by piaint()
  fs,          \* where FS is
  req,         \* the call that FS works on
  mail,        \* the message that FS got from the task
  open,        \* processes that have the printer open
  waiting,     \* processes that wait for an answer of FS
  hang         \* those of them that are suspended on the printer

device == <<pbsy, irq>>
task   == <<busy, procno, left, physio, pp, msg, int_blocked>>
server == <<fs, req, mail>>
users  == <<open, waiting, hang>>
vars   == <<device, task, server, users>>

Ops  == {"OPEN", "CLOSE", "WRITE", "CANCEL"}
Whys == {"call", "nonblock", "unpause", "exit"}
Calls == [op : Ops, proc : Procs, n : 0..MaxCount, why : Whys]
HardInt == [op |-> "HARD_INT"]
Mails == [code : {"TASK_REPLY", "REVIVE"}, proc : Procs,
          status : {"OK", "ERROR", "EINTR", "SUSPEND", "DONE"}]
NoMsg == [op |-> "none"]

Call(op, p, n, why) == [op |-> op, proc |-> p, n |-> n, why |-> why]
Mail(code, p, status) == [code |-> code, proc |-> p, status |-> status]

Init ==
  /\ busy = FALSE /\ procno = "MM" /\ left = 0
  /\ physio = {}
  /\ pp = "recv" /\ msg = NoMsg /\ int_blocked = FALSE
  /\ pbsy = FALSE /\ irq = FALSE
  /\ fs = "recv" /\ req = NoMsg /\ mail = NoMsg
  /\ open = {} /\ waiting = {} /\ hang = {}

----------------------------------------------------------------------------
(* The printer task.                                                       *)

\* send() to FS: it is delivered if FS waits for it, else the task blocks.
Send(m) ==
  /\ IF fs \in {"recv", "wait"}
     THEN /\ fs' = IF fs = "recv" THEN "mail" ELSE "answer"
          /\ mail' = m
          /\ pp' = "loop" /\ msg' = NoMsg
     ELSE /\ pp' = "send" /\ msg' = m
          /\ UNCHANGED <<fs, mail>>
  /\ UNCHANGED <<req, users>>

\* reply(): p_physio of procno follows busy.  When procno is CANCELED the
\* byte that is written lies outside of the process table.
\* Mutant: it is not set back.
Physio_Sticky(p, b) == IF b THEN (physio \cup {p}) \cap Procs ELSE physio
Physio(p, b) == IF b THEN (physio \cup {p}) \cap Procs ELSE physio \ {p}
reply(p, b, m) ==
  /\ physio' = Physio(p, b)
  /\ Send(m)

\* A request that can start: the printer is idle and on line, and umap()
\* finds the buffer.
Accepts == ~busy /\ ~pbsy

\* do_write(): the variables take the new request before it is looked at.
do_write ==
  /\ msg.op = "WRITE"
  /\ procno' = msg.proc
  /\ left' = msg.n
  /\ \/ /\ Accepts
        /\ busy' = TRUE
        /\ pp' = "entry"
        /\ UNCHANGED <<physio, msg, server, users>>
     \/ /\ UNCHANGED busy
        /\ reply(msg.proc, busy, Mail("TASK_REPLY", msg.proc, "ERROR"))

\* do_done(): the last byte is printed.
do_done ==
  /\ msg.op = "HARD_INT"
  /\ busy' = FALSE
  /\ IF procno = CANCELED
     THEN pp' = "loop" /\ msg' = NoMsg /\ UNCHANGED <<physio, server, users>>
     ELSE reply(procno, FALSE, Mail("REVIVE", procno, "DONE"))
  /\ UNCHANGED <<procno, left>>

\* do_cancel(): an idle printer gives no answer.
do_cancel ==
  /\ msg.op = "CANCEL"
  /\ IF busy
     THEN /\ busy' = FALSE /\ left' = 0 /\ procno' = CANCELED
          /\ reply(procno, FALSE, Mail("TASK_REPLY", msg.proc, "EINTR"))
     ELSE /\ pp' = "loop" /\ msg' = NoMsg
          /\ UNCHANGED <<busy, left, procno, physio, server, users>>

open_close ==
  /\ msg.op \in {"OPEN", "CLOSE"}
  /\ reply(procno, busy, Mail("TASK_REPLY", msg.proc, "OK"))
  /\ UNCHANGED <<busy, procno, left>>

printer_task ==
  /\ pp = "got"
  /\ do_write \/ do_done \/ do_cancel \/ open_close
  /\ UNCHANGED <<int_blocked, device>>

\* receive(ANY) of the task: an interrupt that was blocked comes first, FS
\* cannot be queued here.
TaskReceive ==
  /\ pp = "loop"
  /\ IF int_blocked THEN pp' = "got" /\ msg' = HardInt
                    ELSE pp' = "recv" /\ UNCHANGED msg
  /\ int_blocked' = FALSE
  /\ UNCHANGED <<busy, procno, left, physio, device, server, users>>

\* outc(): the BUSY line goes on, until the printer has taken the character.
outc == pbsy' = TRUE /\ UNCHANGED irq

\* piaint() as do_write() calls it, with interrupts enabled: its entry, the
\* test of the loop, left--, outc(), and the test of the BUSY line
TaskEntry ==
  /\ pp = "entry"
  /\ pp' = IF pbsy THEN "suspend" ELSE "test"
  /\ UNCHANGED <<left, physio, msg, int_blocked, device, server, users>>

TaskTest ==
  /\ pp = "test"
  /\ pp' = IF left > 0 THEN "put" ELSE "suspend"
  /\ int_blocked' = (int_blocked \/ left <= 0)
  /\ UNCHANGED <<left, physio, msg, device, server, users>>

TaskPut ==
  /\ pp = "put"
  /\ left' = left - 1
  /\ pp' = "outc"
  /\ UNCHANGED <<physio, msg, int_blocked, device, server, users>>

TaskOut ==
  /\ pp = "outc"
  /\ outc
  /\ pp' = "line"
  /\ UNCHANGED <<left, physio, msg, int_blocked, server, users>>

TaskLine ==
  /\ pp = "line"
  /\ pp' = IF pbsy THEN "suspend" ELSE "test"
  /\ UNCHANGED <<left, physio, msg, int_blocked, device, server, users>>

\* the end of do_write()
TaskSuspend ==
  /\ pp = "suspend"
  /\ reply(procno, busy, Mail("TASK_REPLY", procno, "SUSPEND"))
  /\ UNCHANGED <<left, int_blocked, device>>

TaskPrints ==
  /\ TaskEntry \/ TaskTest \/ TaskPut \/ TaskOut \/ TaskLine \/ TaskSuspend
  /\ UNCHANGED <<busy, procno>>

----------------------------------------------------------------------------
(* The device.                                                             *)

\* The printer has taken a character.
Ready ==
  /\ pbsy
  /\ pbsy' = FALSE
  /\ irq' = TRUE
  /\ UNCHANGED <<task, server, users>>

\* interrupt(PRINTER)
\* Mutant: an interrupt is lost when the task does not wait for it.
interrupt_Lost ==
  IF pp = "recv"
  THEN pp' = "got" /\ msg' = HardInt /\ UNCHANGED int_blocked
  ELSE UNCHANGED <<pp, msg, int_blocked>>

interrupt ==
  IF pp = "recv"
  THEN pp' = "got" /\ msg' = HardInt /\ UNCHANGED int_blocked
  ELSE int_blocked' = TRUE /\ UNCHANGED <<pp, msg>>

\* piaint() stops here: a spurious interrupt, or the printer is still busy.
\* Mutant: an idle printer takes the interrupt for its own.
Ignored_Line == pbsy
Ignored == ~busy \/ pbsy

\* piaint() as the interrupt handler: it prints until the line goes busy.
piaint ==
  /\ irq
  /\ \/ /\ Ignored
        /\ irq' = FALSE
        /\ UNCHANGED <<pbsy, task>>
     \/ /\ ~Ignored
        /\ \E k \in 1..left :
             /\ left' = left - k
             /\ pbsy' = TRUE
             /\ irq' = (k > 1)
        /\ UNCHANGED <<pp, msg, int_blocked, busy, procno, physio>>
     \/ /\ ~Ignored
        /\ left' = IF left > 0 THEN 0 ELSE left
        /\ irq' = (left > 0)
        /\ interrupt
        /\ UNCHANGED <<pbsy, busy, procno, physio>>
  /\ UNCHANGED <<server, users>>

----------------------------------------------------------------------------
(* The file system.                                                        *)

\* FS gets the processor when the task is blocked.
FsRuns == pp \in {"recv", "send"}

\* revive()
revive(p) ==
  /\ hang' = hang \ {p}
  /\ waiting' = IF p \in hang THEN waiting \ {p} ELSE waiting
  /\ UNCHANGED open

\* A request of a process, or UNPAUSE or EXIT of MM: exit cancels first.
Requests ==
  {Call("WRITE", p, n, w) : p \in open \ waiting, n \in 1..MaxCount, w \in {"call", "nonblock"}}
  \cup {Call("OPEN", p, 0, "call") : p \in Procs \ (open \cup waiting)}
  \cup {Call("CLOSE", p, 0, "call") : p \in open \ waiting}
  \cup {Call("CANCEL", p, 0, w) : p \in hang, w \in {"unpause", "exit"}}

get_work ==
  /\ fs = "recv"
  /\ \E r \in Requests :
       /\ r.op = "OPEN" => Cardinality(open) < MaxOpen
       /\ req' = r
       /\ waiting' = waiting \cup {r.proc}
  /\ fs' = "call"
  /\ UNCHANGED <<mail, open, hang, device, task>>

\* receive(): a task that was blocked sending can go on
TakeMail == pp' = "loop" /\ msg' = NoMsg

FsReceives ==
  /\ fs = "recv" /\ pp = "send"
  /\ TakeMail
  /\ fs' = "mail" /\ mail' = msg
  /\ UNCHANGED <<req, users, device, busy, procno, left, physio, int_blocked>>

do_revive ==
  /\ fs = "mail"
  /\ revive(mail.proc)
  /\ fs' = "recv" /\ mail' = NoMsg
  /\ UNCHANGED <<req, device, task>>

\* The call of req is over with this status: dev_io(), do_unpause(), do_exit()
Idle == fs' = "recv" /\ req' = NoMsg
Answered(p) == waiting' = waiting \ {p}
Return(status) ==
  LET p == req.proc
  IN  \/ /\ req.op = "OPEN"
         /\ Idle /\ Answered(p) /\ open' = open \cup {p} /\ UNCHANGED hang
      \/ /\ req.op = "CLOSE"
         /\ Idle /\ Answered(p) /\ open' = open \ {p} /\ UNCHANGED hang
      \/ /\ req.op = "WRITE" /\ status # "SUSPEND"
         /\ Idle /\ Answered(p) /\ UNCHANGED <<open, hang>>
      \/ /\ req.op = "WRITE" /\ status = "SUSPEND" /\ req.why = "call"
         /\ Idle /\ hang' = hang \cup {p} /\ UNCHANGED <<open, waiting>>
      \/ /\ req.op = "WRITE" /\ status = "SUSPEND" /\ req.why = "nonblock"
         /\ fs' = "call" /\ req' = Call("CANCEL", p, 0, "nonblock")
         /\ UNCHANGED users
      \/ /\ req.op = "CANCEL" /\ req.why # "exit"
         /\ Idle /\ Answered(p) /\ hang' = hang \ {p} /\ UNCHANGED open
      \/ /\ req.op = "CANCEL" /\ req.why = "exit"
         /\ fs' = "call" /\ req' = Call("CLOSE", p, 0, "call")
         /\ hang' = hang \ {p} /\ UNCHANGED <<open, waiting>>

\* A completion that crosses the CANCEL for the same process ends the CANCEL.
\* Mutant: the completion is only noted, and CANCEL is sent again.
Crossed_Never == FALSE
Crossed == req.op = "CANCEL" /\ msg.proc = req.proc

\* call_task(), its first loop: sendrec(), which fails with ELOCKED while the
\* task is blocked sending to FS
call_task ==
  /\ fs = "call"
  /\ \/ /\ pp = "recv"
        /\ pp' = "got" /\ msg' = req
        /\ fs' = "wait"
        /\ UNCHANGED <<req, users>>
     \/ /\ pp = "send" /\ Crossed
        /\ TakeMail
        /\ Return("EINTR")
     \/ /\ pp = "send" /\ ~Crossed
        /\ TakeMail
        /\ revive(msg.proc)
        /\ UNCHANGED <<fs, req>>
  /\ UNCHANGED <<mail, device, busy, procno, left, physio, int_blocked>>

\* call_task(), its second loop: is the message the answer?
Answer ==
  /\ fs = "answer"
  /\ IF mail.proc = req.proc
     THEN Return(mail.status)
     ELSE revive(mail.proc) /\ fs' = "wait" /\ UNCHANGED req
  /\ mail' = NoMsg
  /\ UNCHANGED <<device, task>>

FsStep == FsRuns /\ (FsReceives \/ do_revive \/ call_task \/ Answer)

Next ==
  \/ printer_task \/ TaskReceive \/ TaskPrints
  \/ Ready \/ piaint
  \/ FsStep
  \/ FsRuns /\ get_work

\* The task and FS run when they are ready, the printer takes every character
\* in the end, and interrupts are served.
Fairness ==
  /\ WF_vars(printer_task \/ TaskReceive \/ TaskPrints)
  /\ WF_vars(Ready)
  /\ WF_vars(piaint)
  /\ SF_vars(FsStep)

Spec == Init /\ [][Next]_vars /\ Fairness

----------------------------------------------------------------------------
(* Properties.                                                             *)

\* Type invariant.  left may be -1: see TaskPut.
TypeOK ==
  /\ busy \in BOOLEAN
  /\ procno \in Procs \cup {CANCELED, "MM"}
  /\ left \in -1..MaxCount
  /\ physio \subseteq Procs
  /\ pp \in {"recv", "got", "entry", "test", "put", "outc", "line", "suspend", "send", "loop"}
  /\ msg \in Calls \cup Mails \cup {HardInt, NoMsg}
  /\ int_blocked \in BOOLEAN
  /\ pbsy \in BOOLEAN /\ irq \in BOOLEAN
  /\ fs \in {"recv", "mail", "call", "wait", "answer"}
  /\ req \in Calls \cup {NoMsg}
  /\ mail \in Mails \cup {NoMsg}
  /\ open \subseteq Procs /\ hang \subseteq waiting /\ waiting \subseteq Procs

\* The image of a process is kept in place (p_physio) exactly while the
\* printer takes bytes from it: from when the writer is suspended to the end
\* of its job, through cancels, late interrupts and second completions.
PinnedWhilePrinting ==
  pp \in {"recv", "loop", "send"} => physio = (IF busy THEN {procno} ELSE {})

\* The tables of the task and of FS fit, and the writer's image stays in place.
PrinterSound == TypeOK /\ PinnedWhilePrinting

\* No job is reported as done before its last byte is printed: an interrupt
\* that is served never belongs to an earlier, cancelled job (do_done).
NoEarlyDone ==
  pp = "got" /\ msg = HardInt /\ busy => left <= 0

\* FS comes back from every call to the printer, also from a CANCEL that
\* crosses the completion ("this test avoids race conditions", do_cancel).
FsReturns == fs = "wait" ~> fs # "wait"

\* Every process that calls FS to print, open or close gets an answer.
WriterAnswered == \A p \in Procs : p \in waiting ~> p \notin waiting

=============================================================================
