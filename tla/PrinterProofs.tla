---------------------------- MODULE PrinterProofs ----------------------------
(***************************************************************************)
(* The theorems about Printer, for one process at a time that has the      *)
(* printer open.                                                           *)
(***************************************************************************)
EXTENDS Printer, FiniteSetTheorems, TLAPS

\* What the task has in hand: a message only while it works on it, and the
\* call of FS from when FS sent it to when it is answered.
AtWork == {"entry", "test", "put", "outc", "line", "suspend"}
TaskState ==
  /\ pp \in {"recv", "loop"} => msg = NoMsg
  /\ pp = "recv" => ~int_blocked
  /\ pp = "got" => msg = HardInt \/ (fs = "wait" /\ msg = req)
  /\ pp = "got" /\ msg = req => (req.op = "CANCEL" <=> busy)
  /\ pp = "got" /\ msg = req /\ ~busy => ~int_blocked
  /\ pp \in AtWork => busy /\ fs = "wait" /\ msg = req /\ req.op = "WRITE" /\ procno = req.proc
  /\ pp = "send" => ~busy /\ procno \in Procs /\ msg = Mail("REVIVE", procno, "DONE")
  /\ fs = "wait" => pp \in AtWork \/ (pp = "got" /\ msg = req)

\* An interrupt that is under way belongs to a job without a byte left.
Interrupts ==
  /\ int_blocked /\ busy => left <= 0
  /\ pp = "got" /\ msg = HardInt /\ busy => left <= 0
  /\ int_blocked \/ (pp = "got" /\ msg = HardInt) => procno \in Procs \cup {CANCELED}
  /\ pp = "put" => left >= 0

\* The image of the writer is pinned from its suspension to the end of its job.
Pins == physio = IF busy /\ pp \notin AtWork THEN {procno} ELSE {}

\* The call that FS works on.
ServerState ==
  /\ fs \in {"recv", "mail"} => req = NoMsg
  /\ fs \in {"call", "wait", "answer"} => req \in Calls /\ req.proc \in waiting
  /\ fs = "mail" => ~busy /\ procno \in Procs /\ mail = Mail("REVIVE", procno, "DONE")
  /\ fs = "answer" => mail \in Mails /\ mail.proc = req.proc
  /\ fs = "answer" /\ busy =>
       req.op = "WRITE" /\ mail.status = "SUSPEND"
  /\ fs = "answer" /\ req.op = "WRITE" /\ mail.status = "SUSPEND" =>
       procno = req.proc /\ (busy \/ pp = "send")
  /\ fs = "call" /\ req.op = "CANCEL" => procno = req.proc /\ (busy \/ pp = "send")
  /\ fs = "call" /\ busy => req.op = "CANCEL"
  /\ fs = "wait" /\ req.op = "CANCEL" => procno = req.proc

\* Who has the printer open, and who is suspended on it.
UserState ==
  /\ \A p, q \in open : p = q
  /\ fs \in {"call", "wait", "answer"} =>
       IF req.op = "OPEN" THEN open = {} ELSE req.proc \in open
  /\ fs \in {"call", "wait", "answer"} /\ req.op # "CANCEL" => hang = {}
  /\ hang \subseteq open
  /\ busy => procno \in open
  /\ ~(fs = "answer" /\ req.op = "CANCEL") => hang \subseteq {procno}
  /\ fs = "recv" /\ hang # {} => busy \/ pp = "send"
  /\ fs = "recv" /\ busy => hang # {}

\* The inductive invariant.
IInv == TypeOK /\ TaskState /\ Interrupts /\ Pins /\ ServerState /\ UserState

-----------------------------------------------------------------------------
(* Messages. *)

\* A message of the task to FS.
LEMMA MailIn ==
  ASSUME NEW code \in {"TASK_REPLY", "REVIVE"}, NEW p \in Procs,
         NEW status \in {"OK", "ERROR", "EINTR", "SUSPEND", "DONE"}
  PROVE  /\ Mail(code, p, status) \in Mails
         /\ Mail(code, p, status).proc = p /\ Mail(code, p, status).status = status
BY DEF Mail, Mails

\* A call of FS.
LEMMA CallIn ==
  ASSUME NEW op \in Ops, NEW p \in Procs, NEW n \in 0..MaxCount, NEW w \in Whys
  PROVE  LET c == Call(op, p, n, w)
         IN  c \in Calls /\ c.op = op /\ c.proc = p /\ c.n = n /\ c.why = w
BY DEF Call, Calls

\* What a call holds; it is not taken for an interrupt.
LEMMA CallFields ==
  ASSUME NEW c \in Calls
  PROVE  c.op \in Ops /\ c.proc \in Procs /\ c.n \in 0..MaxCount /\ c # HardInt
         /\ c # NoMsg
BY DEF Calls, HardInt, NoMsg, Ops

\* The message that printer_task() looks at is an interrupt, or the call that FS
\* waits in.
LEMMA Got ==
  ASSUME IInv, pp = "got"
  PROVE  \/ msg = HardInt /\ msg.op = "HARD_INT"
         \/ /\ msg = req /\ fs = "wait" /\ msg \in Calls /\ msg # HardInt
            /\ msg.op \in Ops /\ msg.proc \in Procs /\ msg.n \in 0..MaxCount
BY CallFields DEF IInv, TaskState, ServerState, HardInt

-----------------------------------------------------------------------------
(* Every step keeps the invariant. *)

\* do_write()
LEMMA WriteInv ==
  ASSUME IInv, pp = "got", do_write, UNCHANGED <<int_blocked, device>>
  PROVE  IInv'
<1> USE PrinterAssumption, Got, MailIn DEF IInv, TypeOK, TaskState, Interrupts, Pins, ServerState, UserState,
        AtWork
<1>0. msg = req /\ fs = "wait" /\ msg \in Calls /\ msg.proc \in Procs /\ msg.n \in 0..MaxCount /\ ~busy
  BY DEF do_write, TaskState
<1> USE <1>0
<1>1. TypeOK'
  <2>1. busy' \in BOOLEAN /\ procno' \in Procs \cup {CANCELED, "MM"} 
    BY DEF do_write, Accepts, reply, Physio, Send, device, server, users
  <2>2. left' \in -1..MaxCount
    BY DEF do_write, Accepts, reply, Physio, Send, device, server, users
  <2>3. physio' \subseteq Procs
    BY DEF do_write, Accepts, reply, Physio, Send, device, server, users
  <2>4. pp' \in {"recv", "got", "entry", "test", "put", "outc", "line", "suspend", "send", "loop"}
    BY DEF do_write, Accepts, reply, Physio, Send, device, server, users
  <2>5. msg' \in Calls \cup Mails \cup {HardInt, NoMsg}
    BY DEF do_write, Accepts, reply, Physio, Send, device, server, users
  <2>6. int_blocked' \in BOOLEAN /\ pbsy' \in BOOLEAN /\ irq' \in BOOLEAN
    BY DEF do_write, Accepts, reply, Physio, Send, device, server, users
  <2>7. fs' \in {"recv", "mail", "call", "wait", "answer"}
    BY DEF do_write, Accepts, reply, Physio, Send, device, server, users
  <2>8. req' \in Calls \cup {NoMsg}
    BY DEF do_write, Accepts, reply, Physio, Send, device, server, users
  <2>9. mail' \in Mails \cup {NoMsg}
    BY DEF do_write, Accepts, reply, Physio, Send, device, server, users
  <2>10. open' \subseteq Procs /\ hang' \subseteq waiting' /\ waiting' \subseteq Procs
    BY DEF do_write, Accepts, reply, Physio, Send, device, server, users
  <2> QED BY <2>1, <2>2, <2>3, <2>4, <2>5, <2>6, <2>7, <2>8, <2>9, <2>10 DEF TypeOK
<1>2. TaskState'
  BY DEF do_write, Accepts, reply, Physio, Send, device, server, users
<1>3. Interrupts'
  BY DEF do_write, Accepts, reply, Physio, Send, device, server, users
<1>4. Pins'
  BY DEF do_write, Accepts, reply, Physio, Send, device, server, users
<1>5. ServerState'
  BY DEF do_write, Accepts, reply, Physio, Send, device, server, users
<1>6. UserState'
  BY DEF do_write, Accepts, reply, Physio, Send, device, server, users
<1> QED BY <1>1, <1>2, <1>3, <1>4, <1>5, <1>6

\* do_done()
LEMMA DoneInv ==
  ASSUME IInv, pp = "got", do_done, UNCHANGED <<int_blocked, device>>
  PROVE  IInv'
<1> USE PrinterAssumption, Got, MailIn DEF IInv, TypeOK, TaskState, Interrupts, Pins, ServerState, UserState,
        AtWork
<1>01. msg = HardInt
  BY DEF do_done, Ops
<1>0. msg = HardInt /\ procno \in Procs \cup {CANCELED} /\ fs # "wait"
  BY <1>01, CallFields DEF Interrupts, TaskState, ServerState
<1> USE <1>0
<1>1. TypeOK'
  <2>1. busy' \in BOOLEAN /\ procno' \in Procs \cup {CANCELED, "MM"} 
    BY DEF do_done, reply, Physio, Send, device, server, users
  <2>2. left' \in -1..MaxCount
    BY DEF do_done, reply, Physio, Send, device, server, users
  <2>3. physio' \subseteq Procs
    BY DEF do_done, reply, Physio, Send, device, server, users
  <2>4. pp' \in {"recv", "got", "entry", "test", "put", "outc", "line", "suspend", "send", "loop"}
    BY DEF do_done, reply, Physio, Send, device, server, users
  <2>5. msg' \in Calls \cup Mails \cup {HardInt, NoMsg}
    BY DEF do_done, reply, Physio, Send, device, server, users
  <2>6. int_blocked' \in BOOLEAN /\ pbsy' \in BOOLEAN /\ irq' \in BOOLEAN
    BY DEF do_done, reply, Physio, Send, device, server, users
  <2>7. fs' \in {"recv", "mail", "call", "wait", "answer"}
    BY DEF do_done, reply, Physio, Send, device, server, users
  <2>8. req' \in Calls \cup {NoMsg}
    BY DEF do_done, reply, Physio, Send, device, server, users
  <2>9. mail' \in Mails \cup {NoMsg}
    BY DEF do_done, reply, Physio, Send, device, server, users
  <2>10. open' \subseteq Procs /\ hang' \subseteq waiting' /\ waiting' \subseteq Procs
    BY DEF do_done, reply, Physio, Send, device, server, users
  <2> QED BY <2>1, <2>2, <2>3, <2>4, <2>5, <2>6, <2>7, <2>8, <2>9, <2>10 DEF TypeOK
<1>2. TaskState'
  BY DEF do_done, reply, Physio, Send, device, server, users
<1>3. Interrupts'
  BY DEF do_done, reply, Physio, Send, device, server, users
<1>4. Pins'
  BY DEF do_done, reply, Physio, Send, device, server, users
<1>5. ServerState'
  BY DEF do_done, reply, Physio, Send, device, server, users
<1>6. UserState'
  BY DEF do_done, reply, Physio, Send, device, server, users
<1> QED BY <1>1, <1>2, <1>3, <1>4, <1>5, <1>6

\* do_cancel()
LEMMA CancelInv ==
  ASSUME IInv, pp = "got", do_cancel, UNCHANGED <<int_blocked, device>>
  PROVE  IInv'
<1> USE PrinterAssumption, Got, MailIn DEF IInv, TypeOK, TaskState, Interrupts, Pins, ServerState, UserState,
        AtWork
<1>0. msg = req /\ fs = "wait" /\ msg \in Calls /\ msg.proc \in Procs /\ busy
  BY DEF do_cancel, TaskState
<1> USE <1>0
<1>1. TypeOK'
  <2>1. busy' \in BOOLEAN /\ procno' \in Procs \cup {CANCELED, "MM"} 
    BY DEF do_cancel, reply, Physio, Send, device, server, users
  <2>2. left' \in -1..MaxCount
    BY DEF do_cancel, reply, Physio, Send, device, server, users
  <2>3. physio' \subseteq Procs
    BY DEF do_cancel, reply, Physio, Send, device, server, users
  <2>4. pp' \in {"recv", "got", "entry", "test", "put", "outc", "line", "suspend", "send", "loop"}
    BY DEF do_cancel, reply, Physio, Send, device, server, users
  <2>5. msg' \in Calls \cup Mails \cup {HardInt, NoMsg}
    BY DEF do_cancel, reply, Physio, Send, device, server, users
  <2>6. int_blocked' \in BOOLEAN /\ pbsy' \in BOOLEAN /\ irq' \in BOOLEAN
    BY DEF do_cancel, reply, Physio, Send, device, server, users
  <2>7. fs' \in {"recv", "mail", "call", "wait", "answer"}
    BY DEF do_cancel, reply, Physio, Send, device, server, users
  <2>8. req' \in Calls \cup {NoMsg}
    BY DEF do_cancel, reply, Physio, Send, device, server, users
  <2>9. mail' \in Mails \cup {NoMsg}
    BY DEF do_cancel, reply, Physio, Send, device, server, users
  <2>10. open' \subseteq Procs /\ hang' \subseteq waiting' /\ waiting' \subseteq Procs
    BY DEF do_cancel, reply, Physio, Send, device, server, users
  <2> QED BY <2>1, <2>2, <2>3, <2>4, <2>5, <2>6, <2>7, <2>8, <2>9, <2>10 DEF TypeOK
<1>2. TaskState'
  BY DEF do_cancel, reply, Physio, Send, device, server, users
<1>3. Interrupts'
  BY DEF do_cancel, reply, Physio, Send, device, server, users
<1>4. Pins'
  BY DEF do_cancel, reply, Physio, Send, device, server, users
<1>5. ServerState'
  BY DEF do_cancel, reply, Physio, Send, device, server, users
<1>6. UserState'
  BY DEF do_cancel, reply, Physio, Send, device, server, users
<1> QED BY <1>1, <1>2, <1>3, <1>4, <1>5, <1>6

\* OPEN and CLOSE
LEMMA OpenCloseInv ==
  ASSUME IInv, pp = "got", open_close, UNCHANGED <<int_blocked, device>>
  PROVE  IInv'
<1> USE PrinterAssumption, Got, MailIn DEF IInv, TypeOK, TaskState, Interrupts, Pins, ServerState, UserState,
        AtWork
<1>0. msg = req /\ fs = "wait" /\ msg \in Calls /\ msg.proc \in Procs /\ ~busy
  BY DEF open_close, TaskState
<1> USE <1>0
<1>1. TypeOK'
  <2>1. busy' \in BOOLEAN /\ procno' \in Procs \cup {CANCELED, "MM"} 
    BY DEF open_close, reply, Physio, Send, device, server, users
  <2>2. left' \in -1..MaxCount
    BY DEF open_close, reply, Physio, Send, device, server, users
  <2>3. physio' \subseteq Procs
    BY DEF open_close, reply, Physio, Send, device, server, users
  <2>4. pp' \in {"recv", "got", "entry", "test", "put", "outc", "line", "suspend", "send", "loop"}
    BY DEF open_close, reply, Physio, Send, device, server, users
  <2>5. msg' \in Calls \cup Mails \cup {HardInt, NoMsg}
    BY DEF open_close, reply, Physio, Send, device, server, users
  <2>6. int_blocked' \in BOOLEAN /\ pbsy' \in BOOLEAN /\ irq' \in BOOLEAN
    BY DEF open_close, reply, Physio, Send, device, server, users
  <2>7. fs' \in {"recv", "mail", "call", "wait", "answer"}
    BY DEF open_close, reply, Physio, Send, device, server, users
  <2>8. req' \in Calls \cup {NoMsg}
    BY DEF open_close, reply, Physio, Send, device, server, users
  <2>9. mail' \in Mails \cup {NoMsg}
    BY DEF open_close, reply, Physio, Send, device, server, users
  <2>10. open' \subseteq Procs /\ hang' \subseteq waiting' /\ waiting' \subseteq Procs
    BY DEF open_close, reply, Physio, Send, device, server, users
  <2> QED BY <2>1, <2>2, <2>3, <2>4, <2>5, <2>6, <2>7, <2>8, <2>9, <2>10 DEF TypeOK
<1>2. TaskState'
  BY DEF open_close, reply, Physio, Send, device, server, users
<1>3. Interrupts'
  BY DEF open_close, reply, Physio, Send, device, server, users
<1>4. Pins'
  BY DEF open_close, reply, Physio, Send, device, server, users
<1>5. ServerState'
  BY DEF open_close, reply, Physio, Send, device, server, users
<1>6. UserState'
  BY DEF open_close, reply, Physio, Send, device, server, users
<1> QED BY <1>1, <1>2, <1>3, <1>4, <1>5, <1>6

\* receive()
LEMMA ReceiveInv ==
  ASSUME IInv, TaskReceive
  PROVE  IInv'
<1> USE PrinterAssumption DEF IInv, TypeOK, TaskState, Interrupts, Pins, ServerState, UserState,
        AtWork
<1>1. TypeOK'
  BY DEF HardInt, NoMsg, TaskReceive, device, server, users
<1>2. TaskState'
  BY DEF HardInt, NoMsg, TaskReceive, device, server, users
<1>3. Interrupts'
  BY DEF HardInt, NoMsg, TaskReceive, device, server, users
<1>4. Pins'
  BY DEF HardInt, NoMsg, TaskReceive, device, server, users
<1>5. ServerState'
  BY DEF HardInt, NoMsg, TaskReceive, device, server, users
<1>6. UserState'
  BY DEF HardInt, NoMsg, TaskReceive, device, server, users
<1> QED BY <1>1, <1>2, <1>3, <1>4, <1>5, <1>6

\* The entry of piaint()
LEMMA EntryInv ==
  ASSUME IInv, TaskEntry, UNCHANGED <<busy, procno>>
  PROVE  IInv'
<1> USE PrinterAssumption DEF IInv, TypeOK, TaskState, Interrupts, Pins, ServerState, UserState,
        AtWork
<1>1. TypeOK'
  BY DEF TaskEntry, device, server, users
<1>2. TaskState'
  BY DEF TaskEntry, device, server, users
<1>3. Interrupts'
  BY DEF TaskEntry, device, server, users
<1>4. Pins'
  BY DEF TaskEntry, device, server, users
<1>5. ServerState'
  BY DEF TaskEntry, device, server, users
<1>6. UserState'
  BY DEF TaskEntry, device, server, users
<1> QED BY <1>1, <1>2, <1>3, <1>4, <1>5, <1>6

\* The test of its loop
LEMMA TestInv ==
  ASSUME IInv, TaskTest, UNCHANGED <<busy, procno>>
  PROVE  IInv'
<1> USE PrinterAssumption DEF IInv, TypeOK, TaskState, Interrupts, Pins, ServerState, UserState,
        AtWork
<1>1. TypeOK'
  BY DEF TaskTest, device, server, users
<1>2. TaskState'
  BY DEF TaskTest, device, server, users
<1>3. Interrupts'
  BY DEF TaskTest, device, server, users
<1>4. Pins'
  BY DEF TaskTest, device, server, users
<1>5. ServerState'
  BY DEF TaskTest, device, server, users
<1>6. UserState'
  BY DEF TaskTest, device, server, users
<1> QED BY <1>1, <1>2, <1>3, <1>4, <1>5, <1>6

\* The body of its loop: left--
LEMMA PutInv ==
  ASSUME IInv, TaskPut, UNCHANGED <<busy, procno>>
  PROVE  IInv'
<1> USE PrinterAssumption DEF IInv, TypeOK, TaskState, Interrupts, Pins, ServerState, UserState,
        AtWork
<1>1. TypeOK'
  <2>1. left' \in -1..MaxCount BY DEF TaskPut
  <2>2. pp' = "outc" BY DEF TaskPut
  <2> QED BY <2>1, <2>2 DEF TaskPut, device, server, users
<1>2. TaskState'
  BY DEF TaskPut, device, server, users
<1>3. Interrupts'
  BY DEF TaskPut, device, server, users
<1>4. Pins'
  BY DEF TaskPut, device, server, users
<1>5. ServerState'
  BY DEF TaskPut, device, server, users
<1>6. UserState'
  BY DEF TaskPut, device, server, users
<1> QED BY <1>1, <1>2, <1>3, <1>4, <1>5, <1>6

\* outc()
LEMMA OutInv ==
  ASSUME IInv, TaskOut, UNCHANGED <<busy, procno>>
  PROVE  IInv'
<1> USE PrinterAssumption DEF IInv, TypeOK, TaskState, Interrupts, Pins, ServerState, UserState,
        AtWork
<1>1. TypeOK'
  BY DEF TaskOut, outc, device, server, users
<1>2. TaskState'
  BY DEF TaskOut, outc, device, server, users
<1>3. Interrupts'
  BY DEF TaskOut, outc, device, server, users
<1>4. Pins'
  BY DEF TaskOut, outc, device, server, users
<1>5. ServerState'
  BY DEF TaskOut, outc, device, server, users
<1>6. UserState'
  BY DEF TaskOut, outc, device, server, users
<1> QED BY <1>1, <1>2, <1>3, <1>4, <1>5, <1>6

\* The test of the BUSY line
LEMMA LineInv ==
  ASSUME IInv, TaskLine, UNCHANGED <<busy, procno>>
  PROVE  IInv'
<1> USE PrinterAssumption DEF IInv, TypeOK, TaskState, Interrupts, Pins, ServerState, UserState,
        AtWork
<1>1. TypeOK'
  BY DEF TaskLine, device, server, users
<1>2. TaskState'
  BY DEF TaskLine, device, server, users
<1>3. Interrupts'
  BY DEF TaskLine, device, server, users
<1>4. Pins'
  BY DEF TaskLine, device, server, users
<1>5. ServerState'
  BY DEF TaskLine, device, server, users
<1>6. UserState'
  BY DEF TaskLine, device, server, users
<1> QED BY <1>1, <1>2, <1>3, <1>4, <1>5, <1>6

\* The end of do_write()
LEMMA SuspendInv ==
  ASSUME IInv, TaskSuspend, UNCHANGED <<busy, procno>>
  PROVE  IInv'
<1> USE PrinterAssumption, CallFields, MailIn DEF IInv, TypeOK, TaskState, Interrupts, Pins, ServerState, UserState,
        AtWork
<1>1. TypeOK'
  BY DEF TaskSuspend, reply, Physio, Send, device, server, users
<1>2. TaskState'
  BY DEF TaskSuspend, reply, Physio, Send, device, server, users
<1>3. Interrupts'
  BY DEF TaskSuspend, reply, Physio, Send, device, server, users
<1>4. Pins'
  BY DEF TaskSuspend, reply, Physio, Send, device, server, users
<1>5. ServerState'
  BY DEF TaskSuspend, reply, Physio, Send, device, server, users
<1>6. UserState'
  BY DEF TaskSuspend, reply, Physio, Send, device, server, users
<1> QED BY <1>1, <1>2, <1>3, <1>4, <1>5, <1>6

\* The printer takes a character.
LEMMA ReadyInv ==
  ASSUME IInv, Ready
  PROVE  IInv'
<1> USE PrinterAssumption DEF IInv, TypeOK, TaskState, Interrupts, Pins, ServerState, UserState,
        AtWork
<1>1. TypeOK'
  BY DEF Ready, task, server, users
<1>2. TaskState'
  BY DEF Ready, task, server, users
<1>3. Interrupts'
  BY DEF Ready, task, server, users
<1>4. Pins'
  BY DEF Ready, task, server, users
<1>5. ServerState'
  BY DEF Ready, task, server, users
<1>6. UserState'
  BY DEF Ready, task, server, users
<1> QED BY <1>1, <1>2, <1>3, <1>4, <1>5, <1>6

\* piaint() as the interrupt handler
LEMMA PiaintInv ==
  ASSUME IInv, piaint
  PROVE  IInv'
<1> USE PrinterAssumption DEF IInv, TypeOK, TaskState, Interrupts, Pins, ServerState, UserState,
        AtWork
<1>1. TypeOK'
  <2>1. busy' \in BOOLEAN /\ procno' \in Procs \cup {CANCELED, "MM"} 
    BY DEF HardInt, NoMsg, piaint, Ignored, interrupt, task, server, users
  <2>2. left' \in -1..MaxCount
    BY DEF HardInt, NoMsg, piaint, Ignored, interrupt, task, server, users
  <2>3. physio' \subseteq Procs
    BY DEF HardInt, NoMsg, piaint, Ignored, interrupt, task, server, users
  <2>4. pp' \in {"recv", "got", "entry", "test", "put", "outc", "line", "suspend", "send", "loop"}
    BY DEF HardInt, NoMsg, piaint, Ignored, interrupt, task, server, users
  <2>5. msg' \in Calls \cup Mails \cup {HardInt, NoMsg}
    BY DEF HardInt, NoMsg, piaint, Ignored, interrupt, task, server, users
  <2>6. int_blocked' \in BOOLEAN /\ pbsy' \in BOOLEAN
    BY DEF piaint, interrupt, task
  <2>11. irq' \in BOOLEAN
    <3>1. ASSUME NEW n \in Int PROVE (n > 1) \in BOOLEAN /\ (n > 0) \in BOOLEAN OBVIOUS
    <3>2. irq' = FALSE \/ (\E n \in Int : irq' = (n > 1)) \/ irq' = (left > 0)
      BY DEF piaint
    <3>3. ASSUME NEW n \in Int, irq' = (n > 1) PROVE irq' \in BOOLEAN BY <3>1, <3>3, Zenon
    <3>4. CASE irq' = (left > 0)
      <4>1. left \in Int OBVIOUS
      <4> QED BY <3>1, <3>4, <4>1, Zenon
    <3> QED BY <3>2, <3>3, <3>4
  <2>7. fs' \in {"recv", "mail", "call", "wait", "answer"}
    BY DEF HardInt, NoMsg, piaint, Ignored, interrupt, task, server, users
  <2>8. req' \in Calls \cup {NoMsg}
    BY DEF HardInt, NoMsg, piaint, Ignored, interrupt, task, server, users
  <2>9. mail' \in Mails \cup {NoMsg}
    BY DEF HardInt, NoMsg, piaint, Ignored, interrupt, task, server, users
  <2>10. open' \subseteq Procs /\ hang' \subseteq waiting' /\ waiting' \subseteq Procs
    BY DEF HardInt, NoMsg, piaint, Ignored, interrupt, task, server, users
  <2> QED BY <2>1, <2>2, <2>3, <2>4, <2>5, <2>6, <2>7, <2>8, <2>9, <2>10, <2>11 DEF TypeOK
<1>2. TaskState'
  BY DEF HardInt, NoMsg, piaint, Ignored, interrupt, task, server, users
<1>3. Interrupts'
  BY DEF HardInt, NoMsg, piaint, Ignored, interrupt, task, server, users
<1>4. Pins'
  BY DEF HardInt, NoMsg, piaint, Ignored, interrupt, task, server, users
<1>5. ServerState'
  BY DEF HardInt, NoMsg, piaint, Ignored, interrupt, task, server, users
<1>6. UserState'
  BY DEF HardInt, NoMsg, piaint, Ignored, interrupt, task, server, users
<1> QED BY <1>1, <1>2, <1>3, <1>4, <1>5, <1>6

\* A new call; one process at most has the printer open.
LEMMA GetWorkInv ==
  ASSUME IInv, MaxOpen <= 1, FsRuns, get_work
  PROVE  IInv'
<1> USE PrinterAssumption DEF IInv, TypeOK, TaskState, Interrupts, Pins, ServerState, UserState,
        AtWork
<1>0. PICK r \in Requests : /\ r.op = "OPEN" => Cardinality(open) < MaxOpen
                           /\ req' = r /\ waiting' = waiting \cup {r.proc}
  BY DEF get_work
<1>1. r \in Calls /\ r.proc \in Procs
  BY <1>0, CallIn DEF Requests, Ops, Whys
<1>2. \/ r.op = "OPEN"
      \/ r.op \in {"WRITE", "CLOSE"} /\ r.proc \in open \ waiting
      \/ r.op = "CANCEL" /\ r.proc \in hang
  BY <1>0 DEF Requests, Call
<1>3. r.op = "OPEN" => open = {}
  <2>1. IsFiniteSet(open) BY FS_Subset
  <2>2. Cardinality(open) \in Nat /\ (Cardinality(open) = 0 <=> open = {})
    BY <2>1, FS_EmptySet, FS_CardinalityType
  <2> QED BY <2>2, <1>0
<1>4. r.op # "CANCEL" => hang = {}
  BY <1>2, <1>3
<1>5. TypeOK'
  <2>1. req' \in Calls \cup {NoMsg} BY <1>0, <1>1
  <2>2. hang' \subseteq waiting' /\ waiting' \subseteq Procs /\ open' \subseteq Procs
    BY <1>0, <1>1 DEF get_work
  <2> QED BY <2>1, <2>2 DEF get_work, device, task
<1>6. TaskState' BY DEF FsRuns, get_work, device, task
<1>7. Interrupts' /\ Pins' BY DEF get_work, device, task
<1>8. ServerState' BY <1>0, <1>1, <1>2, <1>4 DEF FsRuns, get_work, device, task
<1>9. UserState' BY <1>0, <1>1, <1>2, <1>3, <1>4 DEF FsRuns, get_work, device, task
<1> QED BY <1>5, <1>6, <1>7, <1>8, <1>9

\* FS receives the completion.
LEMMA FsReceivesInv ==
  ASSUME IInv, FsRuns, FsReceives
  PROVE  IInv'
<1> USE PrinterAssumption, MailIn DEF IInv, TypeOK, TaskState, Interrupts, Pins, ServerState, UserState,
        AtWork
<1>1. TypeOK'
  <2>1. busy' \in BOOLEAN /\ procno' \in Procs \cup {CANCELED, "MM"} 
    BY DEF FsRuns, FsReceives, TakeMail, users, device
  <2>2. left' \in -1..MaxCount
    BY DEF FsRuns, FsReceives, TakeMail, users, device
  <2>3. physio' \subseteq Procs
    BY DEF FsRuns, FsReceives, TakeMail, users, device
  <2>4. pp' \in {"recv", "got", "entry", "test", "put", "outc", "line", "suspend", "send", "loop"}
    BY DEF FsRuns, FsReceives, TakeMail, users, device
  <2>5. msg' \in Calls \cup Mails \cup {HardInt, NoMsg}
    BY DEF FsRuns, FsReceives, TakeMail, users, device
  <2>6. int_blocked' \in BOOLEAN /\ pbsy' \in BOOLEAN /\ irq' \in BOOLEAN
    BY DEF FsRuns, FsReceives, TakeMail, users, device
  <2>7. fs' \in {"recv", "mail", "call", "wait", "answer"}
    BY DEF FsRuns, FsReceives, TakeMail, users, device
  <2>8. req' \in Calls \cup {NoMsg}
    BY DEF FsRuns, FsReceives, TakeMail, users, device
  <2>9. mail' \in Mails \cup {NoMsg}
    BY DEF FsRuns, FsReceives, TakeMail, users, device
  <2>10. open' \subseteq Procs /\ hang' \subseteq waiting' /\ waiting' \subseteq Procs
    BY DEF FsRuns, FsReceives, TakeMail, users, device
  <2> QED BY <2>1, <2>2, <2>3, <2>4, <2>5, <2>6, <2>7, <2>8, <2>9, <2>10 DEF TypeOK
<1>2. TaskState'
  BY DEF FsRuns, FsReceives, TakeMail, users, device
<1>3. Interrupts'
  BY DEF FsRuns, FsReceives, TakeMail, users, device
<1>4. Pins'
  BY DEF FsRuns, FsReceives, TakeMail, users, device
<1>5. ServerState'
  BY DEF FsRuns, FsReceives, TakeMail, users, device
<1>6. UserState'
  BY DEF FsRuns, FsReceives, TakeMail, users, device
<1> QED BY <1>1, <1>2, <1>3, <1>4, <1>5, <1>6

\* FS revives the writer.
LEMMA ReviveInv ==
  ASSUME IInv, FsRuns, do_revive
  PROVE  IInv'
<1> USE PrinterAssumption, MailIn DEF IInv, TypeOK, TaskState, Interrupts, Pins, ServerState, UserState,
        AtWork
<1>1. TypeOK'
  BY DEF FsRuns, do_revive, revive, device, task
<1>2. TaskState'
  BY DEF FsRuns, do_revive, revive, device, task
<1>3. Interrupts'
  BY DEF FsRuns, do_revive, revive, device, task
<1>4. Pins'
  BY DEF FsRuns, do_revive, revive, device, task
<1>5. ServerState'
  BY DEF FsRuns, do_revive, revive, device, task
<1>6. UserState'
  BY DEF FsRuns, do_revive, revive, device, task
<1> QED BY <1>1, <1>2, <1>3, <1>4, <1>5, <1>6

\* FS calls the task.
LEMMA CallTaskInv ==
  ASSUME IInv, FsRuns, call_task
  PROVE  IInv'
<1> USE PrinterAssumption, MailIn, CallIn, CallFields DEF IInv, TypeOK, TaskState, Interrupts, Pins, ServerState, UserState,
        AtWork
<1>1. TypeOK'
  <2>1. busy' \in BOOLEAN /\ procno' \in Procs \cup {CANCELED, "MM"} 
    BY DEF FsRuns, call_task, Crossed, TakeMail, Return, Idle, Answered, revive, Ops, Whys, users, device
  <2>2. left' \in -1..MaxCount
    BY DEF FsRuns, call_task, Crossed, TakeMail, Return, Idle, Answered, revive, Ops, Whys, users, device
  <2>3. physio' \subseteq Procs
    BY DEF FsRuns, call_task, Crossed, TakeMail, Return, Idle, Answered, revive, Ops, Whys, users, device
  <2>4. pp' \in {"recv", "got", "entry", "test", "put", "outc", "line", "suspend", "send", "loop"}
    BY DEF FsRuns, call_task, Crossed, TakeMail, Return, Idle, Answered, revive, Ops, Whys, users, device
  <2>5. msg' \in Calls \cup Mails \cup {HardInt, NoMsg}
    BY DEF FsRuns, call_task, Crossed, TakeMail, Return, Idle, Answered, revive, Ops, Whys, users, device
  <2>6. int_blocked' \in BOOLEAN /\ pbsy' \in BOOLEAN /\ irq' \in BOOLEAN
    BY DEF FsRuns, call_task, Crossed, TakeMail, Return, Idle, Answered, revive, Ops, Whys, users, device
  <2>7. fs' \in {"recv", "mail", "call", "wait", "answer"}
    BY DEF FsRuns, call_task, Crossed, TakeMail, Return, Idle, Answered, revive, Ops, Whys, users, device
  <2>8. req' \in Calls \cup {NoMsg}
    BY DEF FsRuns, call_task, Crossed, TakeMail, Return, Idle, Answered, revive, Ops, Whys, users, device
  <2>9. mail' \in Mails \cup {NoMsg}
    BY DEF FsRuns, call_task, Crossed, TakeMail, Return, Idle, Answered, revive, Ops, Whys, users, device
  <2>10. open' \subseteq Procs /\ hang' \subseteq waiting' /\ waiting' \subseteq Procs
    BY DEF FsRuns, call_task, Crossed, TakeMail, Return, Idle, Answered, revive, Ops, Whys, users, device
  <2> QED BY <2>1, <2>2, <2>3, <2>4, <2>5, <2>6, <2>7, <2>8, <2>9, <2>10 DEF TypeOK
<1>2. TaskState'
  BY DEF FsRuns, call_task, Crossed, TakeMail, Return, Idle, Answered, revive, Ops, Whys, users, device
<1>3. Interrupts'
  BY DEF FsRuns, call_task, Crossed, TakeMail, Return, Idle, Answered, revive, Ops, Whys, users, device
<1>4. Pins'
  BY DEF FsRuns, call_task, Crossed, TakeMail, Return, Idle, Answered, revive, Ops, Whys, users, device
<1>5. ServerState'
  BY DEF FsRuns, call_task, Crossed, TakeMail, Return, Idle, Answered, revive, Ops, Whys, users, device
<1>6. UserState'
  BY DEF FsRuns, call_task, Crossed, TakeMail, Return, Idle, Answered, revive, Ops, Whys, users, device
<1> QED BY <1>1, <1>2, <1>3, <1>4, <1>5, <1>6

\* FS looks at the answer.
LEMMA AnswerInv ==
  ASSUME IInv, FsRuns, Answer
  PROVE  IInv'
<1> USE PrinterAssumption, CallIn, CallFields DEF IInv, TypeOK, TaskState, Interrupts, Pins, ServerState, UserState,
        AtWork
<1>1. TypeOK'
  <2>1. busy' \in BOOLEAN /\ procno' \in Procs \cup {CANCELED, "MM"} 
    BY DEF FsRuns, Answer, Return, Idle, Answered, revive, Ops, Whys, users, device, task
  <2>2. left' \in -1..MaxCount
    BY DEF FsRuns, Answer, Return, Idle, Answered, revive, Ops, Whys, users, device, task
  <2>3. physio' \subseteq Procs
    BY DEF FsRuns, Answer, Return, Idle, Answered, revive, Ops, Whys, users, device, task
  <2>4. pp' \in {"recv", "got", "entry", "test", "put", "outc", "line", "suspend", "send", "loop"}
    BY DEF FsRuns, Answer, Return, Idle, Answered, revive, Ops, Whys, users, device, task
  <2>5. msg' \in Calls \cup Mails \cup {HardInt, NoMsg}
    BY DEF FsRuns, Answer, Return, Idle, Answered, revive, Ops, Whys, users, device, task
  <2>6. int_blocked' \in BOOLEAN /\ pbsy' \in BOOLEAN /\ irq' \in BOOLEAN
    BY DEF FsRuns, Answer, Return, Idle, Answered, revive, Ops, Whys, users, device, task
  <2>7. fs' \in {"recv", "mail", "call", "wait", "answer"}
    BY DEF FsRuns, Answer, Return, Idle, Answered, revive, Ops, Whys, users, device, task
  <2>8. req' \in Calls \cup {NoMsg}
    BY DEF FsRuns, Answer, Return, Idle, Answered, revive, Ops, Whys, users, device, task
  <2>9. mail' \in Mails \cup {NoMsg}
    BY DEF FsRuns, Answer, Return, Idle, Answered, revive, Ops, Whys, users, device, task
  <2>10. open' \subseteq Procs /\ hang' \subseteq waiting' /\ waiting' \subseteq Procs
    BY DEF FsRuns, Answer, Return, Idle, Answered, revive, Ops, Whys, users, device, task
  <2> QED BY <2>1, <2>2, <2>3, <2>4, <2>5, <2>6, <2>7, <2>8, <2>9, <2>10 DEF TypeOK
<1>2. TaskState'
  BY DEF FsRuns, Answer, Return, Idle, Answered, revive, Ops, Whys, users, device, task
<1>3. Interrupts'
  BY DEF FsRuns, Answer, Return, Idle, Answered, revive, Ops, Whys, users, device, task
<1>4. Pins'
  BY DEF FsRuns, Answer, Return, Idle, Answered, revive, Ops, Whys, users, device, task
<1>5. ServerState'
  BY DEF FsRuns, Answer, Return, Idle, Answered, revive, Ops, Whys, users, device, task
<1>6. UserState'
  <2>0. mail.proc = req.proc BY DEF Answer
  <2>1. CASE req.op \in {"OPEN", "CLOSE"}
    BY <2>0, <2>1 DEF FsRuns, Answer, Return, Idle, Answered, Ops, Whys, users, task
  <2>2. CASE req.op = "WRITE"
    <3>1. CASE mail.status # "SUSPEND"
      BY <2>0, <2>2, <3>1 DEF Answer, Return, Idle, Answered, task
    <3>2. CASE mail.status = "SUSPEND" /\ fs' = "recv"
      <4>1. req' = NoMsg /\ hang' = hang \cup {req.proc} /\ UNCHANGED open
        BY <2>0, <2>2, <3>2 DEF Answer, Return, Idle
      <4> QED BY <2>2, <3>2, <4>1 DEF Answer, task
    <3>3. CASE mail.status = "SUSPEND" /\ fs' # "recv"
      <4>1. fs' = "call" /\ req' = Call("CANCEL", req.proc, 0, "nonblock") /\ UNCHANGED users
        BY <2>0, <2>2, <3>3 DEF Answer, Return, Idle
      <4>2. req'.op = "CANCEL" /\ req'.proc = req.proc BY <4>1 DEF Call
      <4> QED BY <2>2, <3>3, <4>1, <4>2 DEF Answer, task, users
    <3> QED BY <3>1, <3>2, <3>3
  <2>3. CASE req.op = "CANCEL"
    BY <2>0, <2>3 DEF FsRuns, Answer, Return, Idle, Answered, Ops, Whys, users, task
  <2> QED BY <2>1, <2>2, <2>3 DEF Answer, Ops
<1> QED BY <1>1, <1>2, <1>3, <1>4, <1>5, <1>6

\* A stuttering step.
LEMMA StutterInv ==
  ASSUME IInv, UNCHANGED vars
  PROVE  IInv'
<1> USE DEF vars, device, task, server, users
<1>1. TypeOK' BY DEF IInv, TypeOK
<1>2. TaskState' /\ Interrupts' BY DEF IInv, TaskState, Interrupts, AtWork
<1>3. Pins' BY DEF IInv, Pins, AtWork
<1>4. ServerState' /\ UserState' BY DEF IInv, ServerState, UserState
<1> QED BY <1>1, <1>2, <1>3, <1>4 DEF IInv

\* The invariant holds at first.
LEMMA InitInv == Init => IInv
<1> SUFFICES ASSUME Init PROVE IInv
  OBVIOUS
<1> USE PrinterAssumption DEF Init, AtWork
<1>1. TypeOK
  <2>1. left \in -1..MaxCount OBVIOUS
  <2> QED BY <2>1 DEF TypeOK
<1>2. TaskState /\ Interrupts /\ Pins BY DEF TaskState, Interrupts, Pins
<1>3. ServerState /\ UserState BY DEF ServerState, UserState
<1> QED BY <1>1, <1>2, <1>3 DEF IInv

\* Every step keeps the invariant while one process at most may have the printer open.
LEMMA NextInv ==
  ASSUME MaxOpen <= 1, IInv, [Next]_vars
  PROVE  IInv'
<1>1. CASE printer_task BY <1>1, WriteInv, DoneInv, CancelInv, OpenCloseInv DEF printer_task
<1>2. CASE TaskReceive BY <1>2, ReceiveInv
<1>3. CASE TaskPrints BY <1>3, EntryInv, TestInv, PutInv, OutInv, LineInv, SuspendInv DEF TaskPrints
<1>4. CASE Ready \/ piaint BY <1>4, ReadyInv, PiaintInv
<1>5. CASE FsStep BY <1>5, FsReceivesInv, ReviveInv, CallTaskInv, AnswerInv DEF FsStep
<1>6. CASE FsRuns /\ get_work BY <1>6, GetWorkInv
<1>7. CASE UNCHANGED vars BY <1>7, StutterInv
<1> QED BY <1>1, <1>2, <1>3, <1>4, <1>5, <1>6, <1>7 DEF Next

-----------------------------------------------------------------------------
(***************************************************************************)
(* The theorems.                                                           *)
(***************************************************************************)
\* The inductive invariant holds throughout.
LEMMA Invariance ==
  ASSUME MaxOpen <= 1
  PROVE  Spec => []IInv
<1>1. IInv /\ [Next]_vars => IInv' BY NextInv
<1> QED BY <1>1, InitInv, PTL DEF Spec

\* The tables of the printer task and of FS hold what they may hold, and the
\* image of a process is kept in place (p_physio) exactly while the printer
\* takes bytes from it, whatever the order of completions, cancels and late
\* interrupts (reply(), do_done(), do_cancel() of stprint.c, call_task() of
\* device.c).
THEOREM WriterPinned ==
  ASSUME MaxOpen <= 1
  PROVE  Spec => []PrinterSound
<1>1. IInv => PrinterSound
  BY DEF IInv, Pins, AtWork, PrinterSound, PinnedWhilePrinting
<1> QED BY <1>1, Invariance, PTL

\* An interrupt that the task serves while it is busy is that of the job at hand
\* and tells of its last byte: do_done() never ends a job early, though piaint()
\* runs inside do_write() with interrupts enabled, and a cancelled job may leave
\* an interrupt behind.
THEOREM DoneAtTheEnd ==
  ASSUME MaxOpen <= 1
  PROVE  Spec => []NoEarlyDone
<1>1. IInv => NoEarlyDone
  BY DEF IInv, Interrupts, NoEarlyDone
<1> QED BY <1>1, Invariance, PTL

\* While FS waits for an answer the task works on the call it waits for, and a
\* CANCEL that the task has got finds the printer busy, so that it is answered.
Attended ==
  /\ fs = "wait" => pp \in AtWork \/ (pp = "got" /\ msg = req)
  /\ pp = "got" /\ msg = req /\ req.op = "CANCEL" => busy

\* The task answers no CANCEL that finds it idle (do_cancel() of stprint.c: "this
\* test avoids race conditions"), and FS waits for an answer all the same.  FS does
\* not hang, because such a CANCEL is never sent: the completion that made the
\* printer idle is taken by call_task() first.
THEOREM NoForgottenCall ==
  ASSUME MaxOpen <= 1
  PROVE  Spec => []Attended
<1>1. IInv => Attended
  BY DEF IInv, TaskState, Attended
<1> QED BY <1>1, Invariance, PTL
=============================================================================
