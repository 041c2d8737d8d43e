-------------------------------- MODULE Pipe --------------------------------
(***************************************************************************)
(* Pipes and FIFOs in the file system (fs/pipe.c, and the parts of         *)
(* fs/read.c, fs/open.c, fs/misc.c and fs/main.c they live in).            *)
(*                                                                         *)
(* FS is one process that serves one message at a time, so an action is a  *)
(* whole call.  A call that cannot proceed is parked in the process table  *)
(* (suspend) and run again from the top when somebody releases it; FS      *)
(* takes a new message only when no parked call waits to be run again      *)
(* (get_work).  One inode is modelled: a FIFO, or what pipe() makes.  All  *)
(* descriptors of one end share one filp: pipe() and fork() duplicate it,  *)
(* and common_open() looks for the filp of a partner.                      *)
(***************************************************************************)
EXTENDS Integers, FiniteSets, Sequences, SequencesExt

CONSTANTS
  Procs,       \* slots of fproc, in the order the table is searched
  Kinds,       \* which of "fifo" and "pipe" the inode may be
  PIPE_SIZE,   \* what the inode can hold
  MaxBytes,    \* bound: the largest request
  DiskFull,    \* the device may have no zone left for a block
  MaxIntr      \* bound: interrupted calls susp_count may still count

ASSUME PipeAssumption ==
  /\ Procs \subseteq Nat \ {0} /\ Procs # {}
  /\ IsFiniteSet(Procs)
  /\ Kinds \subseteq {"fifo", "pipe"}
  /\ DiskFull \in BOOLEAN
  /\ PIPE_SIZE \in Nat \ {0}
  /\ MaxBytes \in Nat /\ PIPE_SIZE <= MaxBytes
  /\ MaxIntr \in Nat

VARIABLES
  kind,        \* a FIFO in the file tree, or an inode made by pipe()
  alive,       \* slots in use
  fds,         \* fp_filp: the ends a process has open
  hang,        \* fp_suspended, fp_task, fp_fd, fp_nbytes: the parked call
  revived,     \* processes with fp_revived = REVIVING
  partial,     \* processes whose fp_cum_io_partial is not 0
  susp_count,  \* the two global counters of glo.h
  reviving,
  data,        \* i_size bytes of the file, each the number of its writer
  pos,         \* filp_pos of each end, or the copy of it in the inode
  flags,       \* filp_flags of each end
  adrift       \* history: F_SETFL took O_APPEND from writers not at the end

table == <<alive, fds, hang, revived, partial, susp_count, reviving>>
file  == <<kind, data, pos, flags, adrift>>
vars  == <<table, file>>

Ends == {"R", "W"}
Other(e) == IF e = "R" THEN "W" ELSE "R"
Flags(e) == SUBSET IF e = "W" THEN {"NONBLOCK", "APPEND"} ELSE {"NONBLOCK"}
NoCall == [call |-> "none", n |-> 0]
Parked(call, n) == [call |-> call, n |-> n]

Init ==
  /\ kind \in Kinds
  /\ alive = {CHOOSE p \in Procs : TRUE}
  /\ fds = [p \in Procs |-> {}]
  /\ hang = [p \in Procs |-> NoCall]
  /\ revived = {}
  /\ partial = {}
  /\ susp_count = 0
  /\ reviving = 0
  /\ data = <<>>
  /\ pos = [e \in Ends |-> 0]
  /\ flags = [e \in Ends |-> {}]
  /\ adrift = FALSE

----------------------------------------------------------------------------
(* Helpers.                                                                *)

\* find_filp(rip, bits) finds a filp
find_filp(e) == \E p \in Procs : e \in fds[p]

\* Bytes between the reader's position and the end of the file.
Unread == SubSeq(data, pos["R"] + 1, Len(data))

Suspended(call) == {p \in Procs : hang[p].call = call}

\* release(rip, call, count): the first count processes in table order; a
\* count of 0 or less never reaches 0 again and releases them all.
Releasable(call) == Suspended(call) \ revived
release(call, count) ==
  LET W == Releasable(call)
      Rank(p) == Cardinality({q \in W : q <= p})
  IN  IF count <= 0 THEN W ELSE {p \in W : Rank(p) <= count}

\* The call of p ends (h = NoCall) or is parked (suspend), and revive() marks
\* the processes of S.  When p was REVIVING itself, get_work() took it out.
Settle(p, h, S) ==
  /\ hang' = [hang EXCEPT ![p] = h]
  /\ revived' = (revived \ {p}) \cup S
  /\ reviving' = reviving - (IF p \in revived THEN 1 ELSE 0) + Cardinality(S)
  /\ susp_count' = susp_count + (IF h = NoCall THEN 0 ELSE 1) - Cardinality(S)
  /\ UNCHANGED <<alive, fds>>

Done(p) == Settle(p, NoCall, {})

----------------------------------------------------------------------------
(* read() and write().                                                     *)

\* Sleeping writers are activated when a reader finds the pipe empty.
\* Mutant: everybody who hangs on the pipe is
EmptyWakes_All(count) == release("WRITE", count) \cup release("READ", count)
EmptyWakes(count) == IF count > 0 THEN release("WRITE", count) ELSE {}

\* pipe_check() of a reader that finds the pipe empty
ReadEmpty(p, n) ==
  LET h == IF "NONBLOCK" \in flags["R"] THEN NoCall ELSE Parked("READ", n)
      count == susp_count + IF h = NoCall THEN 0 ELSE 1
  IN  /\ Unread = <<>>
      /\ IF find_filp("W")
         THEN Settle(p, h, EmptyWakes(count))
         ELSE Done(p)
      /\ UNCHANGED <<partial, file>>

\* The reader takes what there is; a pipe that is drained starts again at 0.
\* Mutant: the writer goes on where it was
Rewind_Reader == [pos EXCEPT !["R"] = 0]
Rewind == [e \in Ends |-> IF e = "R" \/ find_filp(e) THEN 0 ELSE pos[e]]
ReadBytes(p, n) ==
  LET at == pos["R"] + n
  IN  /\ Unread # <<>>
      /\ IF at >= Len(data)
         THEN data' = <<>> /\ pos' = Rewind
         ELSE UNCHANGED data /\ pos' = [pos EXCEPT !["R"] = at]
      /\ partial' = partial \ {p}
      /\ Done(p)
      /\ UNCHANGED <<kind, flags, adrift>>

do_read(p, n) ==
  /\ "R" \in fds[p]
  /\ ReadEmpty(p, n) \/ ReadBytes(p, n)

\* O_APPEND moves a writer to the end of the file first.
Position == IF "APPEND" \in flags["W"] THEN Len(data) ELSE pos["W"]

Room == PIPE_SIZE - Position

\* rw_chunk() of k bytes of p
Store(p, k) ==
  LET at == Position
      size == IF at + k > Len(data) THEN at + k ELSE Len(data)
  IN  /\ data' = [i \in 1..size |-> IF i \in at + 1 .. at + k THEN p
                                    ELSE IF i <= Len(data) THEN data[i] ELSE 0]
      /\ pos' = [pos EXCEPT !["W"] = at + k]
      /\ UNCHANGED <<kind, flags, adrift>>

\* A write that fits: readers wait only for a pipe that is empty.
Wakes == IF Position = 0 THEN release("READ", susp_count) ELSE {}
WriteFits(p, n) ==
  /\ find_filp("R")
  /\ n <= Room
  /\ Store(p, n)
  /\ partial' = partial \ {p}
  /\ Settle(p, NoCall, Wakes)

\* More than a pipe can ever hold: fill it, and park the rest of the call.
Rest(p, n) == IF "NONBLOCK" \in flags["W"] THEN NoCall ELSE Parked("WRITE", n)
WritePart(p, n) ==
  /\ find_filp("R")
  /\ n > PIPE_SIZE
  /\ Room > 0
  /\ Store(p, Room)
  /\ LET h == Rest(p, n - Room)
     IN  /\ partial' = IF h = NoCall THEN partial \ {p} ELSE partial \cup {p}
         /\ Settle(p, h, release("READ", susp_count))

\* No room: EAGAIN, or wait.  A request of exactly PIPE_SIZE waits even with
\* O_NONBLOCK.
WriteFull(p, n) ==
  /\ find_filp("R")
  /\ n > Room
  /\ n <= PIPE_SIZE \/ Room <= 0
  /\ IF "NONBLOCK" \in flags["W"] /\ n # PIPE_SIZE
     THEN Done(p)
     ELSE Settle(p, Parked("WRITE", n), {})
  /\ UNCHANGED <<partial, file>>

\* The device is full: k bytes are stored, the caller gets the error only.
WriteFails(p, n) ==
  /\ DiskFull
  /\ find_filp("R")
  /\ n <= Room \/ (n > PIPE_SIZE /\ Room > 0)
  /\ \E k \in 0 .. (IF n <= Room THEN n ELSE Room) - 1 : Store(p, k)
  /\ Settle(p, NoCall, IF n > Room THEN release("READ", susp_count) ELSE Wakes)
  /\ UNCHANGED partial

\* Nobody can read: EPIPE, and SIGPIPE through MM.
WriteBroken(p) ==
  /\ ~find_filp("R")
  /\ Done(p)
  /\ UNCHANGED <<partial, file>>

do_write(p, n) ==
  /\ "W" \in fds[p]
  /\ \/ WriteFits(p, n)
     \/ WritePart(p, n)
     \/ WriteFull(p, n)
     \/ WriteFails(p, n)
     \/ WriteBroken(p)

----------------------------------------------------------------------------
(* open(), pipe(), close(), fcntl().                                       *)

Opens(p, E) == fds' = [fds EXCEPT ![p] = @ \cup E]

\* pipe(): a new inode with a filp for each end
do_pipe(p) ==
  /\ kind = "pipe"
  /\ \A q \in Procs : fds[q] = {}
  /\ Opens(p, Ends)
  /\ pos' = [e \in Ends |-> 0]
  /\ flags' = [e \in Ends |-> {}]
  /\ UNCHANGED <<kind, data, adrift, alive, hang, revived, partial, susp_count, reviving>>

\* O_APPEND is forced on a FIFO; it says nothing for the reading end.
Forced(e) == IF e = "W" THEN {"APPEND"} ELSE {}

\* common_open() of a FIFO: its filp is shared with the partners of the same
\* side, whose flags it replaces, or starts where the last of them stopped.
ShareFilp(p, e, oflags) ==
  /\ Opens(p, {e})
  /\ flags' = [flags EXCEPT ![e] = oflags \cup Forced(e)]
  /\ UNCHANGED <<kind, data, pos, adrift, alive, revived, partial, reviving>>

\* pipe_open(): wait for the other side, or wake those who wait for this one
OpenWaits(p, e, oflags) ==
  /\ ~find_filp(Other(e))
  /\ "NONBLOCK" \in oflags => e = "R"      \* else ENXIO
  /\ IF "NONBLOCK" \in oflags
     THEN UNCHANGED <<hang, susp_count>>
     ELSE /\ hang' = [hang EXCEPT ![p] = Parked("OPEN", 0)]
          /\ susp_count' = susp_count + 1
  /\ ShareFilp(p, e, oflags)

OpenMeets(p, e, oflags) ==
  LET S == IF susp_count > 0 THEN release("OPEN", susp_count) ELSE {}
  IN  /\ find_filp(Other(e))
      /\ hang' = [q \in Procs |-> IF q \in S THEN NoCall ELSE hang[q]]
      /\ susp_count' = susp_count - Cardinality(S)
      /\ ShareFilp(p, e, oflags)

do_open(p, e, oflags) ==
  /\ kind = "fifo"
  /\ e \notin fds[p]
  /\ OpenWaits(p, e, oflags) \/ OpenMeets(p, e, oflags)

\* The call that those wait in who wait for the side that now loses a member
ReleasedBy(e) == IF e = "R" THEN "WRITE" ELSE "READ"

\* Everybody on the other side of the ends E, but for p itself
Freed(p, E) == (UNION {release(ReleasedBy(e), Cardinality(Procs)) : e \in E}) \ {p}

\* do_close() of the ends E.  Everybody on the other side is released, the
\* position of a filp nobody uses any more goes to the last zones of the
\* inode, and an inode nobody uses any more is truncated.
CloseEnds(p, E) ==
  LET after == [fds EXCEPT ![p] = @ \ E]
      used(e) == \E q \in Procs : e \in after[q]
      S == Freed(p, E)
      keep == \E e \in Ends : used(e)
  IN  /\ fds' = after
      /\ data' = IF keep THEN data ELSE <<>>
      /\ pos' = IF keep THEN pos ELSE [e \in Ends |-> 0]
      /\ flags' = [e \in Ends |-> IF used(e) THEN flags[e] ELSE {}]
      /\ revived' = revived \cup S
      /\ reviving' = reviving + Cardinality(S)

do_close(p, e) ==
  /\ e \in fds[p]
  /\ CloseEnds(p, {e})
  /\ susp_count' = susp_count - Cardinality(Freed(p, {e}))
  /\ UNCHANGED <<kind, adrift, alive, hang, partial>>

\* fcntl(fd, F_SETFL, fl) sets both flags at once, for all who share the filp.
\* It also clears the O_APPEND that common_open() forced on a FIFO: from then
\* on the writers write at filp_pos, which need not be the end of the file.
SetFl(p, e, fl) ==
  /\ e \in fds[p]
  /\ flags' = [flags EXCEPT ![e] = fl]
  /\ adrift' = (adrift \/ (e = "W" /\ "APPEND" \notin fl /\ pos["W"] # Len(data)))
  /\ UNCHANGED <<table, kind, data, pos>>

----------------------------------------------------------------------------
(* Calls that MM makes: FORK, UNPAUSE and EXIT.                            *)

do_fork(p, c) ==
  /\ c \notin alive
  /\ alive' = alive \cup {c}
  /\ fds' = [fds EXCEPT ![c] = fds[p]]
  /\ partial' = IF p \in partial THEN partial \cup {c} ELSE partial \ {c}
  /\ UNCHANGED <<hang, revived, susp_count, reviving, file>>

\* How much do_unpause() takes from susp_count.
\* Mutant: one, although do_exit() has done so already
Uncounted_Too == 1
Uncounted == 0

\* A signal interrupts a parked call: EINTR.
do_unpause(p) ==
  /\ hang[p] # NoCall
  /\ hang' = [hang EXCEPT ![p] = NoCall]
  /\ susp_count' = susp_count - Uncounted
  /\ UNCHANGED <<alive, fds, revived, partial, reviving, file>>

\* A process ends, from whatever it hangs on.
do_exit(p) ==
  LET one == IF hang[p] = NoCall THEN 0 ELSE 1 + Uncounted
  IN  /\ alive # {p}
      /\ CloseEnds(p, fds[p])
      /\ susp_count' = susp_count - one - Cardinality(Freed(p, fds[p]))
      /\ hang' = [hang EXCEPT ![p] = NoCall]
      /\ alive' = alive \ {p}
      /\ partial' = partial \ {p}    \* do_fork() overwrites the slot
      /\ UNCHANGED <<kind, adrift>>

----------------------------------------------------------------------------
(* The main loop.                                                          *)

\* get_work(): the first REVIVING process of the table tries its call again.
get_work ==
  /\ reviving # 0
  /\ \E p \in revived :
       /\ \A q \in revived : p <= q
       /\ \/ hang[p].call = "READ" /\ do_read(p, hang[p].n)
          \/ hang[p].call = "WRITE" /\ do_write(p, hang[p].n)

\* A message of a process that does not hang
UserCall ==
  /\ reviving = 0
  /\ \E p \in alive :
       /\ hang[p] = NoCall
       /\ \/ \E n \in 1..PIPE_SIZE : do_read(p, n)
          \/ \E n \in 1..MaxBytes : do_write(p, n)
          \/ do_pipe(p)
          \/ \E e \in Ends :
               \/ do_close(p, e)
               \/ \E fl \in Flags(e) : do_open(p, e, fl) \/ SetFl(p, e, fl)

\* Messages of MM
MmCall ==
  /\ reviving = 0
  /\ \/ \E p \in alive, c \in Procs : hang[p] = NoCall /\ do_fork(p, c)
     \/ \E p \in alive : do_exit(p)
     \/ \E p \in alive : do_unpause(p)

Hanging == {p \in Procs : hang[p] # NoCall} \ revived
Bounded == susp_count' <= Cardinality(Hanging') + MaxIntr

Next == (get_work \/ UserCall \/ MmCall) /\ Bounded

\* FS runs as long as it has work that it finds in its own table.
Spec == Init /\ [][Next]_vars /\ WF_vars(get_work)

----------------------------------------------------------------------------
(* Properties.                                                             *)

\* Type invariant: the tables of FS and the inode hold what their C types say.
TypeOK ==
  /\ kind \in Kinds
  /\ alive \subseteq Procs
  /\ fds \in [Procs -> SUBSET Ends]
  /\ hang \in [Procs -> [call : {"none", "READ", "WRITE", "OPEN"}, n : 0..MaxBytes]]
  /\ revived \subseteq Procs
  /\ partial \subseteq Procs
  /\ susp_count \in Int
  /\ reviving \in Nat
  /\ data \in Seq(Procs \cup {0}) /\ Len(data) <= PIPE_SIZE
  /\ pos \in [Ends -> 0..PIPE_SIZE]
  /\ flags \in [Ends -> SUBSET {"NONBLOCK", "APPEND"}] /\ "APPEND" \notin flags["R"]
  /\ adrift \in BOOLEAN

\* Nobody hangs for something that is there.  When FS waits for a message, a
\* parked reader has nothing to read and may still get something, a parked
\* writer may still be read, a reader and a writer never wait for each other,
\* and an open() hangs only while the other side is not open (pipe_check,
\* pipe_open, and the release() calls of pipe.c and open.c).
NoLostWakeup ==
  reviving = 0 =>
    /\ Suspended("READ") # {} => Unread = <<>> /\ find_filp("W")
    /\ Suspended("WRITE") # {} => find_filp("R") /\ Suspended("READ") = {}
    /\ \A p \in Suspended("OPEN"), q \in Procs : fds[q] # {} => fds[q] = fds[p]

\* reviving counts the REVIVING processes, all of them parked in read() or
\* write(), so that get_work() never panics with "couldn't revive anyone".
RevivingCounted ==
  /\ reviving = Cardinality(revived)
  /\ revived \subseteq Suspended("READ") \cup Suspended("WRITE")

\* release() is called with susp_count as its limit, and not at all when it
\* is 0: it is never less than the number of processes that hang.
SuspCovers == susp_count >= Cardinality(Hanging)

\* Parked calls are counted, released in time and none is forgotten: the limit
\* of release() covers all and reviving is exact, whatever F_SETFL does; nobody
\* hangs without reason, until F_SETFL has taken the forced O_APPEND of a FIFO
\* from writers that do not stand at its end (misc.c:112), which pipe() makes
\* impossible.  Without that exception the code does not keep NoLostWakeup.
WakeupsSound ==
  /\ TypeOK /\ SuspCovers /\ RevivingCounted
  /\ kind = "pipe" => ~adrift
  /\ adrift \/ NoLostWakeup

\* The pipe is a queue of bytes: one step only appends bytes of a writer, or
\* takes bytes from the front, or drops them all when nobody has it open
\* (rewinding, positions kept in the inode, sharing of filps).
QueueStep ==
  LET old == Unread
      new == Unread'
  IN  \/ IsPrefix(old, new) /\ \A i \in 1..Len(new) : new[i] # 0
      \/ IsSuffix(new, old)
      \/ \A q \in Procs : fds'[q] = {}

\* Every step keeps the order of the bytes, until F_SETFL has taken O_APPEND
\* from writers of a FIFO that do not stand at its end.
QueueOrder == [][adrift \/ QueueStep]_vars

\* What "force append mode" (open.c:165) is there for: the same, whatever
\* F_SETFL does.  The code does not keep it (misc.c:112).
AppendForced == [][QueueStep]_vars

\* Calls that wake each other come to an end: FS gets back to its messages
\* (get_work, main.c:97).
CascadeEnds == reviving # 0 ~> reviving = 0
=============================================================================
