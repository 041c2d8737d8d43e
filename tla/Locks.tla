-------------------------------- MODULE Locks --------------------------------
(***************************************************************************)
(* Advisory file locks (fs/lock.c, and the ends of do_close() in open.c,   *)
(* do_exit() in misc.c and get_work() in main.c that release and retry).   *)
(*                                                                         *)
(* The locks of one file, held by processes of which each has one slot of  *)
(* fproc and one pid.  FS serves one call at a time: a call is an action.  *)
(* A process that must wait is parked; whoever removes a lock revives all  *)
(* that wait, and each of them tries again from the top.                   *)
(***************************************************************************)
EXTENDS Integers, FiniteSets

CONSTANTS
  Procs,       \* processes, in the order of the process table
  NR_LOCKS,    \* slots of the lock table
  MaxPos,      \* bound: the last byte that can be locked
  Mixed        \* a process may lock a byte for reading and for writing

ASSUME LocksAssumption ==
  /\ Procs \subseteq Nat \ {0}
  /\ IsFiniteSet(Procs)
  /\ NR_LOCKS \in Nat \ {0}
  /\ MaxPos \in Nat
  /\ Mixed \in BOOLEAN

VARIABLES
  file_lock,   \* the table; a slot is Unused or a lock
  nr_locks,    \* the number of locks, as the code counts it
  want,        \* fp_suspended on XLOCK, with the lock the process waits for
  revived      \* processes that are REVIVING

vars == <<file_lock, nr_locks, want, revived>>

Slots   == 1..NR_LOCKS
Types   == {"F_RDLCK", "F_WRLCK"}
Unused  == [type |-> "unused"]
Regions == {r \in [first : 0..MaxPos, last : 0..MaxPos] : r.first <= r.last}
LockOf(p, t, r) == [type |-> t, pid |-> p, first |-> r.first, last |-> r.last]
AllLocks == {LockOf(p, t, r) : p \in Procs, t \in Types, r \in Regions}

Init ==
  /\ file_lock = [i \in Slots |-> Unused]
  /\ nr_locks = 0
  /\ want = [p \in Procs |-> Unused]
  /\ revived = {}

----------------------------------------------------------------------------
(* Helpers.                                                                *)

Used == {i \in Slots : file_lock[i] # Unused}
Waiting == {p \in Procs : want[p] # Unused}

Overlap(a, b) == a.first <= b.last /\ b.first <= a.last

\* A lock that is in the way of l: not one that both may read, not an own one
InTheWay(k, l) ==
  /\ Overlap(k, l)
  /\ ~(k.type = "F_RDLCK" /\ l.type = "F_RDLCK")
  /\ k.pid # l.pid
\* Mutant: the search ends with the first lock of the table.
Conflict_First(l) == 1 \in Used /\ InTheWay(file_lock[1], l)
Conflict(l) == \E i \in Used : InTheWay(file_lock[i], l)

\* The first unused slot of a table
FirstUnused(tab) ==
  CHOOSE i \in Slots : tab[i] = Unused /\ \A j \in 1..i-1 : tab[j] # Unused

\* Mutant: only the first process that waits is revived.
lock_revive_First == revived \cup {p \in Waiting : \A q \in Waiting : p <= q}
\* lock_revive(): all who wait for any lock try again.
lock_revive == revived \cup Waiting

Covers(r, l) == r.first <= l.first /\ r.last >= l.last

\* Mutant: the upper part starts at the end of the cleared region.
Upper_Closed(l, r) == [l EXCEPT !.first = r.last]
\* What is left of the lock l behind and before the cleared region r
Upper(l, r) == [l EXCEPT !.first = r.last + 1]
Lower(l, r) == [l EXCEPT !.last = r.first - 1]

\* One round of the loop of lock_op() that clears the region r.  s is the
\* table, the counter, "unlocking", and whether the loop ended with ENOLCK.
Clear(s, i, r) ==
  LET l == s.tab[i]
      touched == [s EXCEPT !.unlocking = TRUE]
      upper == Upper(l, r)
      lower == Lower(l, r)
  IN  IF s.full \/ l = Unused THEN s
      ELSE IF ~Overlap(l, r) THEN s
      ELSE IF Covers(r, l)
           THEN [touched EXCEPT !.tab[i] = Unused, !.n = @ - 1]
      ELSE IF r.first <= l.first THEN [touched EXCEPT !.tab[i] = upper]
      ELSE IF r.last >= l.last THEN [touched EXCEPT !.tab[i] = lower]
      ELSE IF s.n = NR_LOCKS THEN [touched EXCEPT !.full = TRUE]
      ELSE [touched EXCEPT !.tab = [@ EXCEPT ![i] = lower,
                                             ![FirstUnused(s.tab)] = upper],
                           !.n = @ + 1]

\* The loop, slot after slot
Cleared(r) ==
  LET after[i \in 0..NR_LOCKS] ==
        IF i = 0
        THEN [tab |-> file_lock, n |-> nr_locks, unlocking |-> FALSE, full |-> FALSE]
        ELSE Clear(after[i - 1], i, r)
  IN  after[NR_LOCKS]

----------------------------------------------------------------------------
(* Calls.                                                                  *)

\* The call of p does not hang, or not any more.
Proceeds(p) == want' = [want EXCEPT ![p] = Unused]

\* lock_op() that sets a lock: F_SETLK, or F_SETLKW which may wait
SetLock(p, l, wait) ==
  /\ Mixed \/ \A i \in Used : file_lock[i].pid = p /\ Overlap(file_lock[i], l)
                               => file_lock[i].type = l.type
  /\ \/ /\ Conflict(l)
        /\ want' = [want EXCEPT ![p] = IF wait THEN l ELSE Unused]
        /\ UNCHANGED <<file_lock, nr_locks>>
     \/ /\ ~Conflict(l)
        /\ Proceeds(p)
        /\ IF Used = Slots       \* ENOLCK
           THEN UNCHANGED <<file_lock, nr_locks>>
           ELSE /\ file_lock' = [file_lock EXCEPT ![FirstUnused(file_lock)] = l]
                /\ nr_locks' = nr_locks + 1
  /\ revived' = revived \ {p}

\* lock_op() with F_UNLCK clears a region, whoever holds the locks in it.
Unlock(r) ==
  LET s == Cleared(r)
  IN  /\ file_lock' = s.tab
      /\ nr_locks' = s.n
      /\ revived' = IF s.unlocking /\ ~s.full THEN lock_revive ELSE revived
      /\ UNCHANGED want

\* do_close() drops all locks of the process on the file.
Own(p) == {i \in Used : file_lock[i].pid = p}
DropLocks(p) ==
  /\ file_lock' = [i \in Slots |-> IF i \in Own(p) THEN Unused ELSE file_lock[i]]
  /\ nr_locks' = nr_locks - Cardinality(Own(p))
  /\ revived' = IF Own(p) # {} THEN lock_revive \ {p} ELSE revived

do_close(p) == DropLocks(p) /\ UNCHANGED want

\* EXIT: do_unpause() if it hangs, then every file is closed.
do_exit(p) == DropLocks(p) /\ Proceeds(p)

\* UNPAUSE: a signal ends the wait.
do_unpause(p) ==
  /\ p \in Waiting
  /\ Proceeds(p)
  /\ UNCHANGED <<file_lock, nr_locks, revived>>

\* get_work(): the first REVIVING process tries again.
get_work ==
  \E p \in revived :
    /\ \A q \in revived : p <= q
    /\ SetLock(p, want[p], TRUE)

NewCall ==
  /\ revived = {}
  /\ \E p \in Procs :
       \/ /\ want[p] = Unused
          /\ \E r \in Regions :
               \/ Unlock(r)
               \/ \E t \in Types, wait \in BOOLEAN : SetLock(p, LockOf(p, t, r), wait)
       \/ want[p] = Unused /\ do_close(p)
       \/ do_exit(p)
       \/ do_unpause(p)

Next == get_work \/ NewCall

Spec == Init /\ [][Next]_vars

----------------------------------------------------------------------------
(* Properties.                                                             *)

\* Type invariant: every slot holds a lock with a region that is not empty.
TypeOK ==
  /\ file_lock \in [Slots -> AllLocks \cup {Unused}]
  /\ nr_locks \in 0..NR_LOCKS
  /\ want \in [Procs -> AllLocks \cup {Unused}]
  /\ revived \subseteq Waiting

\* Locks exclude: no byte that a process has locked for writing is locked by
\* another one, through all splits and retries (lock_op).
Exclusion ==
  \A i, j \in Used : ~InTheWay(file_lock[i], file_lock[j])

\* nr_locks is the number of slots in use; do_close() looks at the table only
\* when it is not 0, and a split looks for a slot only when it is not NR_LOCKS.
LocksCounted == nr_locks = Cardinality(Used)

\* The lock table after any sequence of splits, closes and retries: regions
\* are not empty, the count is right, and locks exclude each other.
TableSound == TypeOK /\ LocksCounted /\ Exclusion

\* When FS waits for a message, every process that waits for a lock has
\* another one's lock in its way: nobody was forgotten (lock_revive).
WaitersBlocked == revived = {} => \A p \in Waiting : Conflict(want[p])

\* Bytes that are locked: by whom and how
Held ==
  UNION {{[pid |-> file_lock[i].pid, type |-> file_lock[i].type, at |-> b] :
            b \in file_lock[i].first..file_lock[i].last} : i \in Used}

\* Locks that a clearing of r cuts in two
Splits(r) == {i \in Used : file_lock[i].first < r.first /\ r.last < file_lock[i].last}

\* Unlocking clears the bytes it names and no other, also where it splits
\* locks into slots the loop has still to look at (lock_op).
UnlockExact ==
  [][\A r \in Regions :
       Unlock(r) /\ nr_locks + Cardinality(Splits(r)) <= NR_LOCKS
         => Held' = {h \in Held : h.at < r.first \/ h.at > r.last}]_vars
=============================================================================
