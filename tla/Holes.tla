-------------------------------- MODULE Holes --------------------------------
(***************************************************************************)
(* Physical memory: the hole list of the memory manager (mm/alloc.c) and   *)
(* the calls that take memory and give it back, FORK, EXEC and EXIT.       *)
(*                                                                         *)
(* On the Atari ST (SHADOWING == 1) the processes of one program that were *)
(* forked share one home, where their text and data were loaded; each of   *)
(* them but one has a shadow, a block as long as the data.  When a process *)
(* leaves a program the kernel names the block to free (rmshadow() in      *)
(* kernel/stshadow.c): a shadow while there is one, the home with its text *)
(* after that.  MM serves one call at a time: a call is an action.         *)
(*                                                                         *)
(* EXEC of an A_SEP file that is in execution takes the text of the other  *)
(* process (find_share() in mm/exec.c), but rmshadow() knows nothing of    *)
(* it: the home of a process that shares is not freed, that of the text is.*)
(* The model ends there (astray); the properties hold until then.          *)
(***************************************************************************)
EXTENDS Integers, FiniteSets, Sequences, SequencesExt, FiniteSetsExt

CONSTANTS
  NR_HOLES,    \* slots of the hole table
  NR_PROCS,    \* slots of the process table
  Chunks,      \* what SYS_MEM reports, chunk after chunk
  Sizes,       \* bound: clicks of data of a program
  Texts        \* bound: clicks of text of a program

ASSUME HolesAssumption ==
  /\ NR_HOLES \in Nat \ {0}
  /\ NR_PROCS \in Nat \ {0}
  /\ NR_PROCS + Len(Chunks) <= NR_HOLES
  /\ Chunks \in Seq([base : Nat \ {0}, len : Nat \ {0}])
  /\ \A i, j \in DOMAIN Chunks :
       i # j => \/ Chunks[i].base + Chunks[i].len <= Chunks[j].base
                \/ Chunks[j].base + Chunks[j].len <= Chunks[i].base
  /\ Sizes \subseteq Nat \ {0}
  /\ Texts \subseteq Nat

VARIABLES
  hole,        \* the list from hole_head
  prog,        \* per program its home, with the text, the data, the shadows
  reported,    \* the number of chunks mem_init() has put on the list
  seg,         \* per program the file and mp_seg[T], text that may be shared
  panicked,
  astray       \* a home was freed whose text is not its own, or is in use

vars == <<hole, prog, seg, reported, panicked, astray>>

\* The files that can be executed; sep: separate I & D (A_SEP).
Files == [sep : BOOLEAN, text : Texts, data : Sizes]
NoFile == [sep |-> FALSE, text |-> 0, data |-> 0]

\* INIT is a program too; its home is not taken from the holes.
InitHome == 0

Init ==
  /\ hole = << >>
  /\ \E d \in Sizes :
       prog = [h \in {InitHome} |-> [text |-> 0, data |-> d, shadows |-> {}]]
  /\ seg = [h \in {InitHome} |-> [file |-> NoFile, base |-> h, len |-> 0]]
  /\ reported = 0
  /\ panicked = FALSE
  /\ astray = FALSE

----------------------------------------------------------------------------
(* alloc.c                                                                 *)

\* alloc_mem(): first fit.  The base that is returned, and the list then.
Fits(n) == {i \in DOMAIN hole : hole[i].len >= n}
FirstFit(n) == CHOOSE i \in Fits(n) : \A j \in Fits(n) : i <= j
Bite(i, n) ==
  IF hole[i].len = n THEN RemoveAt(hole, i)
  ELSE [hole EXCEPT ![i] = [base |-> @.base + n, len |-> @.len - n]]

\* Half of merge(): the hole at i absorbs its successor if they touch.
Absorb(s, i) ==
  IF i < Len(s) /\ s[i].base + s[i].len = s[i+1].base
  THEN [RemoveAt(s, i + 1) EXCEPT ![i].len = s[i].len + s[i+1].len]
  ELSE s

\* Mutant: one merge is enough.
merge_Once(s, i) == Absorb(s, i)
\* merge(): three holes that follow each other become one, two or three.
merge(s, i) ==
  LET t == Absorb(s, i)
  IN  Absorb(t, IF Len(t) < Len(s) THEN i ELSE i + 1)

\* free_mem() without its panic; the block goes before the first hole that is
\* not below it.
Before(s, base) == Cardinality({i \in DOMAIN s : \A j \in 1..i : s[j].base < base})
free_mem(s, base, n) ==
  LET k == Before(s, base)
  IN  IF n = 0 THEN s
      ELSE merge(InsertAt(s, k + 1, [base |-> base, len |-> n]), IF k = 0 THEN 1 ELSE k)

\* Mutant: the length of all holes together.
max_hole_Total == FoldSeq(LAMBDA h, n : h.len + n, 0, hole)
max_hole == Max({0} \cup {hole[i].len : i \in DOMAIN hole})

----------------------------------------------------------------------------
(* Calls.                                                                  *)

\* Put a block on the list s; this needs a free slot even if it merges.
Free(s, base, n) ==
  IF Len(s) = NR_HOLES
  THEN panicked' = TRUE /\ UNCHANGED hole
  ELSE hole' = free_mem(s, base, n) /\ UNCHANGED panicked

\* mem_init(): the next chunk is reported.
mem_init ==
  /\ reported < Len(Chunks)
  /\ reported' = reported + 1
  /\ Free(hole, Chunks[reported'].base, Chunks[reported'].len)
  /\ UNCHANGED <<prog, seg, astray>>

\* The addresses of the images; every process has one, a home or a shadow.
Images == DOMAIN prog \cup UNION {prog[h].shadows : h \in DOMAIN prog}
Procs == Cardinality(Images)

\* FORK: a shadow for one of the two.
do_fork(h) ==
  LET n == prog[h].data
      i == FirstFit(n)
  IN  /\ Procs < NR_PROCS
      /\ Fits(n) # {}
      /\ hole' = Bite(i, n)
      /\ prog' = [prog EXCEPT ![h].shadows = @ \cup {hole[i].base}]
      /\ UNCHANGED <<seg, reported, panicked, astray>>

\* rmshadow(): the blocks that it can name when a process leaves, and what
\* is left of the programs then.
\* Mutant: the whole image is freed, of a shadow too.
Freed_Whole(h) ==
  IF prog[h].shadows # {}
  THEN {[base |-> s, len |-> prog[h].data + prog[h].text] : s \in prog[h].shadows}
  ELSE {[base |-> seg[h].base, len |-> prog[h].data + seg[h].len]}
Freed(h) ==
  IF prog[h].shadows # {}
  THEN {[base |-> s, len |-> prog[h].data] : s \in prog[h].shadows}
  ELSE {[base |-> seg[h].base, len |-> prog[h].data + seg[h].len]}
Leave(h, b) ==
  IF prog[h].shadows # {} THEN [prog EXCEPT ![h].shadows = @ \ {b.base}]
  ELSE [g \in DOMAIN prog \ {h} |-> prog[g]]

\* The home of h is freed although its text is shared.
Home(h) == [base |-> h, len |-> prog[h].data + prog[h].text]
Stray(h) ==
  /\ prog[h].shadows = {}
  /\ Freed(h) # {Home(h)} \/ \E g \in DOMAIN seg \ {h} : seg[g].base = h

\* INIT stays.
Leaves(h) == h # InitHome \/ prog[h].shadows # {}

\* EXIT, or a signal that kills.
mm_exit(h) ==
  /\ Leaves(h)
  /\ \E b \in Freed(h) :
       /\ prog' = Leave(h, b)
       /\ Free(hole, b.base, b.len)
  /\ seg' = [g \in DOMAIN prog' |-> seg[g]]
  /\ astray' = Stray(h)
  /\ UNCHANGED reported

\* find_share(): the programs, but for the caller, that are A_SEP file f.
find_share(h, f) ==
  {g \in DOMAIN prog : /\ f.sep /\ seg[g].file = f
                       /\ g # h \/ prog[h].shadows # {}}

\* EXEC: the new image is allocated, without the text if that is shared, and
\* the block of the old one freed.
new_mem(h, f) ==
  LET sh == find_share(h, f)
      t == IF sh # {} THEN 0 ELSE f.text
      i == FirstFit(t + f.data)
      new == hole[i].base
  IN  /\ Leaves(h)
      /\ t + f.data <= max_hole
      /\ IF Fits(t + f.data) = {}
         THEN panicked' = TRUE /\ UNCHANGED <<hole, prog, seg, astray>>
         ELSE /\ \E b \in Freed(h) :
                   /\ prog' = [g \in DOMAIN Leave(h, b) \cup {new} |->
                                 IF g = new
                                 THEN [text |-> t, data |-> f.data, shadows |-> {}]
                                 ELSE Leave(h, b)[g]]
                   /\ Free(Bite(i, t + f.data), b.base, b.len)
              /\ \E T \in IF sh = {} THEN {[file |-> f, base |-> new, len |-> t]}
                         ELSE {seg[g] : g \in sh} :
                   seg' = [g \in DOMAIN prog' |-> IF g = new THEN T ELSE seg[g]]
              /\ astray' = Stray(h)
      /\ UNCHANGED reported

Call ==
  /\ reported = Len(Chunks)
  /\ \E h \in DOMAIN prog :
       \/ do_fork(h)
       \/ mm_exit(h)
       \/ \E f \in Files : new_mem(h, f)

Next == ~panicked /\ ~astray /\ (mem_init \/ Call)

Spec == Init /\ [][Next]_vars

----------------------------------------------------------------------------
(* Properties.                                                             *)

\* The blocks that the holes, and that the processes have
Holes == {hole[i] : i \in DOMAIN hole}
Blocks ==
  {[base |-> h, len |-> prog[h].text + prog[h].data] : h \in DOMAIN prog \ {InitHome}}
  \cup UNION {{[base |-> s, len |-> prog[h].data] : s \in prog[h].shadows} : h \in DOMAIN prog}
Clicks(b) == b.base .. b.base + b.len - 1
Memory == UNION {Clicks(Chunks[i]) : i \in 1..reported}

\* Type invariant: the holes are kept in the order of their addresses.
TypeOK ==
  /\ hole \in Seq([base : Nat \ {0}, len : Nat \ {0}])
  /\ Len(hole) <= NR_HOLES
  /\ \A i \in 1..Len(hole)-1 : hole[i].base < hole[i+1].base
  /\ \A h \in DOMAIN prog : prog[h] \in [text : Nat, data : Nat \ {0}, shadows : SUBSET Nat]
  /\ DOMAIN seg = DOMAIN prog
  /\ \A h \in DOMAIN seg : seg[h] \in [file : Files \cup {NoFile}, base : Nat, len : Nat]
  /\ reported \in 0..Len(Chunks)
  /\ panicked \in BOOLEAN

\* Through all splitting and merging every click belongs to one hole or to
\* one block of a process, and none is lost (alloc_mem, free_mem, rmshadow).
Conserved ==
  LET S == Holes \cup Blocks
  IN  /\ \A a, b \in S : a # b => Clicks(a) \cap Clicks(b) = {}
      /\ Holes \cap Blocks = {}
      /\ UNION {Clicks(b) : b \in S} = Memory

\* The list is sorted and fits its table, and no click is lost or given
\* twice, as long as no home has been freed whose text is shared.
MemorySound == ~astray => TypeOK /\ Conserved

\* FORK is refused for want of memory only when there is none: free clicks
\* in a row, of whatever history, are one hole (merge).  Until a home is
\* freed whose text is shared.
NoFalseRefusal ==
  ~astray => \A n \in Sizes : Fits(n) = {} =>
    ~ \E m \in Memory : \A k \in m..m+n-1 :
         k \in Memory /\ \A b \in Blocks : k \notin Clicks(b)

\* A table as long as the process table and the list of chunks together is
\* never full, and EXEC, which has dropped the old image when it allocates,
\* gets what max_hole() promised (alloc.c, exec.c).  Until a home is freed
\* whose text is shared; the model ends there.
NoPanic == ~panicked

\* Text that a process runs is in no hole.  Without SHADOWING exec.c frees it
\* only if "No other process shares the text segment"; with it rmshadow() names
\* the text to free whoever shares it, so the code does not keep this for A_SEP
\* files (HolesShare.cfg).
TextKept ==
  \A h \in DOMAIN seg, i \in DOMAIN hole : Clicks(seg[h]) \cap Clicks(hole[i]) = {}
=============================================================================
