------------------------- MODULE KernelSafetyProofs -------------------------
(***************************************************************************)
(* The theorems about Kernel that say who waits for whom and whose image   *)
(* is where: rendezvous, deadlocks of senders, interrupts, signals to MM   *)
(* and shadows.  They rest on the invariant of KernelProofs.               *)
(***************************************************************************)
EXTENDS KernelProofs

-----------------------------------------------------------------------------
(***************************************************************************)
(* Who waits for whom.                                                     *)
(***************************************************************************)
IsSending(s, p) == "SENDING" \in s.flags[p]
IsReceiving(s, p) == "RECEIVING" \in s.flags[p]
MMWaits(s) == IsReceiving(s, MM) /\ s.getfrom[MM] = ANY

\* A process in sendrec() waits for an answer of the process it sends to.
BothSame(s) ==
  \A p \in Proc : IsSending(s, p) /\ IsReceiving(s, p) => s.getfrom[p] = s.sendto[p]

\* Nobody is blocked sending to a process that would take the message.
Met(s) == \A p \in Proc : IsSending(s, p) => ~Accepts(s, s.sendto[p], p)

\* S is a set of processes that send to each other.
Ring(s, S) == S # {} /\ \A p \in S : IsSending(s, p) /\ s.sendto[p] \in S
NoRing(s) == \A S \in SUBSET Proc : ~Ring(s, S)

\* No task waits for an interrupt that is recorded as blocked.
NoneLost(s) ==
  \A t \in s.int_blocked :
    IsReceiving(s, t) /\ ~IsSending(s, t) => ~isrxhardware(s.getfrom[t])

\* MM is not waiting while there are signals to tell it about.
Told(s) == s.sig_procs > 0 => ~MMWaits(s)

Orderly(s) == BothSame(s) /\ Met(s) /\ NoRing(s) /\ NoneLost(s)

\* From s to t nobody begins to send or to receive, and nobody who goes on to
\* receive ends to send: no new wait.  New signals find MM at work.
Eases(s, t) ==
  /\ t.int_blocked \subseteq s.int_blocked
  /\ \A p \in Proc :
       /\ IsSending(t, p) => IsSending(s, p) /\ t.sendto[p] = s.sendto[p]
       /\ IsReceiving(t, p) => /\ IsReceiving(s, p) /\ t.getfrom[p] = s.getfrom[p]
                               /\ IsSending(s, p) => IsSending(t, p)
  /\ t.sig_procs > 0 => s.sig_procs > 0 \/ ~MMWaits(t)

\* Two changes by which nobody begins to wait, one after the other.
LEMMA EasesTrans ==
  ASSUME NEW s, NEW t, NEW u, Eases(s, t), Eases(t, u)
  PROVE  Eases(s, u)
BY ProcFacts DEF Eases, MMWaits

\* Where nobody begins to wait, no rendezvous is missed, no interrupt is lost
\* and no cycle of senders closes.
LEMMA EasesOrderly ==
  ASSUME NEW s \in Table, NEW t, Orderly(s), Eases(s, t)
  PROVE  Orderly(t) /\ (Told(s) => Told(t))
<1>1. BothSame(t) BY DEF Orderly, BothSame, Eases
<1>2. Met(t)
  <2>1. SUFFICES ASSUME NEW p \in Proc, IsSending(t, p), Accepts(t, t.sendto[p], p) PROVE FALSE
    BY DEF Met
  <2>2. IsSending(s, p) /\ t.sendto[p] = s.sendto[p] BY <2>1 DEF Eases
  <2>3. s.sendto[p] \in Proc BY DEF Table
  <2>4. Accepts(s, s.sendto[p], p)
    BY <2>1, <2>2, <2>3 DEF Accepts, Eases, IsSending, IsReceiving
  <2> QED BY <2>2, <2>4 DEF Orderly, Met
<1>3. NoRing(t)
  <2>1. ASSUME NEW S \in SUBSET Proc, Ring(t, S) PROVE Ring(s, S)
    BY <2>1 DEF Ring, Eases
  <2> QED BY <2>1 DEF Orderly, NoRing
<1>4. NoneLost(t)
  <2>1. s.int_blocked \subseteq Proc BY Kinds DEF Table
  <2> QED BY <2>1 DEF Orderly, NoneLost, Eases
<1>5. Told(s) => Told(t) BY ProcFacts DEF Told, Eases, MMWaits
<1> QED BY <1>1, <1>2, <1>3, <1>4, <1>5 DEF Orderly

-----------------------------------------------------------------------------
(***************************************************************************)
(* What the functions that only queue, stop, signal or shadow leave alone. *)
(***************************************************************************)
\* Who waits for whom is the same in s and t.
SameWaits(s, t) ==
  /\ t \in Table /\ t.getfrom = s.getfrom /\ t.sendto = s.sendto
  /\ t.int_blocked = s.int_blocked
  /\ \A x \in Proc : /\ IsSending(t, x) <=> IsSending(s, x)
                     /\ IsReceiving(t, x) <=> IsReceiving(s, x)

\* So is who lives, and where the images are.
SameImages(s, t) ==
  t.core = s.core /\ t.shadow = s.shadow /\ t.panic = s.panic /\ Live(t) = Live(s)

\* A change that leaves everybody waiting as before is one by which nobody
\* begins to wait, unless it raises sig_procs.
LEMMA SameEases ==
  ASSUME NEW s, NEW t, SameWaits(s, t), t.sig_procs > 0 => s.sig_procs > 0
  PROVE  Eases(s, t)
BY DEF SameWaits, Eases, IsSending, IsReceiving

\* Both kinds of sameness hold across two changes.
LEMMA SameTrans ==
  ASSUME NEW s, NEW t, NEW u
  PROVE  /\ SameWaits(s, t) /\ SameWaits(t, u) => SameWaits(s, u)
         /\ SameImages(s, t) /\ SameImages(t, u) => SameImages(s, u)
BY DEF SameWaits, SameImages, IsSending, IsReceiving

\* Two tables with the same flags have the same processes.
LEMMA SameLive ==
  ASSUME NEW s, NEW t,
         \A x \in User : "P_SLOT_FREE" \in t.flags[x] <=> "P_SLOT_FREE" \in s.flags[x]
  PROVE  Live(t) = Live(s)
BY DEF Live

\* ready(), unready() and pick_proc() change neither.
LEMMA QueuesSame ==
  ASSUME NEW s, NEW t, QueuesOnly(s, t)
  PROVE  SameWaits(s, t) /\ SameImages(s, t)
<1>1. Live(t) = Live(s) BY DEF QueuesOnly, Live
<1> QED BY <1>1 DEF QueuesOnly, SameWaits, SameImages, IsSending, IsReceiving

\* What setting flags, with unready(), leaves alone.
LEMMA BlockFrame ==
  ASSUME NEW s \in Table, NEW p \in Proc, NEW bits \in SUBSET Flag
  PROVE  LET t == Block(s, p, bits)
         IN  /\ Keeps(s, t) /\ t.getfrom = s.getfrom /\ t.sendto = s.sendto
             /\ t.flags = [s.flags EXCEPT ![p] = @ \cup bits]
<1> DEFINE r == IF s.flags[p] = {} THEN unready(s, p) ELSE s
           t == [r EXCEPT !.flags[p] = @ \cup bits]
<1>1. QueuesOnly(s, r)
  <2>1. QueuesOnly(s, s) BY DEF QueuesOnly
  <2> QED BY <2>1, UnreadyFrame
<1>2. Block(s, p, bits) = t BY DEF Block
<1> HIDE DEF r
<1>3. /\ Keeps(s, t) /\ t.getfrom = s.getfrom /\ t.sendto = s.sendto
      /\ t.flags = [s.flags EXCEPT ![p] = @ \cup bits]
  BY <1>1 DEF QueuesOnly, Keeps, Table
<1> QED BY <1>2, <1>3

\* What clearing flags, with ready(), leaves alone.
LEMMA ReleaseFrame ==
  ASSUME NEW s \in Table, NEW p \in Proc, NEW bits \in SUBSET Flag
  PROVE  LET t == Release(s, p, bits)
         IN  /\ Keeps(s, t)
             /\ t.flags = [s.flags EXCEPT ![p] = @ \ bits]
             /\ t.getfrom = [s.getfrom EXCEPT ![p] = IF "RECEIVING" \in bits THEN ANY ELSE @]
             /\ t.sendto = [s.sendto EXCEPT ![p] = IF "SENDING" \in bits THEN HARDWARE ELSE @]
<1> DEFINE r == Clear(s, p, bits)
           t == Release(s, p, bits)
<1>1. /\ Keeps(s, r)
      /\ r.flags = [s.flags EXCEPT ![p] = @ \ bits]
      /\ r.getfrom = [s.getfrom EXCEPT ![p] = IF "RECEIVING" \in bits THEN ANY ELSE @]
      /\ r.sendto = [s.sendto EXCEPT ![p] = IF "SENDING" \in bits THEN HARDWARE ELSE @]
  BY ClearFrame
<1>2. t = IF r.flags[p] = {} THEN ready(r, p) ELSE r BY DEF Release
<1> HIDE DEF r, t
<1>3. QueuesOnly(r, ready(r, p)) BY <1>1, ReadyFrame DEF Keeps
<1>4. CASE r.flags[p] = {}
  <2>1. t = ready(r, p) BY <1>2, <1>4
  <2> QED BY <1>1, <1>3, <2>1 DEF QueuesOnly, Keeps, t
<1>5. CASE r.flags[p] # {}
  <2>1. t = r BY <1>2, <1>5
  <2> QED BY <1>1, <2>1 DEF t
<1> QED BY <1>4, <1>5

\* Flags other than SENDING and RECEIVING tell nothing about the waits.
LEMMA OtherFlags ==
  ASSUME NEW s \in Table, NEW t, NEW p \in Proc, Keeps(s, t), t.getfrom = s.getfrom,
         t.sendto = s.sendto, NEW F, t.flags = [s.flags EXCEPT ![p] = F],
         "SENDING" \in F <=> "SENDING" \in s.flags[p],
         "RECEIVING" \in F <=> "RECEIVING" \in s.flags[p],
         "P_SLOT_FREE" \in F <=> "P_SLOT_FREE" \in s.flags[p]
  PROVE  SameWaits(s, t) /\ SameImages(s, t)
<1>1. t.flags[p] = F /\ \A x \in Proc \ {p} : t.flags[x] = s.flags[x] BY FlagsAt DEF Table
<1>2. \A x \in User : "P_SLOT_FREE" \in t.flags[x] <=> "P_SLOT_FREE" \in s.flags[x]
  BY <1>1, Kinds
<1>3. Live(t) = Live(s) BY <1>2, SameLive
<1> QED BY <1>1, <1>3 DEF Keeps, SameWaits, SameImages, IsSending, IsReceiving

\* The end of a signal releases SIG_PENDING at most.
LEMMA EndOneFrame ==
  ASSUME NEW s \in Table, NEW p \in User
  PROVE  LET t == EndOne(s, p)
         IN  SameWaits(s, t) /\ SameImages(s, t) /\ t.sig_procs = s.sig_procs
<1> DEFINE r == [s EXCEPT !.pendcount[p] = @ - 1]
           v == Release(r, p, {"SIG_PENDING"})
           t == EndOne(s, p)
<1>0. p \in Proc /\ s.pendcount[p] \in Nat BY UserKind DEF Table
<1>1. CASE s.pendcount[p] = 0
  <2>1. t = s BY <1>1 DEF EndOne
  <2> QED BY <2>1 DEF SameWaits, SameImages
<1>2. CASE s.pendcount[p] # 0
  <2>1. /\ r \in Table /\ r.flags = s.flags
        /\ r.getfrom = s.getfrom /\ r.sendto = s.sendto /\ r.sig_procs = s.sig_procs
        /\ r.int_blocked = s.int_blocked /\ SameImages(s, r)
    <3>1. s.pendcount[p] - 1 \in Nat BY <1>0, <1>2
    <3> QED BY <3>1 DEF Table, SameImages, Live
  <2>2. t = IF r.pendcount[p] = 0 THEN v ELSE r BY <1>2 DEF EndOne
  <2> HIDE DEF r
  <2>3. SameWaits(s, r) BY <2>1 DEF SameWaits, IsSending, IsReceiving
  <2>4. {"SIG_PENDING"} \in SUBSET Flag /\ "SIG_PENDING" # "RECEIVING" /\ "SIG_PENDING" # "SENDING"
    BY DEF Flag
  <2>5. /\ Keeps(r, v) /\ v.flags = [r.flags EXCEPT ![p] = @ \ {"SIG_PENDING"}]
        /\ v.getfrom = [r.getfrom EXCEPT ![p] = @] /\ v.sendto = [r.sendto EXCEPT ![p] = @]
    BY <1>0, <2>1, <2>4, ReleaseFrame
  <2> HIDE DEF v
  <2>6. v.getfrom = r.getfrom /\ v.sendto = r.sendto
    <3>1. r.getfrom \in [Proc -> Proc \cup {ANY}] /\ r.sendto \in [Proc -> Proc] BY <2>1 DEF Table
    <3> QED BY <3>1, <2>5
  <2>7. SameWaits(r, v) /\ SameImages(r, v) /\ v.sig_procs = r.sig_procs
    <3>1. v.flags = [r.flags EXCEPT ![p] = r.flags[p] \ {"SIG_PENDING"}] BY <2>5
    <3> QED BY <3>1, <1>0, <2>1, <2>5, <2>6, OtherFlags DEF Keeps
  <2>8. SameWaits(s, v) /\ SameImages(s, v) BY <2>1, <2>3, <2>7, SameTrans
  <2> QED BY <2>1, <2>2, <2>3, <2>7, <2>8 DEF t
<1> QED BY <1>1, <1>2

\* There is something to report exactly while sig_procs is positive.
LEMMA CanInformCount ==
  ASSUME NEW s \in Table, FlagsOK(s), SigCounted(s)
  PROVE  CanInform(s) <=> s.sig_procs > 0
<1> DEFINE P == {p \in User : "PENDING" \in s.flags[p]}
<1>1. IsFiniteSet(P) BY UserFinite, FS_Subset
<1>2. Cardinality(P) \in Nat /\ (Cardinality(P) = 0 <=> P = {})
  BY <1>1, FS_CardinalityType, FS_EmptySet
<1>3. s.sig_procs = Cardinality(P) BY DEF SigCounted
<1>4. CanInform(s) => P # {} BY InformedType
<1>5. P # {} => CanInform(s) BY SizeAssumption DEF CanInform, User, LOW_USER
<1> QED BY <1>2, <1>3, <1>4, <1>5

\* inform() wakes MM, if there is anything to report, and nobody else.
LEMMA InformEases ==
  ASSUME NEW s \in Table, FlagsOK(s), CanInform(s) <=> s.sig_procs > 0, IsReceiving(s, MM),
         ~IsSending(s, MM), s.getfrom[MM] = ANY
  PROVE  LET w == inform(s)
         IN  /\ Eases(s, w) /\ SameImages(s, w)
             /\ s.sig_procs > 0 => ~IsReceiving(w, MM)
<1> DEFINE w == inform(s)
<1>0. MM \in Proc BY ProcFacts
<1>1. CASE ~CanInform(s)
  <2>1. w = s BY <1>1 DEF inform
  <2> QED BY <1>1, <2>1 DEF Eases, SameImages
<1>2. CASE CanInform(s)
  <2> DEFINE p == Informed(s)
             s0 == [s EXCEPT !.sig_procs = @ - 1]
             t == Release(s0, MM, {"RECEIVING"})
             u == [t EXCEPT !.pending[p] = {}, !.flags[p] = @ \ {"PENDING"},
                            !.court[p] = @ + Cardinality(s.pending[p] \ {SIGSTKFLT})]
             v == IF SIGSTKFLT \in s.pending[p] THEN EndOne(u, p) ELSE u
  <2>1. p \in User /\ "PENDING" \in s.flags[p] BY <1>2, InformedType
  <2>2. w = pick_proc(v)
    <3>1. Accepts(s0, MM, HARDWARE) BY DEF Accepts, Table, IsReceiving, IsSending
    <3> QED BY <3>1, <1>2 DEF inform, mini_send
  <2> HIDE DEF p, w
  <2>3. p \in Proc /\ p # MM BY <2>1, UserKind
  <2>4. s.sig_procs > 0 /\ s.sig_procs \in Nat BY <1>2 DEF Table
  <2>5. /\ s0 \in Table /\ s0.flags = s.flags /\ s0.getfrom = s.getfrom /\ s0.sendto = s.sendto
        /\ s0.int_blocked = s.int_blocked /\ s0.core = s.core /\ s0.shadow = s.shadow
        /\ s0.panic = s.panic
    <3>1. s.sig_procs - 1 \in Nat BY <2>4
    <3> QED BY <3>1 DEF Table
  <2> HIDE DEF s0
  <2>6. /\ Keeps(s0, t) /\ t.flags = [s0.flags EXCEPT ![MM] = @ \ {"RECEIVING"}]
        /\ t.getfrom = [s0.getfrom EXCEPT ![MM] = ANY] /\ t.sendto = [s0.sendto EXCEPT ![MM] = @]
    <3>1. {"RECEIVING"} \in SUBSET Flag BY DEF Flag
    <3> QED BY <3>1, <1>0, <2>5, ReleaseFrame
  <2> HIDE DEF t
  <2>7. /\ t \in Table /\ t.flags[MM] = s.flags[MM] \ {"RECEIVING"}
        /\ \A x \in Proc \ {MM} : t.flags[x] = s.flags[x]
        /\ t.getfrom = s.getfrom /\ t.sendto = s.sendto /\ t.int_blocked = s.int_blocked
        /\ t.core = s.core /\ t.shadow = s.shadow /\ t.panic = s.panic
    <3>1. /\ s.flags \in [Proc -> SUBSET Flag] /\ s.getfrom \in [Proc -> Proc \cup {ANY}]
          /\ s.sendto \in [Proc -> Proc]
      BY DEF Table
    <3>2. t.getfrom = [s.getfrom EXCEPT ![MM] = ANY] /\ t.sendto = [s.sendto EXCEPT ![MM] = @]
          /\ t.flags = [s.flags EXCEPT ![MM] = @ \ {"RECEIVING"}]
      BY <2>5, <2>6
    <3>3. t.getfrom = s.getfrom /\ t.sendto = s.sendto BY <3>1, <3>2, <1>0
    <3>4. t.flags[MM] = s.flags[MM] \ {"RECEIVING"} /\ \A x \in Proc \ {MM} : t.flags[x] = s.flags[x]
      BY <3>1, <3>2, <1>0
    <3> QED BY <3>3, <3>4, <2>5, <2>6 DEF Keeps
  <2>8. /\ u \in Table /\ u.flags = [t.flags EXCEPT ![p] = @ \ {"PENDING"}]
        /\ u.getfrom = t.getfrom /\ u.sendto = t.sendto /\ u.int_blocked = t.int_blocked
        /\ u.core = t.core /\ u.shadow = t.shadow /\ u.panic = t.panic
    <3>1. IsFiniteSet(s.pending[p]) BY <2>1, PendingFinite
    <3>2. Cardinality(s.pending[p] \ {SIGSTKFLT}) \in Nat
      BY <3>1, FS_RemoveElement, FS_CardinalityType
    <3>3. t.court[p] \in Nat /\ t.court[p] + Cardinality(s.pending[p] \ {SIGSTKFLT}) \in Nat
      <4>1. t.court \in [User -> Nat] BY <2>7 DEF Table
      <4> QED BY <4>1, <2>1, <3>2
    <3>4. t \in Table BY <2>7
    <3> QED BY <3>3, <3>4, <2>1, <2>3 DEF Table
  <2> HIDE DEF u
  <2>9. \A x \in Proc : u.flags[x] = IF x = p THEN t.flags[x] \ {"PENDING"} ELSE t.flags[x]
    <3>1. t.flags \in [Proc -> SUBSET Flag] BY <2>7 DEF Table
    <3> QED BY <2>3, <2>8, <3>1
  <2>10. SameWaits(u, v) /\ SameImages(u, v)
    <3>1. SameWaits(u, u) /\ SameImages(u, u) BY <2>8 DEF SameWaits, SameImages
    <3> QED BY <3>1, <2>1, <2>8, EndOneFrame
  <2> HIDE DEF v
  <2>11. v \in Table BY <2>10 DEF SameWaits
  <2>12. SameWaits(u, w) /\ SameImages(u, w)
    BY <2>2, <2>10, <2>11, PickFrame, QueuesSame, SameTrans
  <2>13. Live(u) = Live(s)
    <3>1. \A x \in User : "P_SLOT_FREE" \in u.flags[x] <=> "P_SLOT_FREE" \in s.flags[x]
      BY <2>7, <2>9, Kinds
    <3> QED BY <3>1, SameLive
  <2>14. SameImages(s, w) BY <2>7, <2>8, <2>12, <2>13 DEF SameImages
  <2>15. ~IsReceiving(w, MM) BY <1>0, <2>3, <2>7, <2>9, <2>12 DEF SameWaits, IsReceiving
  <2>16. ASSUME NEW x \in Proc
         PROVE  /\ IsSending(w, x) <=> IsSending(s, x)
                /\ IsReceiving(w, x) <=> IsReceiving(s, x) /\ x # MM
    BY <2>7, <2>9, <2>12, <2>15 DEF SameWaits, IsReceiving, IsSending
  <2>17. w.getfrom = s.getfrom /\ w.sendto = s.sendto /\ w.int_blocked = s.int_blocked
    BY <2>7, <2>8, <2>12 DEF SameWaits
  <2>18. Eases(s, w) BY <2>4, <2>15, <2>16, <2>17 DEF Eases, MMWaits
  <2> QED BY <2>14, <2>15, <2>18 DEF w
<1> QED BY <1>1, <1>2

\* A kernel signal lets nobody wait who did not; if MM waits, it is told.
LEMMA CauseSigEases ==
  ASSUME NEW s, Good(s), NEW p \in User, "P_SLOT_FREE" \notin s.flags[p], NEW sig \in Sig
  PROVE  LET w == cause_sig(s, p, sig)
         IN  Eases(s, w) /\ SameImages(s, w)
<1> DEFINE w == cause_sig(s, p, sig)
           t == [s EXCEPT !.pending[p] = @ \cup {sig}, !.pendcount[p] = @ + 1]
           b == Block(t, p, {"PENDING", "SIG_PENDING"})
           u == [b EXCEPT !.sig_procs = @ + 1]
<1>0. /\ s \in Table /\ FlagsOK(s) /\ p \in Proc /\ MM \in Proc /\ p # MM /\ s.sig_procs \in Nat
      /\ {"PENDING", "SIG_PENDING"} \in SUBSET Flag
  BY UserKind, ProcFacts DEF Good, Table, Flag
<1>1. CASE sig \in s.pending[p]
  <2>1. w = s BY <1>1 DEF cause_sig
  <2> QED BY <2>1 DEF Eases, SameImages
<1>2. CASE sig \notin s.pending[p]
  <2>1. /\ t \in Table /\ t.flags = s.flags /\ t.getfrom = s.getfrom /\ t.sendto = s.sendto
        /\ t.int_blocked = s.int_blocked /\ t.sig_procs = s.sig_procs
        /\ t.core = s.core /\ t.shadow = s.shadow /\ t.panic = s.panic
    <3>1. s.pendcount[p] + 1 \in Nat BY <1>0 DEF Table
    <3> QED BY <3>1, <1>0 DEF Table
  <2>2. w = IF "PENDING" \in s.flags[p] THEN t
            ELSE IF "RECEIVING" \in u.flags[MM] /\ u.getfrom[MM] = ANY THEN inform(u) ELSE u
    BY <1>2 DEF cause_sig
  <2> HIDE DEF t, w
  <2>3. SameWaits(s, t) /\ SameImages(s, t)
    <3>1. Live(t) = Live(s) BY <2>1 DEF Live
    <3> QED BY <2>1, <3>1 DEF SameWaits, SameImages, IsSending, IsReceiving
  <2>4. /\ Keeps(t, b) /\ b.getfrom = t.getfrom /\ b.sendto = t.sendto
        /\ b.flags = [t.flags EXCEPT ![p] = @ \cup {"PENDING", "SIG_PENDING"}]
    BY <1>0, <2>1, BlockFrame
  <2> HIDE DEF b
  <2>5. SameWaits(t, b) /\ SameImages(t, b)
    <3>1. b.flags = [t.flags EXCEPT ![p] = t.flags[p] \cup {"PENDING", "SIG_PENDING"}] BY <2>4
    <3> QED BY <3>1, <1>0, <2>1, <2>4, OtherFlags
  <2>6. /\ u \in Table /\ u.flags = b.flags /\ u.getfrom = b.getfrom /\ u.sendto = b.sendto
        /\ u.int_blocked = b.int_blocked /\ u.sig_procs = s.sig_procs + 1
        /\ u.core = b.core /\ u.shadow = b.shadow /\ u.panic = b.panic
    <3>1. b \in Table /\ b.sig_procs = s.sig_procs /\ b.sig_procs + 1 \in Nat
      BY <1>0, <2>1, <2>4 DEF Keeps
    <3> QED BY <3>1 DEF Table
  <2> HIDE DEF u
  <2>7. SameWaits(b, u) /\ SameImages(b, u)
    <3>1. Live(u) = Live(b) BY <2>6 DEF Live
    <3> QED BY <2>6, <3>1 DEF SameWaits, SameImages, IsSending, IsReceiving
  <2>8. SameWaits(s, u) /\ SameImages(s, u) BY <2>3, <2>5, <2>7, SameTrans
  <2>9. CASE "PENDING" \in s.flags[p]
    <3>1. w = t BY <2>2, <2>9
    <3>2. Eases(s, t) BY <2>1, <2>3, SameEases
    <3> QED BY <3>1, <3>2, <2>3 DEF w
  <2>10. CASE "PENDING" \notin s.flags[p] /\ MMWaits(u)
    <3>1. w = inform(u) BY <2>2, <2>10 DEF MMWaits, IsReceiving
    <3>2. /\ u.flags[p] = s.flags[p] \cup {"PENDING", "SIG_PENDING"}
          /\ \A x \in Proc \ {p} : u.flags[x] = s.flags[x]
      <4>1. s.flags \in [Proc -> SUBSET Flag] BY <1>0 DEF Table
      <4> QED BY <4>1, <1>0, <2>1, <2>4, <2>6
    <3>3. FlagsOK(u)
      <4>1. u.getfrom = s.getfrom /\ u.sendto = s.sendto BY <2>1, <2>4, <2>6
      <4>2. ASSUME NEW x \in Proc
            PROVE  /\ x \notin User => u.flags[x] = s.flags[x]
                   /\ "SENDING" \in u.flags[x] <=> "SENDING" \in s.flags[x]
                   /\ "RECEIVING" \in u.flags[x] <=> "RECEIVING" \in s.flags[x]
                   /\ "P_SLOT_FREE" \in u.flags[x] => u.flags[x] = s.flags[x]
        BY <3>2
      <4> QED BY <4>1, <4>2, <1>0, FlagsSame
    <3>4. CanInform(u) /\ u.sig_procs > 0
      <4>1. p \in 0 .. NR_PROCS - 1 BY SizeAssumption DEF User, LOW_USER
      <4> QED BY <4>1, <3>2, <1>0, <2>6 DEF CanInform
    <3>5. ~IsSending(u, MM) BY <1>0, <3>3, <2>10 DEF FlagsOK, MMWaits, IsSending, IsReceiving
    <3>6. Eases(u, w) /\ SameImages(u, w) /\ ~IsReceiving(w, MM)
      BY <2>6, <2>10, <3>1, <3>3, <3>4, <3>5, InformEases DEF MMWaits
    <3>7. Eases(s, w)
      <4>1. w.int_blocked \subseteq s.int_blocked BY <2>8, <3>6 DEF Eases, SameWaits
      <4>2. ASSUME NEW x \in Proc
            PROVE  /\ IsSending(w, x) => IsSending(s, x) /\ w.sendto[x] = s.sendto[x]
                   /\ IsReceiving(w, x) => /\ IsReceiving(s, x) /\ w.getfrom[x] = s.getfrom[x]
                                           /\ IsSending(s, x) => IsSending(w, x)
        BY <2>8, <3>6 DEF Eases, SameWaits, IsSending, IsReceiving
      <4> QED BY <4>1, <4>2, <3>6 DEF Eases, MMWaits
    <3> QED BY <3>6, <3>7, <2>8, SameTrans DEF w
  <2>11. CASE "PENDING" \notin s.flags[p] /\ ~MMWaits(u)
    <3>1. w = u BY <2>2, <2>11 DEF MMWaits, IsReceiving
    <3>2. Eases(s, u)
      BY <2>8, <2>11 DEF Eases, SameWaits, IsSending, IsReceiving, MMWaits
    <3> QED BY <3>1, <3>2, <2>8 DEF w
  <2> QED BY <2>9, <2>10, <2>11
<1> QED BY <1>1, <1>2

-----------------------------------------------------------------------------
(***************************************************************************)
(* Shadowing and the kernel calls: nobody begins to wait.                  *)
(***************************************************************************)
\* Images move, at most.
Moves(s, t) ==
  /\ t \in Table /\ t.flags = s.flags /\ t.getfrom = s.getfrom /\ t.sendto = s.sendto
  /\ t.int_blocked = s.int_blocked /\ t.sig_procs = s.sig_procs /\ t.core = s.core

\* Moving images makes nobody wait and nobody appear or vanish.
LEMMA MovesEases ==
  ASSUME NEW s, NEW t, Moves(s, t)
  PROVE  Eases(s, t) /\ Live(t) = Live(s)
BY DEF Moves, Eases, IsSending, IsReceiving, Live

\* What writing p_shadow, with ready() or unready(), leaves alone.
LEMMA SetShadowFrame ==
  ASSUME NEW s \in Table, NEW q \in User, NEW v \in Slots \cup {0}
  PROVE  LET t == SetShadow(s, q, v)
         IN  Moves(s, t) /\ t.panic = s.panic /\ t.shadow = [s.shadow EXCEPT ![q] = v]
<1> DEFINE a == IF s.flags[q] = {} THEN unready(s, q) ELSE s
           u == [a EXCEPT !.shadow[q] = v]
           t == SetShadow(s, q, v)
<1>0. q \in Proc BY UserKind
<1>1. t = IF s.flags[q] = {} THEN ready(u, q) ELSE u BY DEF SetShadow
<1>2. QueuesOnly(s, a)
  <2>1. QueuesOnly(s, s) BY DEF QueuesOnly
  <2> QED BY <2>1, <1>0, UnreadyFrame
<1> HIDE DEF a, t
<1>3. Moves(s, u) /\ u.panic = s.panic /\ u.shadow = [s.shadow EXCEPT ![q] = v]
  BY <1>2 DEF QueuesOnly, Moves, Table
<1> HIDE DEF u
<1>4. QueuesOnly(u, ready(u, q)) BY <1>0, <1>3, ReadyFrame DEF Moves
<1>5. Moves(s, ready(u, q)) /\ ready(u, q).panic = s.panic /\ ready(u, q).shadow = u.shadow
  BY <1>3, <1>4 DEF Moves, QueuesOnly
<1> QED BY <1>1, <1>3, <1>5 DEF t

\* Of the processes that share p's address the first moves in, if p itself was
\* in place.
LEMMA RmShadowFrame ==
  ASSUME NEW s \in Table, NEW p \in User
  PROVE  LET t == rmshadow(s, p, FALSE)
             f == First(Sharers(s, p))
         IN  /\ Moves(s, t)
             /\ s.shadow[p] # 0 => t.panic = s.panic /\ t.shadow = [s.shadow EXCEPT ![p] = 0]
             /\ s.shadow[p] = 0 /\ Sharers(s, p) = {} => t.panic = s.panic /\ t.shadow = s.shadow
             /\ s.shadow[p] = 0 /\ Sharers(s, p) # {} =>
                  /\ f \in Sharers(s, p)
                  /\ s.shadow[f] # 0 => t.panic = s.panic /\ t.shadow = [s.shadow EXCEPT ![f] = 0]
<1> DEFINE t == rmshadow(s, p, FALSE)
           f == First(Sharers(s, p))
<1>0. 0 \in Slots \cup {0} /\ Sharers(s, p) \in SUBSET User BY DEF Sharers, Live
<1>1. CASE s.shadow[p] # 0
  <2>1. t = [s EXCEPT !.shadow[p] = 0] BY <1>1 DEF rmshadow
  <2> HIDE DEF t
  <2>2. Moves(s, t) /\ t.panic = s.panic /\ t.shadow = [s.shadow EXCEPT ![p] = 0]
    BY <2>1 DEF Moves, Table
  <2> QED BY <1>1, <2>2 DEF t
<1>2. CASE s.shadow[p] = 0 /\ Sharers(s, p) = {}
  <2>1. t = s BY <1>2 DEF rmshadow
  <2> QED BY <1>2, <2>1 DEF Moves
<1>3. CASE s.shadow[p] = 0 /\ Sharers(s, p) # {}
  <2>1. f \in Sharers(s, p) /\ f \in User BY <1>0, <1>3, FirstType
  <2>2. t = IF s.shadow[f] = 0 THEN [s EXCEPT !.panic = "no shadow?"] ELSE SetShadow(s, f, 0)
    BY <1>3 DEF rmshadow
  <2> HIDE DEF f, t
  <2>3. Moves(s, SetShadow(s, f, 0)) /\ SetShadow(s, f, 0).panic = s.panic
        /\ SetShadow(s, f, 0).shadow = [s.shadow EXCEPT ![f] = 0]
    BY <1>0, <2>1, SetShadowFrame
  <2>4. Moves(s, [s EXCEPT !.panic = "no shadow?"]) BY DEF Moves, Table, Panic
  <2> QED BY <1>3, <2>1, <2>2, <2>3, <2>4 DEF t, f
<1> QED BY <1>1, <1>2, <1>3

\* p and the process in place change places.
LEMMA UnShadowFrame ==
  ASSUME NEW s \in Table, NEW p \in User
  PROVE  LET t == unshadow(s, p)
             owners == {q \in Sharers(s, p) : s.shadow[q] = 0}
             q == First(owners)
         IN  /\ Moves(s, t)
             /\ owners # {} => /\ q \in owners /\ t.panic = s.panic
                               /\ t.shadow = [s.shadow EXCEPT ![q] = s.shadow[p], ![p] = 0]
<1> DEFINE w == unshadow(s, p)
           owners == {q \in Sharers(s, p) : s.shadow[q] = 0}
           q == First(owners)
           t == unready(s, p)
           u == IF s.flags[q] = {} THEN unready(t, q) ELSE t
           e == [u EXCEPT !.shadow[q] = s.shadow[p], !.shadow[p] = 0]
           v == ready(e, p)
<1>0. p \in Proc /\ owners \in SUBSET User BY UserKind DEF Sharers, Live
<1>1. CASE owners = {}
  <2>1. w = [s EXCEPT !.panic = "only shadow(s)"] BY <1>1 DEF unshadow
  <2>2. Moves(s, w) BY <2>1 DEF Moves, Table, Panic
  <2> QED BY <1>1, <2>2
<1>2. CASE owners # {}
  <2>1. q \in owners /\ q \in User /\ q \in Proc BY <1>0, <1>2, FirstType, UserKind
  <2>2. w = IF s.flags[q] = {} THEN ready(v, q) ELSE v BY <1>2 DEF unshadow
  <2> HIDE DEF q, w, owners
  <2>3. QueuesOnly(s, t) BY <1>0, UnreadyFrame
  <2> HIDE DEF t
  <2>4. t \in Table BY <2>3 DEF QueuesOnly
  <2>5. QueuesOnly(t, unready(t, q)) /\ QueuesOnly(t, t) BY <2>1, <2>4, UnreadyFrame DEF QueuesOnly
  <2>6. QueuesOnly(s, u) BY <2>3, <2>5 DEF QueuesOnly
  <2> HIDE DEF u
  <2>7. Moves(s, e) /\ e.panic = s.panic
        /\ e.shadow = [s.shadow EXCEPT ![q] = s.shadow[p], ![p] = 0]
    <3>1. s.shadow[p] \in Slots \cup {0} BY DEF Table
    <3>2. u \in Table /\ u.shadow = s.shadow BY <2>6 DEF QueuesOnly
    <3>3. e \in Table /\ e.shadow = [u.shadow EXCEPT ![q] = s.shadow[p], ![p] = 0]
          /\ e.flags = u.flags /\ e.getfrom = u.getfrom /\ e.sendto = u.sendto
          /\ e.int_blocked = u.int_blocked /\ e.sig_procs = u.sig_procs /\ e.core = u.core
          /\ e.panic = u.panic
      BY <3>1, <3>2, <2>1 DEF Table
    <3> HIDE DEF e
    <3> QED BY <3>2, <3>3, <2>6 DEF QueuesOnly, Moves
  <2> HIDE DEF e
  <2>8. QueuesOnly(e, v) BY <1>0, <2>7, ReadyFrame DEF Moves
  <2> HIDE DEF v
  <2>9. QueuesOnly(v, ready(v, q)) BY <2>1, <2>8, ReadyFrame DEF QueuesOnly
  <2>10. QueuesOnly(e, w)
    <3>1. CASE s.flags[q] = {} BY <3>1, <2>2, <2>8, <2>9 DEF QueuesOnly
    <3>2. CASE s.flags[q] # {} BY <3>2, <2>2, <2>8
    <3> QED BY <3>1, <3>2
  <2>11. Moves(s, w) /\ w.panic = s.panic
         /\ w.shadow = [s.shadow EXCEPT ![q] = s.shadow[p], ![p] = 0]
    BY <2>7, <2>10 DEF QueuesOnly, Moves
  <2> QED BY <2>1, <2>11 DEF w, q, owners
<1> QED BY <1>1, <1>2

\* The next user runs; nothing else changes.
LEMMA SchedFrame ==
  ASSUME NEW s \in Table
  PROVE  QueuesOnly(s, sched(s))
<1> DEFINE t == [s EXCEPT !.rdy[USER_Q] = Append(UnlinkAt(@, 1), Head(@))]
<1>1. CASE s.rdy[USER_Q] = << >>
  BY <1>1 DEF sched, QueuesOnly
<1>2. CASE s.rdy[USER_Q] # << >>
  <2>0. sched(s) = pick_proc(t) BY <1>2 DEF sched
  <2>1. USER_Q \in Queue /\ s.rdy[USER_Q] \in Seq(Proc) BY DEF Queue, Table
  <2>2. 1 \in 1 .. Len(s.rdy[USER_Q]) /\ Head(s.rdy[USER_Q]) \in Proc BY <1>2, <2>1
  <2>3. UnlinkAt(s.rdy[USER_Q], 1) \in Seq(Proc) BY <2>1, <2>2, UnlinkAtType
  <2>4. Append(UnlinkAt(s.rdy[USER_Q], 1), Head(s.rdy[USER_Q])) \in Seq(Proc) BY <2>2, <2>3
  <2>5. QueuesOnly(s, t) BY <2>1, <2>4 DEF Table, QueuesOnly
  <2> HIDE DEF t
  <2>6. QueuesOnly(t, pick_proc(t)) BY <2>5, PickFrame DEF QueuesOnly
  <2> QED BY <2>0, <2>5, <2>6 DEF QueuesOnly
<1> QED BY <1>1, <1>2

\* do_trace() makes nobody wait and moves no image.
LEMMA TraceFrame ==
  ASSUME NEW s \in Table, NEW p \in User, NEW request
  PROVE  LET w == do_trace(s, p, request)
         IN  Eases(s, w) /\ SameImages(s, w)
<1> DEFINE b == Block(s, p, {"P_STOP"})
           r == Release(s, p, {"P_STOP"})
           w == do_trace(s, p, request)
<1>0. p \in Proc /\ {"P_STOP"} \in SUBSET Flag /\ Eases(s, s) /\ SameImages(s, s)
  BY UserKind DEF Flag, Eases, SameImages
<1>1. /\ Keeps(s, b) /\ b.getfrom = s.getfrom /\ b.sendto = s.sendto
      /\ b.flags = [s.flags EXCEPT ![p] = s.flags[p] \cup {"P_STOP"}]
  BY <1>0, BlockFrame
<1>2. /\ Keeps(s, r) /\ r.getfrom = [s.getfrom EXCEPT ![p] = @]
      /\ r.sendto = [s.sendto EXCEPT ![p] = @]
      /\ r.flags = [s.flags EXCEPT ![p] = s.flags[p] \ {"P_STOP"}]
  BY <1>0, ReleaseFrame
<1>3. w = IF "P_SLOT_FREE" \in s.flags[p] THEN s ELSE IF request = "T_STOP" THEN b ELSE r
  BY DEF do_trace
<1> HIDE DEF b, r, w
<1>4. r.getfrom = s.getfrom /\ r.sendto = s.sendto
  <2>1. s.getfrom \in [Proc -> Proc \cup {ANY}] /\ s.sendto \in [Proc -> Proc] BY DEF Table
  <2> QED BY <2>1, <1>2
<1>5. SameWaits(s, b) /\ SameImages(s, b) BY <1>0, <1>1, OtherFlags
<1>6. SameWaits(s, r) /\ SameImages(s, r) BY <1>0, <1>2, <1>4, OtherFlags
<1>7. Eases(s, b) /\ Eases(s, r) BY <1>1, <1>2, <1>5, <1>6, SameEases DEF Keeps
<1> QED BY <1>0, <1>3, <1>5, <1>6, <1>7 DEF w

\* do_endsig() makes nobody wait and moves no image.
LEMMA EndSigFrame ==
  ASSUME NEW s \in Table, NEW p \in User, s.court[p] > 0
  PROVE  LET w == do_endsig(s, p)
         IN  Eases(s, w) /\ SameImages(s, w)
<1> DEFINE r == [s EXCEPT !.court[p] = @ - 1]
           w == EndOne(r, p)
<1>1. s.court[p] \in Nat /\ s.court[p] - 1 \in Nat
  <2>1. s.court[p] \in Nat BY DEF Table
  <2> QED BY <2>1
<1>2. /\ r \in Table /\ r.flags = s.flags /\ r.getfrom = s.getfrom /\ r.sendto = s.sendto
      /\ r.int_blocked = s.int_blocked /\ r.sig_procs = s.sig_procs /\ SameImages(s, r)
  BY <1>1 DEF Table, SameImages, Live
<1>3. do_endsig(s, p) = w BY DEF do_endsig
<1> HIDE DEF r
<1>4. SameWaits(r, w) /\ SameImages(r, w) /\ w.sig_procs = r.sig_procs BY <1>2, EndOneFrame
<1> HIDE DEF w
<1>5. SameWaits(s, r) BY <1>2 DEF SameWaits, IsSending, IsReceiving
<1>6. SameWaits(s, w) /\ SameImages(s, w) BY <1>2, <1>4, <1>5, SameTrans
<1>7. Eases(s, w) BY <1>2, <1>4, <1>6, SameEases
<1> QED BY <1>3, <1>6, <1>7

\* A process that is released from receive() waits no longer.
LEMMA ReleaseEases ==
  ASSUME NEW s \in Table, NEW p \in Proc
  PROVE  LET w == Release(s, p, {"RECEIVING"})
         IN  Eases(s, w) /\ SameImages(s, w)
<1> DEFINE w == Release(s, p, {"RECEIVING"})
<1>0. {"RECEIVING"} \in SUBSET Flag BY DEF Flag
<1>1. /\ Keeps(s, w) /\ w.flags = [s.flags EXCEPT ![p] = @ \ {"RECEIVING"}]
      /\ w.getfrom = [s.getfrom EXCEPT ![p] = ANY] /\ w.sendto = [s.sendto EXCEPT ![p] = @]
  BY <1>0, ReleaseFrame
<1> HIDE DEF w
<1>2. /\ w.flags[p] = s.flags[p] \ {"RECEIVING"}
      /\ \A x \in Proc \ {p} : w.flags[x] = s.flags[x] /\ w.getfrom[x] = s.getfrom[x]
      /\ \A x \in Proc : w.sendto[x] = s.sendto[x]
  <2>1. /\ s.flags \in [Proc -> SUBSET Flag] /\ s.getfrom \in [Proc -> Proc \cup {ANY}]
        /\ s.sendto \in [Proc -> Proc]
    BY DEF Table
  <2> QED BY <2>1, <1>1
<1>3. Live(w) = Live(s)
  <2>1. \A x \in User : "P_SLOT_FREE" \in w.flags[x] <=> "P_SLOT_FREE" \in s.flags[x]
    BY <1>2, Kinds
  <2> QED BY <2>1, SameLive
<1>4. Eases(s, w) BY <1>1, <1>2 DEF Keeps, Eases, IsSending, IsReceiving
<1> QED BY <1>1, <1>3, <1>4 DEF Keeps, SameImages, w

\* do_exec() makes nobody wait and moves no image.
LEMMA ExecEases ==
  ASSUME NEW s, Good(s), NEW p \in User, "P_SLOT_FREE" \notin s.flags[p], NEW traced \in BOOLEAN
  PROVE  LET w == do_exec(s, p, traced)
         IN  Eases(s, w) /\ SameImages(s, w)
<1> DEFINE t == IF traced THEN cause_sig(s, p, SIGTRAP) ELSE s
           w == Release(t, p, {"RECEIVING"})
<1>0. do_exec(s, p, traced) = w /\ p \in Proc /\ SIGTRAP \in Sig
  BY UserKind, SigAssumption DEF do_exec
<1>1. t \in Table /\ Eases(s, t) /\ SameImages(s, t)
  <2>1. CASE traced
    <3>1. t = cause_sig(s, p, SIGTRAP) BY <2>1
    <3>2. Good(t) BY <3>1, <1>0, CauseSig
    <3>3. Eases(s, t) /\ SameImages(s, t) BY <3>1, <1>0, CauseSigEases
    <3> QED BY <3>2, <3>3 DEF Good
  <2>2. CASE ~traced
    <3>1. t = s BY <2>2
    <3> QED BY <3>1 DEF Good, Eases, SameImages
  <2> QED BY <2>1, <2>2
<1> HIDE DEF t
<1>2. Eases(t, w) /\ SameImages(t, w) BY <1>0, <1>1, ReleaseEases
<1> HIDE DEF w
<1> QED BY <1>0, <1>1, <1>2, EasesTrans, SameTrans

\* XIT: nobody but p is disturbed, and p is gone.
LEMMA XitFrame ==
  ASSUME NEW s, Good(s), NEW p \in User, "P_SLOT_FREE" \notin s.flags[p]
  PROVE  LET w == do_xit(s, p, FALSE)
             t == rmshadow(IF s.flags[p] = {} THEN unready(s, p) ELSE s, p, FALSE)
         IN  /\ Eases(s, w) /\ Live(w) = Live(s) \ {p}
             /\ w.core = [s.core EXCEPT ![p] = 1] /\ w.shadow = t.shadow /\ w.panic = t.panic
             /\ \A x \in User \ {p} : w.flags[x] = s.flags[x]
<1> DEFINE a == IF s.flags[p] = {} THEN unready(s, p) ELSE s
           t == rmshadow(a, p, FALSE)
           u == IF "SENDING" \in s.flags[p]
                THEN [t EXCEPT !.callerq = [d \in Proc |-> Unlink(@[d], p)]] ELSE t
           w == do_xit(s, p, FALSE)
<1>0. s \in Table /\ p \in Proc /\ s.sig_procs \in Nat BY UserKind DEF Good, Table
<1>1. w = [Clear(u, p, Flag) EXCEPT
                !.sig_procs = IF "PENDING" \in s.flags[p] THEN @ - 1 ELSE @,
                !.pending[p] = {}, !.pendcount[p] = 0, !.court[p] = 0,
                !.core[p] = 1, !.flags[p] = {"P_SLOT_FREE"}]
  BY DEF do_xit
<1> HIDE DEF w
<1>2. QueuesOnly(s, a)
  <2>1. QueuesOnly(s, s) BY <1>0 DEF QueuesOnly
  <2> QED BY <2>1, <1>0, UnreadyFrame
<1> HIDE DEF a
<1>3. Moves(a, t) BY <1>2, RmShadowFrame DEF QueuesOnly
<1> HIDE DEF t
<1>4. Moves(s, t) BY <1>2, <1>3 DEF QueuesOnly, Moves
<1>5. /\ u.flags = s.flags /\ u.getfrom = s.getfrom /\ u.sendto = s.sendto
      /\ u.int_blocked = s.int_blocked /\ u.sig_procs = s.sig_procs /\ u.core = s.core
      /\ u.shadow = t.shadow /\ u.panic = t.panic
      /\ u = [t EXCEPT !.callerq = u.callerq]
  BY <1>4 DEF Moves, Table
<1> HIDE DEF u
<1> DEFINE cq == u.callerq
<1>6. u = [t EXCEPT !.callerq = cq] BY <1>5
<1> HIDE DEF cq
<1>7. t \in Table BY <1>4 DEF Moves
<1>8. /\ w.flags = [[u.flags EXCEPT ![p] = @ \ Flag] EXCEPT ![p] = {"P_SLOT_FREE"}]
      /\ w.getfrom = [u.getfrom EXCEPT ![p] = ANY]
      /\ w.sendto = [u.sendto EXCEPT ![p] = HARDWARE] /\ w.int_blocked = u.int_blocked
      /\ w.sig_procs = (IF "PENDING" \in s.flags[p] THEN u.sig_procs - 1 ELSE u.sig_procs)
      /\ w.core = [u.core EXCEPT ![p] = 1] /\ w.shadow = u.shadow /\ w.panic = u.panic
  <2>1. "RECEIVING" \in Flag /\ "SENDING" \in Flag BY DEF Flag
  <2> QED BY <2>1, <1>1, <1>6, <1>7 DEF Clear, Table
<1>9. /\ w.flags[p] = {"P_SLOT_FREE"}
      /\ \A x \in Proc \ {p} : /\ w.flags[x] = s.flags[x] /\ w.getfrom[x] = s.getfrom[x]
                               /\ w.sendto[x] = s.sendto[x]
  <2>1. /\ s.flags \in [Proc -> SUBSET Flag] /\ s.getfrom \in [Proc -> Proc \cup {ANY}]
        /\ s.sendto \in [Proc -> Proc]
    BY <1>0 DEF Table
  <2> QED BY <2>1, <1>0, <1>5, <1>8
<1>10. Live(w) = Live(s) \ {p} BY <1>9, Kinds DEF Live
<1>11. Eases(s, w) BY <1>0, <1>5, <1>8, <1>9 DEF Eases, IsSending, IsReceiving
<1>12. \A x \in User \ {p} : w.flags[x] = s.flags[x] BY <1>9, Kinds
<1> QED BY <1>5, <1>8, <1>10, <1>11, <1>12 DEF w, t, a

\* FRESH moves images only.
LEMMA FreshFrame ==
  ASSUME NEW s \in Table, NEW p \in User, NEW v \in Slots
  PROVE  LET w == do_fresh(s, p, v, FALSE)
             t == rmshadow(s, p, FALSE)
         IN  /\ Eases(s, w) /\ Live(w) = Live(s) /\ w.core = [s.core EXCEPT ![p] = v]
             /\ w.shadow = t.shadow /\ w.panic = t.panic /\ w.flags = s.flags
<1> DEFINE t == rmshadow(s, p, FALSE)
           w == [t EXCEPT !.core[p] = v]
<1>1. do_fresh(s, p, v, FALSE) = w BY DEF do_fresh
<1>2. Moves(s, t) BY RmShadowFrame
<1> HIDE DEF t
<1>3. /\ w.flags = t.flags /\ w.getfrom = t.getfrom /\ w.sendto = t.sendto
      /\ w.int_blocked = t.int_blocked /\ w.sig_procs = t.sig_procs
      /\ w.core = [t.core EXCEPT ![p] = v] /\ w.shadow = t.shadow /\ w.panic = t.panic
  BY <1>2 DEF Moves, Table
<1> HIDE DEF w
<1>4. Eases(s, w) /\ Live(w) = Live(s)
  BY <1>2, <1>3 DEF Moves, Eases, IsSending, IsReceiving, Live
<1> QED BY <1>1, <1>2, <1>3, <1>4 DEF Moves, t

\* A tick moves images at most, and the ones it exchanges are the first
\* shadow's, which is ready, and its owner's.
LEMMA TickEases ==
  ASSUME NEW s, Good(s), Settled(s), NEW p \in User \cup {IDLE},
         p \in User => "P_SLOT_FREE" \notin s.flags[p], NEW sig \in Sig,
         NEW expired \in BOOLEAN, NEW flip \in BOOLEAN
  PROVE  LET w == do_clocktick(s, p, sig, expired, flip)
         IN  /\ Eases(s, w) /\ Stays(s, w)
             /\ \/ SameImages(s, w)
                \/ \E u \in Table : \E h \in Live(s) : SameImages(s, u) /\ s.shadow[h] # 0 /\ w = unshadow(u, h)
<1> DEFINE t == IF p = IDLE THEN s ELSE cause_sig(s, p, sig)
           u == IF expired THEN sched(t) ELSE t
           h == Head(u.rdy[SHADOW_Q])
           w == do_clocktick(s, p, sig, expired, flip)
<1>0. s \in Table /\ Eases(s, s) /\ SameImages(s, s) /\ Stays(s, s)
  BY DEF Good, Eases, SameImages, Stays
<1>1. w = IF flip /\ u.rdy[SHADOW_Q] # << >> THEN unshadow(u, h) ELSE u
  BY DEF do_clocktick
<1>2. Good(t) /\ Eases(s, t) /\ SameImages(s, t) /\ Stays(s, t)
  <2>1. CASE p = IDLE
    <3>1. t = s BY <2>1
    <3> QED BY <3>1, <1>0
  <2>2. CASE p # IDLE
    <3>1. t = cause_sig(s, p, sig) BY <2>2
    <3>2. p \in User BY <2>2
    <3>3. Good(cause_sig(s, p, sig)) /\ Stays(s, cause_sig(s, p, sig)) BY <3>2, CauseSig
    <3>4. Eases(s, cause_sig(s, p, sig)) /\ SameImages(s, cause_sig(s, p, sig)) BY <3>2, CauseSigEases
    <3> QED BY <3>1, <3>3, <3>4
  <2> QED BY <2>1, <2>2
<1> HIDE DEF t, w
<1>3. Good(u) /\ Eases(s, u) /\ SameImages(s, u) /\ Stays(s, u)
  <2>1. CASE expired
    <3>1. u = sched(t) BY <2>1
    <3>2. Good(sched(t)) /\ QueuesOnly(t, sched(t)) BY <1>2, SchedGood, SchedFrame DEF Good
    <3>3. SameWaits(t, sched(t)) /\ SameImages(t, sched(t)) BY <3>2, QueuesSame
    <3>4. Eases(t, sched(t)) BY <3>2, <3>3, SameEases DEF QueuesOnly
    <3>5. Stays(s, sched(t)) BY <3>2, <1>2 DEF QueuesOnly, Stays
    <3> QED BY <3>1, <3>2, <3>3, <3>4, <3>5, <1>2, EasesTrans, SameTrans
  <2>2. CASE ~expired
    <3>1. u = t BY <2>2
    <3> QED BY <3>1, <1>2
  <2> QED BY <2>1, <2>2
<1> HIDE DEF u
<1>4. CASE flip /\ u.rdy[SHADOW_Q] # << >>
  <2>1. w = unshadow(u, h) BY <1>1, <1>4
  <2>2. u \in Table /\ Queued(u, Runnable(u)) /\ SHADOW_Q \in Queue /\ Runnable(u) \in SUBSET Proc
    BY <1>3 DEF Good, Queue, Runnable
  <2>3. h \in Runnable(u) /\ QueueOf(u, h) = SHADOW_Q BY <1>4, <2>2, HeadQueued
  <2> HIDE DEF h
  <2>4. h \in User /\ u.shadow[h] # 0
    BY <2>3 DEF QueueOf, TASK_Q, SERVER_Q, USER_Q, SHADOW_Q, isshadowp
  <2>5. h \in Live(s) /\ s.shadow[h] # 0
    <3>1. h \in Live(u) BY <2>3, <2>4 DEF Live, Runnable
    <3> QED BY <3>1, <2>4, <1>3 DEF SameImages
  <2>6. Moves(u, w) BY <2>1, <2>2, <2>4, UnShadowFrame
  <2>7. Eases(s, w) BY <2>6, <1>3, MovesEases, EasesTrans
  <2>8. Stays(s, w) BY <2>6, <1>3 DEF Moves, Stays
  <2> QED BY <2>1, <2>2, <2>5, <2>7, <2>8, <1>3 DEF w
<1>5. CASE ~(flip /\ u.rdy[SHADOW_Q] # << >>)
  <2>1. w = u BY <1>1, <1>5
  <2> QED BY <2>1, <1>3 DEF w
<1> QED BY <1>4, <1>5

-----------------------------------------------------------------------------
(***************************************************************************)
(* The deadlock check of mini_send().                                      *)
(***************************************************************************)
\* One step along p_sendto.
Onward(s, x) == IF "SENDING" \in s.flags[x] THEN s.sendto[x] ELSE x

\* The walk of mini_send() exists: a walk of n steps can be made one longer.
LEMMA WalkExists ==
  ASSUME NEW s \in Table, NEW d \in Proc, NEW N \in Nat
  PROVE  \E f : f = [n \in 0 .. N |-> IF n = 0 THEN d ELSE Onward(s, f[n - 1])]
<1> DEFINE IsWalk(n, f) == /\ f \in [0 .. n -> Proc] /\ f[0] = d
                           /\ \A i \in 1 .. n : f[i] = Onward(s, f[i - 1])
           B == {n \in Nat : ~\E f : IsWalk(n, f)}
<1>1. B = {}
  <2>1. SUFFICES ASSUME B # {} PROVE FALSE OBVIOUS
  <2>2. PICK m \in B : \A n \in B : m <= n BY <2>1, LeastOfNat
  <2>3. CASE m = 0
    <3>1. IsWalk(0, [n \in 0 .. 0 |-> d]) OBVIOUS
    <3> QED BY <2>3, <3>1
  <2>4. CASE m # 0
    <3>1. m - 1 \in Nat /\ m - 1 \notin B
      <4>1. m \in Nat OBVIOUS
      <4>2. m - 1 \in Nat /\ ~(m <= m - 1) BY <4>1, <2>4
      <4> HIDE DEF B
      <4> QED BY <4>2, <2>2
    <3>2. PICK f : IsWalk(m - 1, f) BY <3>1
    <3> DEFINE g == [n \in 0 .. m |-> IF n = m THEN Onward(s, f[m - 1]) ELSE f[n]]
    <3>3. f[m - 1] \in Proc BY <3>1, <3>2
    <3>4. Onward(s, f[m - 1]) \in Proc BY <3>3 DEF Onward, Table
    <3>5. IsWalk(m, g)
      <4>1. g \in [0 .. m -> Proc] BY <3>1, <3>2, <3>4
      <4>2. g[0] = d BY <3>1, <3>2, <2>4
      <4>3. ASSUME NEW i \in 1 .. m PROVE g[i] = Onward(s, g[i - 1])
        <5>1. i - 1 \in 0 .. m - 1 /\ g[i - 1] = f[i - 1] BY <3>1
        <5>2. CASE i = m BY <5>1, <5>2
        <5>3. CASE i # m
          <6>1. i \in 1 .. m - 1 /\ g[i] = f[i] BY <5>3, <3>1
          <6> QED BY <5>1, <6>1, <3>2
        <5> QED BY <5>2, <5>3
      <4> QED BY <4>1, <4>2, <4>3
    <3> QED BY <3>5, <2>2
  <2> QED BY <2>3, <2>4
<1>2. PICK f : IsWalk(N, f) BY <1>1
<1>3. f = [n \in 0 .. N |-> IF n = 0 THEN d ELSE Onward(s, f[n - 1])]
  BY <1>2
<1> QED BY <1>3

\* What the walk looks like.
LEMMA Walked ==
  ASSUME NEW s \in Table, NEW c \in Proc, NEW d \in Proc, "SENDING" \in s.flags[d], ~Locked(s, c, d)
  PROVE  \E f \in [0 .. NR_TASKS + NR_PROCS -> Proc] :
           /\ f[0] = d
           /\ \A n \in 1 .. NR_TASKS + NR_PROCS : f[n] = Onward(s, f[n - 1]) /\ f[n] # c
<1> DEFINE N == NR_TASKS + NR_PROCS
           walk[n \in 0 .. N] == IF n = 0 THEN d
                                 ELSE IF "SENDING" \in s.flags[walk[n - 1]] THEN s.sendto[walk[n - 1]]
                                 ELSE walk[n - 1]
<1>1. N \in Nat BY SizeAssumption
<1>2. \A n \in 1 .. N : walk[n] # c BY DEF Locked
<1>3. \E f : f = [n \in 0 .. N |-> IF n = 0 THEN d ELSE Onward(s, f[n - 1])] BY <1>1, WalkExists
<1>4. walk = [n \in 0 .. N |-> IF n = 0 THEN d ELSE Onward(s, walk[n - 1])]
  BY <1>3 DEF Onward
<1> HIDE DEF walk
<1> DEFINE B == {n \in 0 .. N : walk[n] \notin Proc}
<1>5. B = {}
  <2>1. SUFFICES ASSUME B # {} PROVE FALSE OBVIOUS
  <2>2. B \in SUBSET Nat BY <1>1
  <2>3. PICK m \in B : \A n \in B : m <= n BY <2>1, <2>2, LeastOfNat
  <2>4. walk[0] = d BY <1>1, <1>4
  <2>5. m \in 1 .. N /\ m - 1 \in 0 .. N /\ ~(m <= m - 1) BY <1>1, <2>4
  <2>6. walk[m - 1] \in Proc BY <2>3, <2>5
  <2>7. walk[m] = Onward(s, walk[m - 1]) BY <1>1, <1>4, <2>5
  <2> QED BY <2>6, <2>7 DEF Onward, Table
<1>6. walk \in [0 .. N -> Proc] BY <1>4, <1>5
<1>7. walk[0] = d /\ \A n \in 1 .. N : walk[n] = Onward(s, walk[n - 1]) BY <1>1, <1>4
<1> QED BY <1>2, <1>6, <1>7

\* How many processes there are.
LEMMA ProcCount == IsFiniteSet(Proc) /\ Cardinality(Proc) = NR_TASKS + NR_PROCS
<1>1. -NR_TASKS \in Int /\ NR_PROCS - 1 \in Int /\ -NR_TASKS <= NR_PROCS - 1
  BY SizeAssumption DEF LOW_USER
<1>2. Cardinality(Proc) = (NR_PROCS - 1) - (-NR_TASKS) + 1 BY <1>1, FS_Interval DEF Proc
<1> QED BY <1>1, <1>2, FS_Interval, SizeAssumption DEF Proc

\* A walk with a step per process comes by some process twice.
LEMMA GoesRound ==
  ASSUME NEW f \in [0 .. NR_TASKS + NR_PROCS -> Proc]
  PROVE  \E x, y \in 0 .. NR_TASKS + NR_PROCS : x # y /\ f[x] = f[y]
<1> DEFINE D == 0 .. NR_TASKS + NR_PROCS
<1>1. NR_TASKS + NR_PROCS \in Nat BY SizeAssumption
<1>2. IsFiniteSet(D) /\ Cardinality(D) = NR_TASKS + NR_PROCS + 1 BY <1>1, FS_Interval
<1>3. IsFiniteSet(Proc) /\ Cardinality(Proc) < Cardinality(D) BY <1>1, <1>2, ProcCount
<1>4. f \in [D -> Proc] OBVIOUS
<1> HIDE DEF D
<1>5. \E x, y \in D : x # y /\ f[x] = f[y] BY <1>2, <1>3, <1>4, FS_PigeonHole
<1> QED BY <1>5 DEF D

\* The check of mini_send() is enough: if the walk that starts at d does not
\* come by c, then c may send to d and no ring of senders closes.  (The walk is
\* long enough: if it has not ended after a step per process it goes round,
\* and there was a ring before.)
LEMMA NoNewRing ==
  ASSUME NEW s \in Table, NoRing(s), NEW c \in Proc, NEW d \in Proc, c # d, ~IsSending(s, c),
         ~Locked(s, c, d), NEW t, \A p \in Proc : IsSending(t, p) => p = c \/ IsSending(s, p),
         t.sendto[c] = d, \A p \in Proc \ {c} : t.sendto[p] = s.sendto[p]
  PROVE  NoRing(t)
<1>1. SUFFICES ASSUME NEW S \in SUBSET Proc, Ring(t, S) PROVE FALSE BY DEF NoRing
<1>2. \A p \in S \ {c} : IsSending(s, p) /\ s.sendto[p] \in S BY <1>1 DEF Ring
<1>3. CASE c \notin S
  <2>1. Ring(s, S) BY <1>1, <1>2, <1>3 DEF Ring
  <2> QED BY <2>1 DEF NoRing
<1>4. CASE c \in S
  <2> DEFINE N == NR_TASKS + NR_PROCS
  <2>1. d \in S /\ IsSending(s, d) BY <1>1, <1>2, <1>4 DEF Ring
  <2>2. PICK f \in [0 .. N -> Proc] : /\ f[0] = d
                                      /\ \A n \in 1 .. N : f[n] = Onward(s, f[n - 1]) /\ f[n] # c
    BY <2>1, Walked DEF IsSending
  <2>3. N \in Nat BY SizeAssumption
  <2> DEFINE B == {n \in 0 .. N : f[n] \notin S \ {c}}
  <2>4. B = {}
    <3>1. SUFFICES ASSUME B # {} PROVE FALSE OBVIOUS
    <3>2. B \in SUBSET Nat BY <2>3
    <3>3. PICK m \in B : \A n \in B : m <= n BY <3>1, <3>2, LeastOfNat
    <3>4. m # 0 BY <2>1, <2>2
    <3>5. m \in 1 .. N /\ m - 1 \in 0 .. N /\ ~(m <= m - 1) BY <2>3, <3>4
    <3>6. f[m - 1] \in S \ {c} BY <3>3, <3>5
    <3>7. f[m] = s.sendto[f[m - 1]] /\ f[m] # c BY <1>2, <2>2, <3>5, <3>6 DEF Onward, IsSending
    <3> QED BY <1>2, <3>6, <3>7
  <2>5. PICK i \in 0 .. N, j \in 0 .. N : i < j /\ f[i] = f[j]
    <3>4. PICK x \in 0 .. N, y \in 0 .. N : x # y /\ f[x] = f[y] BY GoesRound
    <3>5. x < y \/ y < x BY <3>4, <2>3
    <3> QED BY <3>4, <3>5
  <2> DEFINE V == {f[n] : n \in i .. j - 1}
  <2>6. f[i] \in V /\ V \subseteq Proc
    <3>1. i \in i .. j - 1 /\ i .. j - 1 \subseteq 0 .. N BY <2>3, <2>5
    <3> QED BY <3>1
  <2>7. ASSUME NEW n \in i .. j - 1 PROVE IsSending(s, f[n]) /\ s.sendto[f[n]] \in V
    <3>1. n \in 0 .. N /\ n + 1 \in 1 .. N /\ (n + 1) - 1 = n BY <2>3, <2>5
    <3>2. IsSending(s, f[n]) BY <2>4, <3>1, <1>2
    <3>3. f[n + 1] = s.sendto[f[n]] BY <2>2, <3>1, <3>2 DEF Onward, IsSending
    <3>4. CASE n + 1 \in i .. j - 1 BY <3>2, <3>3, <3>4
    <3>5. CASE n + 1 \notin i .. j - 1
      <4>1. n + 1 = j BY <3>5, <2>3, <2>5
      <4> QED BY <4>1, <3>2, <3>3, <2>5, <2>6
    <3> QED BY <3>4, <3>5
  <2>8. Ring(s, V) BY <2>6, <2>7 DEF Ring
  <2> QED BY <2>6, <2>8 DEF NoRing
<1> QED BY <1>3, <1>4

-----------------------------------------------------------------------------
(***************************************************************************)
(* Messages, interrupts and forks: who begins to wait.                     *)
(***************************************************************************)
\* mini_send(): the caller blocks only on a process that does not take the
\* message, and closes no ring.
LEMMA SendOrderly ==
  ASSUME NEW s, Good(s), Orderly(s), NEW c \in Proc \ {IDLE, HARDWARE}, s.flags[c] = {},
         NEW d \in Proc, c # d, ~Locked(s, c, d)
  PROVE  LET t == mini_send(s, c, d)
         IN  /\ Orderly(t) /\ (Told(s) => Told(t)) /\ SameImages(s, t)
             /\ t.flags[c] \in {{}, {"SENDING"}} /\ ("SENDING" \in t.flags[c] => t.sendto[c] = d)
<1> DEFINE t == mini_send(s, c, d)
<1>0. /\ s \in Table /\ FlagsOK(s) /\ s.flags \in [Proc -> SUBSET Flag]
      /\ s.getfrom \in [Proc -> Proc \cup {ANY}] /\ s.sendto \in [Proc -> Proc]
      /\ {"SENDING"} \in SUBSET Flag /\ {"RECEIVING"} \in SUBSET Flag /\ MM \in Proc
  BY ProcFacts DEF Good, Table, Flag
<1>1. CASE Accepts(s, d, c)
  <2>1. t = Release(s, d, {"RECEIVING"}) BY <1>1 DEF mini_send
  <2>2. Eases(s, t) /\ SameImages(s, t) BY <1>0, <2>1, ReleaseEases
  <2> HIDE DEF t
  <2>3. Release(s, d, {"RECEIVING"}).flags = [s.flags EXCEPT ![d] = @ \ {"RECEIVING"}]
    BY <1>0, ReleaseFrame
  <2>4. t.flags[c] = {} BY <1>0, <2>1, <2>3
  <2> QED BY <1>0, <2>2, <2>4, EasesOrderly DEF t
<1>2. CASE ~Accepts(s, d, c)
  <2> DEFINE b == Block(s, c, {"SENDING"})
  <2>1. t = [b EXCEPT !.sendto[c] = d, !.callerq[d] = Append(@, c)] BY <1>2 DEF mini_send
  <2>2. /\ Keeps(s, b) /\ b.getfrom = s.getfrom /\ b.sendto = s.sendto
        /\ b.flags = [s.flags EXCEPT ![c] = @ \cup {"SENDING"}]
    BY <1>0, BlockFrame
  <2> HIDE DEF b, t
  <2>3. /\ t.flags = b.flags /\ t.getfrom = b.getfrom /\ t.sendto = [b.sendto EXCEPT ![c] = d]
        /\ t.int_blocked = b.int_blocked /\ t.sig_procs = b.sig_procs /\ t.core = b.core
        /\ t.shadow = b.shadow /\ t.panic = b.panic
    <3>1. b \in Table BY <2>2 DEF Keeps
    <3> QED BY <2>1, <3>1 DEF Table
  <2>4. /\ t.flags[c] = {"SENDING"} /\ \A x \in Proc \ {c} : t.flags[x] = s.flags[x]
        /\ t.sendto[c] = d /\ \A x \in Proc \ {c} : t.sendto[x] = s.sendto[x]
        /\ t.getfrom = s.getfrom /\ t.int_blocked = s.int_blocked /\ t.sig_procs = s.sig_procs
    BY <1>0, <2>2, <2>3 DEF Keeps
  <2>5. SameImages(s, t)
    <3>1. \A x \in User : "P_SLOT_FREE" \in t.flags[x] <=> "P_SLOT_FREE" \in s.flags[x]
      BY <2>4, Kinds
    <3> QED BY <3>1, <2>2, <2>3, SameLive DEF Keeps, SameImages
  <2>6. \A x \in Proc : /\ IsSending(t, x) <=> (x = c \/ IsSending(s, x))
                        /\ IsReceiving(t, x) <=> (x # c /\ IsReceiving(s, x))
    BY <2>4 DEF IsSending, IsReceiving
  <2>7. BothSame(t) BY <2>4, <2>6 DEF Orderly, BothSame
  <2>8. Met(t)
    <3>1. SUFFICES ASSUME NEW p \in Proc, IsSending(t, p), Accepts(t, t.sendto[p], p) PROVE FALSE
      BY DEF Met
    <3>2. t.sendto[p] \in Proc /\ t.sendto[p] # c
      <4>1. "SENDING" \notin t.flags[t.sendto[p]] BY <3>1 DEF Accepts
      <4> QED BY <4>1, <1>0, <2>4
    <3>3. Accepts(s, t.sendto[p], p) BY <3>1, <3>2, <2>4 DEF Accepts
    <3>4. CASE p = c BY <3>3, <3>4, <2>4, <1>2
    <3>5. CASE p # c
      <4>1. IsSending(s, p) /\ t.sendto[p] = s.sendto[p] BY <3>1, <3>5, <2>4, <2>6
      <4> QED BY <4>1, <3>3 DEF Orderly, Met
    <3> QED BY <3>4, <3>5
  <2>9. NoRing(t)
    <3>1. ~IsSending(s, c) BY DEF IsSending
    <3> QED BY <3>1, <1>0, <2>4, <2>6, NoNewRing DEF Orderly
  <2>10. NoneLost(t)
    <3>1. s.int_blocked \subseteq Proc BY <1>0, Kinds DEF Table
    <3> QED BY <3>1, <2>4, <2>6 DEF Orderly, NoneLost
  <2>11. Told(s) => Told(t) BY <1>0, <2>4, <2>6 DEF Told, MMWaits
  <2> QED BY <2>4, <2>5, <2>7, <2>8, <2>9, <2>10, <2>11 DEF Orderly, t
<1> QED BY <1>1, <1>2

\* A sender that mini_rec() takes off the caller queue: it goes on to wait only
\* for the process that took the message.
LEMMA TakeOrderly ==
  ASSUME NEW s, Good(s), Orderly(s), NEW c \in Proc \ {IDLE, HARDWARE}, ~IsSending(s, c),
         NEW i \in 1 .. Len(s.callerq[c])
  PROVE  LET r == [s EXCEPT !.callerq[c] = UnlinkAt(@, i)]
             t == Release(r, s.callerq[c][i], {"SENDING"})
         IN  Orderly(t) /\ (Told(s) => Told(t)) /\ SameImages(s, t)
<1> DEFINE x == s.callerq[c][i]
           r == [s EXCEPT !.callerq[c] = UnlinkAt(@, i)]
           t == Release(r, x, {"SENDING"})
<1>0. /\ s \in Table /\ CallersListed(s) /\ s.flags \in [Proc -> SUBSET Flag]
      /\ s.getfrom \in [Proc -> Proc \cup {ANY}] /\ s.sendto \in [Proc -> Proc]
      /\ {"SENDING"} \in SUBSET Flag /\ MM \in Proc /\ ANY \notin Proc /\ s.callerq[c] \in Seq(Proc)
  BY ProcFacts DEF Good, Table, Flag
<1>1. x \in Proc /\ IsSending(s, x) /\ s.sendto[x] = c /\ x # c
  <2>1. x \in Proc /\ Contains(s.callerq[c], x) BY <1>0 DEF Contains
  <2>2. Lists(s.callerq[c], Senders(s, c)) BY <1>0 DEF CallersListed
  <2>3. x \in Senders(s, c) BY <2>1, <2>2 DEF Lists
  <2> QED BY <2>1, <2>3 DEF Senders, IsSending
<1>2. UnlinkAt(s.callerq[c], i) \in Seq(Proc) BY <1>0, UnlinkAtType
<1> HIDE DEF x
<1>3. /\ r \in Table /\ r.flags = s.flags /\ r.getfrom = s.getfrom /\ r.sendto = s.sendto
      /\ r.int_blocked = s.int_blocked /\ r.sig_procs = s.sig_procs /\ r.core = s.core
      /\ r.shadow = s.shadow /\ r.panic = s.panic
  BY <1>0, <1>2 DEF Table
<1> HIDE DEF r
<1>4. /\ Keeps(r, t) /\ t.flags = [r.flags EXCEPT ![x] = @ \ {"SENDING"}]
      /\ t.getfrom = [r.getfrom EXCEPT ![x] = @] /\ t.sendto = [r.sendto EXCEPT ![x] = HARDWARE]
  BY <1>0, <1>1, <1>3, ReleaseFrame
<1> HIDE DEF t
<1>5. /\ t.flags[x] = s.flags[x] \ {"SENDING"} /\ \A y \in Proc \ {x} : t.flags[y] = s.flags[y]
      /\ t.getfrom = s.getfrom /\ \A y \in Proc \ {x} : t.sendto[y] = s.sendto[y]
      /\ t.int_blocked = s.int_blocked /\ t.sig_procs = s.sig_procs
  BY <1>0, <1>1, <1>3, <1>4 DEF Keeps
<1>6. SameImages(s, t)
  <2>1. \A y \in User : "P_SLOT_FREE" \in t.flags[y] <=> "P_SLOT_FREE" \in s.flags[y] BY <1>5, Kinds
  <2> QED BY <2>1, <1>3, <1>4, SameLive DEF Keeps, SameImages
<1>7. \A y \in Proc : /\ IsSending(t, y) <=> (y # x /\ IsSending(s, y))
                      /\ IsReceiving(t, y) <=> IsReceiving(s, y)
  BY <1>5 DEF IsSending, IsReceiving
<1>8. IsReceiving(t, x) => t.getfrom[x] = c
  BY <1>1, <1>5, <1>7 DEF Orderly, BothSame
<1>9. BothSame(t) BY <1>5, <1>7 DEF Orderly, BothSame
<1>10. Met(t)
  <2>1. SUFFICES ASSUME NEW p \in Proc, IsSending(t, p), Accepts(t, t.sendto[p], p) PROVE FALSE
    BY DEF Met
  <2>2. p # x /\ p # c /\ IsSending(s, p) /\ t.sendto[p] = s.sendto[p] /\ s.sendto[p] \in Proc
    BY <2>1, <1>0, <1>5, <1>7
  <2>3. CASE s.sendto[p] = x
    <3>1. IsReceiving(t, x) /\ t.getfrom[x] \in {ANY, p} BY <2>1, <2>2, <2>3 DEF Accepts, IsReceiving
    <3> QED BY <3>1, <2>2, <1>0, <1>8
  <2>4. CASE s.sendto[p] # x
    <3>1. Accepts(s, s.sendto[p], p) BY <2>1, <2>2, <2>4, <1>5 DEF Accepts
    <3> QED BY <3>1, <2>2 DEF Orderly, Met
  <2> QED BY <2>3, <2>4
<1>11. NoRing(t)
  <2>1. ASSUME NEW S \in SUBSET Proc, Ring(t, S) PROVE Ring(s, S) BY <2>1, <1>5, <1>7 DEF Ring
  <2> QED BY <2>1 DEF Orderly, NoRing
<1>12. NoneLost(t)
  <2>1. s.int_blocked \subseteq Proc BY <1>0, Kinds DEF Table
  <2>2. SUFFICES ASSUME NEW y \in s.int_blocked, IsReceiving(t, y), ~IsSending(t, y),
                        isrxhardware(t.getfrom[y])
                 PROVE  FALSE
    BY <1>5 DEF NoneLost
  <2>3. CASE y = x BY <2>2, <2>3, <1>0, <1>8 DEF isrxhardware
  <2>4. CASE y # x BY <2>1, <2>2, <2>4, <1>5, <1>7 DEF Orderly, NoneLost
  <2> QED BY <2>3, <2>4
<1>13. Told(s) => Told(t) BY <1>0, <1>5, <1>7, <1>8 DEF Told, MMWaits
<1> QED BY <1>6, <1>9, <1>10, <1>11, <1>12, <1>13 DEF Orderly, t, r, x

\* mini_rec(): the caller blocks only if no sender it would take is queued and
\* no interrupt it waits for is recorded, and MM not while there are signals.
LEMMA RecOrderly ==
  ASSUME NEW s, Good(s), Orderly(s), Told(s), NEW c \in Proc \ {IDLE, HARDWARE},
         s.flags[c] \in {{}, {"SENDING"}}, NEW src \in Proc \cup {ANY},
         "SENDING" \in s.flags[c] => s.sendto[c] = src
  PROVE  LET w == mini_rec(s, c, src)
         IN  Orderly(w) /\ Told(w) /\ SameImages(s, w)
<1> DEFINE from == Acceptable(s, c, src)
           i == CHOOSE j \in from : \A l \in from : j <= l
           t == [Block(s, c, {"RECEIVING"}) EXCEPT !.getfrom[c] = src]
           w == mini_rec(s, c, src)
<1>0. /\ s \in Table /\ CallersListed(s) /\ s.flags \in [Proc -> SUBSET Flag] /\ FlagsOK(s)
      /\ s.getfrom \in [Proc -> Proc \cup {ANY}] /\ s.sendto \in [Proc -> Proc]
      /\ {"RECEIVING"} \in SUBSET Flag /\ MM \in Proc /\ ANY \notin Proc /\ s.callerq[c] \in Seq(Proc)
  BY ProcFacts DEF Good, Table, Flag
<1>1. CASE "SENDING" \notin s.flags[c] /\ from # {}
  <2>1. from \in SUBSET Nat /\ from \subseteq 1 .. Len(s.callerq[c]) BY DEF Acceptable
  <2>2. i \in 1 .. Len(s.callerq[c])
    <3>1. \E j \in from : \A l \in from : j <= l BY <1>1, <2>1, LeastOfNat
    <3> QED BY <3>1, <2>1
  <2>3. w = Release([s EXCEPT !.callerq[c] = UnlinkAt(@, i)], s.callerq[c][i], {"SENDING"})
    BY <1>1 DEF mini_rec
  <2> HIDE DEF i, w
  <2>4. Orderly(w) /\ Told(w) /\ SameImages(s, w) BY <1>1, <2>2, <2>3, TakeOrderly DEF IsSending
  <2> QED BY <2>4 DEF w
<1>2. CASE /\ ~("SENDING" \notin s.flags[c] /\ from # {})
           /\ "SENDING" \notin s.flags[c] /\ c \in s.int_blocked /\ isrxhardware(src)
  <2>1. w = [s EXCEPT !.int_blocked = @ \ {c}] BY <1>2 DEF mini_rec
  <2> HIDE DEF w
  <2>2. /\ w.flags = s.flags /\ w.getfrom = s.getfrom /\ w.sendto = s.sendto
        /\ w.int_blocked = s.int_blocked \ {c} /\ w.sig_procs = s.sig_procs
        /\ w.core = s.core /\ w.shadow = s.shadow /\ w.panic = s.panic
    BY <1>0, <2>1 DEF Table
  <2>3. Eases(s, w) BY <2>2 DEF Eases, IsSending, IsReceiving
  <2>4. SameImages(s, w) BY <2>2, SameLive DEF SameImages
  <2> QED BY <1>0, <2>3, <2>4, EasesOrderly DEF w
<1>3. CASE /\ ~("SENDING" \notin s.flags[c] /\ from # {})
           /\ ~("SENDING" \notin s.flags[c] /\ c \in s.int_blocked /\ isrxhardware(src))
  <2>1. w = IF s.sig_procs > 0 /\ c = MM /\ src = ANY THEN inform(t) ELSE t
    BY <1>3 DEF mini_rec
  <2>2. /\ Good(t) /\ Keeps(s, t) /\ t.flags = [s.flags EXCEPT ![c] = @ \cup {"RECEIVING"}]
        /\ t.getfrom = [s.getfrom EXCEPT ![c] = src] /\ t.sendto = s.sendto
    <3>1. "P_SLOT_FREE" \notin s.flags[c] /\ ("SENDING" \in s.flags[c] => src # ANY) BY <1>0
    <3> QED BY <3>1, BlockReceiver
  <2> HIDE DEF t, w
  <2>3. /\ t.flags[c] = s.flags[c] \cup {"RECEIVING"} /\ \A x \in Proc \ {c} : t.flags[x] = s.flags[x]
        /\ t.getfrom[c] = src /\ \A x \in Proc \ {c} : t.getfrom[x] = s.getfrom[x]
        /\ t.int_blocked = s.int_blocked /\ t.sig_procs = s.sig_procs
    BY <1>0, <2>2 DEF Keeps
  <2>4. SameImages(s, t)
    <3>1. \A x \in User : "P_SLOT_FREE" \in t.flags[x] <=> "P_SLOT_FREE" \in s.flags[x]
      BY <2>3, Kinds
    <3> QED BY <3>1, <2>2, SameLive DEF Keeps, SameImages
  <2>5. \A x \in Proc : /\ IsSending(t, x) <=> IsSending(s, x)
                        /\ IsReceiving(t, x) <=> (x = c \/ IsReceiving(s, x))
    BY <2>3 DEF IsSending, IsReceiving
  <2>6. BothSame(t) BY <2>2, <2>3, <2>5 DEF Orderly, BothSame, IsSending
  <2>7. Met(t)
    <3>1. SUFFICES ASSUME NEW p \in Proc, IsSending(t, p), Accepts(t, t.sendto[p], p) PROVE FALSE
      BY DEF Met
    <3>2. IsSending(s, p) /\ t.sendto[p] = s.sendto[p] /\ s.sendto[p] \in Proc
      BY <3>1, <1>0, <2>2, <2>5
    <3>3. CASE s.sendto[p] = c
      <4>1. "SENDING" \notin s.flags[c] /\ src \in {ANY, p}
        BY <3>1, <3>2, <3>3, <2>3 DEF Accepts
      <4>2. p \in Senders(s, c) /\ Lists(s.callerq[c], Senders(s, c))
        BY <3>2, <3>3, <1>0 DEF Senders, IsSending, CallersListed
      <4>3. Contains(s.callerq[c], p) BY <4>2 DEF Lists
      <4>4. PICK j \in 1 .. Len(s.callerq[c]) : s.callerq[c][j] = p BY <4>3 DEF Contains
      <4>5. j \in from BY <4>1, <4>4 DEF Acceptable
      <4> QED BY <4>1, <4>5, <1>3
    <3>4. CASE s.sendto[p] # c
      <4>1. Accepts(s, s.sendto[p], p) BY <3>1, <3>2, <3>4, <2>3 DEF Accepts
      <4> QED BY <4>1, <3>2 DEF Orderly, Met
    <3> QED BY <3>3, <3>4
  <2>8. NoRing(t)
    <3>1. ASSUME NEW S \in SUBSET Proc, Ring(t, S) PROVE Ring(s, S) BY <3>1, <2>2, <2>5 DEF Ring
    <3> QED BY <3>1 DEF Orderly, NoRing
  <2>9. NoneLost(t)
    <3>1. s.int_blocked \subseteq Proc BY <1>0, Kinds DEF Table
    <3>2. SUFFICES ASSUME NEW y \in s.int_blocked, IsReceiving(t, y), ~IsSending(t, y),
                          isrxhardware(t.getfrom[y])
                   PROVE  FALSE
      BY <2>3 DEF NoneLost
    <3>3. CASE y = c BY <3>2, <3>3, <2>3, <2>5, <1>3 DEF IsSending
    <3>4. CASE y # c BY <3>1, <3>2, <3>4, <2>3, <2>5 DEF Orderly, NoneLost
    <3> QED BY <3>3, <3>4
  <2>10. Orderly(t) BY <2>6, <2>7, <2>8, <2>9 DEF Orderly
  <2>11. CASE s.sig_procs > 0 /\ c = MM /\ src = ANY
    <3>1. w = inform(t) BY <2>1, <2>11
    <3>2. IsReceiving(t, MM) /\ ~IsSending(t, MM) /\ t.getfrom[MM] = ANY
      BY <1>0, <2>3, <2>11 DEF IsReceiving, IsSending
    <3>3. t \in Table /\ FlagsOK(t) /\ SigCounted(t) BY <2>2 DEF Good
    <3>4. CanInform(t) <=> t.sig_procs > 0 BY <3>3, CanInformCount
    <3>5. Eases(t, w) /\ SameImages(t, w) /\ ~IsReceiving(w, MM)
      BY <3>1, <3>2, <3>3, <3>4, <2>3, <2>11, InformEases
    <3>6. Orderly(w) BY <3>3, <3>5, <2>10, EasesOrderly
    <3>7. Told(w) BY <3>5 DEF Told, MMWaits
    <3> QED BY <3>5, <3>6, <3>7, <2>4, SameTrans DEF w
  <2>12. CASE ~(s.sig_procs > 0 /\ c = MM /\ src = ANY)
    <3>1. w = t BY <2>1, <2>12
    <3>2. Told(t) BY <1>0, <2>3, <2>5, <2>12 DEF Told, MMWaits
    <3> QED BY <3>1, <3>2, <2>4, <2>10 DEF w
  <2> QED BY <2>11, <2>12
<1> QED BY <1>1, <1>2, <1>3

\* A trap.
LEMMA SysCallOrderly ==
  ASSUME Good(k), Settled(k), Orderly(k), Told(k), SysCall
  PROVE  Orderly(k') /\ Told(k') /\ SameImages(k, k')
<1> DEFINE c == k.proc_ptr
<1>1. PICK function \in {"SEND", "RECEIVE", "BOTH"}, d \in Proc \cup {ANY} :
        c # IDLE /\ Trusted(c, function, d) /\ k' = sys_call(k, function, d)
  BY DEF SysCall
<1>2. c \in Proc \ {IDLE, HARDWARE} /\ k.flags[c] = {} /\ k \in Table
  BY <1>1, RunningOnTop DEF OnTop, Good
<1> DEFINE sent == mini_send(k, c, d)
<1>3. (isuserp(c) <=> c \in User) BY <1>2, Kinds
<1>4. k' = IF isuserp(c) /\ function # "BOTH" THEN k
           ELSE IF function = "RECEIVE" THEN mini_rec(k, c, d)
           ELSE IF d = ANY \/ send_result(k, c, d) # "OK" THEN k
           ELSE IF function = "SEND" THEN sent
           ELSE mini_rec(sent, c, d)
  BY <1>1 DEF sys_call
<1>5. SameImages(k, k) BY DEF SameImages
<1>6. CASE function = "RECEIVE"
  <2>1. LET w == mini_rec(k, c, d) IN Orderly(w) /\ Told(w) /\ SameImages(k, w)
    BY <1>2, RecOrderly
  <2> QED BY <1>4, <1>5, <1>6, <2>1
<1>7. CASE function # "RECEIVE" /\ (d = ANY \/ send_result(k, c, d) # "OK")
  <2>1. k' = k BY <1>4, <1>7
  <2> QED BY <1>5, <2>1
<1>8. CASE function # "RECEIVE" /\ d # ANY /\ send_result(k, c, d) = "OK"
  <2>1. d \in Proc /\ ~Locked(k, c, d) /\ "P_SLOT_FREE" \notin k.flags[d] /\ (c \in User => d \in Server)
    BY <1>3, <1>8 DEF send_result, issysentn, Server
  <2>2. c # d /\ d \in Proc \ {IDLE, HARDWARE} /\ (d \in User => Accepts(k, d, c))
    <3>1. <<c, d>> \in Talks => c # d /\ d \in Task \cup Server BY TalksAssumption
    <3>2. c \in User => d \notin User /\ c # d BY <2>1, Kinds
    <3>3. d \in Task \cup Server => d \notin User BY Kinds
    <3> QED BY <1>1, <1>3, <1>8, <2>1, <3>1, <3>2, <3>3, Kinds DEF Trusted
  <2>3. Good(sent) BY <1>2, <2>1, <2>2, MiniSend
  <2>4. /\ Orderly(sent) /\ Told(sent) /\ SameImages(k, sent) /\ sent.flags[c] \in {{}, {"SENDING"}}
        /\ "SENDING" \in sent.flags[c] => sent.sendto[c] = d
    BY <1>2, <2>1, <2>2, SendOrderly
  <2> HIDE DEF sent
  <2>5. LET w == mini_rec(sent, c, d) IN Orderly(w) /\ Told(w) /\ SameImages(sent, w)
    BY <1>2, <2>3, <2>4, RecOrderly
  <2>6. CASE k' = k BY <2>6, <1>5
  <2>7. CASE k' = sent BY <2>7, <2>4
  <2>8. CASE k' = mini_rec(sent, c, d) BY <2>8, <2>4, <2>5, SameTrans
  <2> QED BY <1>4, <1>8, <2>6, <2>7, <2>8
<1> QED BY <1>6, <1>7, <1>8

\* An interrupt is recorded as blocked only if its task does not wait for it.
LEMMA InterruptOrderly ==
  ASSUME NEW s \in Table, Orderly(s), NEW t \in Task
  PROVE  LET w == interrupt(s, t)
         IN  Orderly(w) /\ (Told(s) => Told(w)) /\ SameImages(s, w)
<1> DEFINE w == interrupt(s, t)
<1>0. t \in Proc /\ s.flags \in [Proc -> SUBSET Flag] /\ s.getfrom \in [Proc -> Proc \cup {ANY}]
      /\ s.sendto \in [Proc -> Proc]
  BY Kinds DEF Table
<1>1. CASE "RECEIVING" \in s.flags[t] /\ "SENDING" \notin s.flags[t] /\ isrxhardware(s.getfrom[t])
  <2> DEFINE r == Clear(s, t, {"RECEIVING"})
  <2>1. /\ Keeps(s, r) /\ r.flags = [s.flags EXCEPT ![t] = @ \ {"RECEIVING"}]
        /\ r.getfrom = [s.getfrom EXCEPT ![t] = ANY] /\ r.sendto = [s.sendto EXCEPT ![t] = @]
    BY <1>0, ClearFrame DEF Flag
  <2>2. w = [r EXCEPT !.int_blocked = @ \ {t}, !.rdy[TASK_Q] = Append(@, t),
                      !.proc_ptr = IF s.rdy[TASK_Q] = << >> THEN t ELSE @]
    BY <1>1 DEF interrupt
  <2> HIDE DEF r, w
  <2>3. r \in Table BY <2>1 DEF Keeps
  <2>4. /\ w.flags = r.flags /\ w.getfrom = r.getfrom /\ w.sendto = r.sendto
        /\ w.int_blocked = r.int_blocked \ {t} /\ w.sig_procs = r.sig_procs
        /\ w.core = r.core /\ w.shadow = r.shadow /\ w.panic = r.panic
    BY <2>2, <2>3 DEF Table
  <2>5. /\ w.flags[t] = s.flags[t] \ {"RECEIVING"}
        /\ \A x \in Proc \ {t} : w.flags[x] = s.flags[x] /\ w.getfrom[x] = s.getfrom[x]
        /\ \A x \in Proc : w.sendto[x] = s.sendto[x]
    BY <1>0, <2>1, <2>4
  <2>6. Eases(s, w) BY <2>1, <2>4, <2>5 DEF Keeps, Eases, IsSending, IsReceiving
  <2>7. SameImages(s, w)
    <3>1. \A x \in User : "P_SLOT_FREE" \in w.flags[x] <=> "P_SLOT_FREE" \in s.flags[x]
      BY <2>5, Kinds
    <3> QED BY <3>1, <2>1, <2>4, SameLive DEF Keeps, SameImages
  <2> QED BY <2>6, <2>7, EasesOrderly DEF w
<1>2. CASE ~("RECEIVING" \in s.flags[t] /\ "SENDING" \notin s.flags[t] /\ isrxhardware(s.getfrom[t]))
  <2>1. w = [s EXCEPT !.int_blocked = @ \cup {t}] BY <1>2 DEF interrupt
  <2> HIDE DEF w
  <2>2. /\ w.flags = s.flags /\ w.getfrom = s.getfrom /\ w.sendto = s.sendto
        /\ w.int_blocked = s.int_blocked \cup {t} /\ w.sig_procs = s.sig_procs
        /\ w.core = s.core /\ w.shadow = s.shadow /\ w.panic = s.panic
    BY <2>1 DEF Table
  <2>3. BothSame(w) /\ Met(w) /\ NoRing(w)
    BY <2>2 DEF Orderly, BothSame, Met, NoRing, Ring, Accepts, IsSending, IsReceiving
  <2>4. NoneLost(w) BY <1>2, <2>2 DEF Orderly, NoneLost, IsSending, IsReceiving
  <2>5. Told(s) => Told(w) BY <2>2 DEF Told, MMWaits, IsReceiving
  <2>6. SameImages(s, w) BY <2>2, SameLive DEF SameImages
  <2> QED BY <2>3, <2>4, <2>5, <2>6 DEF Orderly, w
<1> QED BY <1>1, <1>2

\* The list of held interrupts is independent of the rest.
LEMMA HeldOrderly ==
  ASSUME NEW s \in Table, NEW h
  PROVE  Eases(s, [s EXCEPT !.held = h]) /\ SameImages(s, [s EXCEPT !.held = h])
<1> DEFINE w == [s EXCEPT !.held = h]
<1>1. /\ w.flags = s.flags /\ w.getfrom = s.getfrom /\ w.sendto = s.sendto
      /\ w.int_blocked = s.int_blocked /\ w.sig_procs = s.sig_procs
      /\ w.core = s.core /\ w.shadow = s.shadow /\ w.panic = s.panic
  BY DEF Table
<1> HIDE DEF w
<1>2. Eases(s, w) BY <1>1 DEF Eases, IsSending, IsReceiving
<1>3. SameImages(s, w) BY <1>1, SameLive DEF SameImages
<1> QED BY <1>2, <1>3 DEF w

\* FORK: the child waits for MM as its parent does; nobody sends to a user.
LEMMA ForkOrderly ==
  ASSUME NEW s, Good(s), Orderly(s), NEW p \in Live(s), "RECEIVING" \in s.flags[p],
         "SENDING" \notin s.flags[p], NEW c \in User \ Live(s), NEW v \in Slots
  PROVE  LET w == do_fork(s, p, c, v)
         IN  /\ Orderly(w) /\ (Told(s) => Told(w)) /\ Live(w) = Live(s) \cup {c}
             /\ w.core = [s.core EXCEPT ![c] = s.core[p]]
             /\ w.shadow = [s.shadow EXCEPT ![c] = s.shadow[p], ![p] = v] /\ w.panic = s.panic
<1> DEFINE w == do_fork(s, p, c, v)
           kept == s.flags[p] \ {"PENDING", "SIG_PENDING", "P_STOP"}
<1>0. /\ s \in Table /\ FlagsOK(s) /\ s.flags \in [Proc -> SUBSET Flag]
      /\ s.getfrom \in [Proc -> Proc \cup {ANY}] /\ s.sendto \in [Proc -> Proc]
      /\ p \in User /\ "P_SLOT_FREE" \notin s.flags[p] /\ p # c /\ "P_SLOT_FREE" \in s.flags[c]
      /\ p \in Proc /\ c \in Proc /\ c # MM /\ MM \in Proc /\ c \notin Task /\ c \notin Server
  BY UserKind, ProcFacts DEF Good, Table, Live
<1>1. /\ w.flags = [s.flags EXCEPT ![c] = kept]
      /\ w.getfrom = [s.getfrom EXCEPT ![c] = s.getfrom[p]]
      /\ w.sendto = [s.sendto EXCEPT ![c] = s.sendto[p]]
      /\ w.core = [s.core EXCEPT ![c] = s.core[p]]
      /\ w.shadow = [s.shadow EXCEPT ![c] = s.shadow[p], ![p] = v]
      /\ w.sig_procs = s.sig_procs /\ w.int_blocked = s.int_blocked /\ w.panic = s.panic
  <2>1. w = [s EXCEPT !.flags[c] = kept,
            !.callerq[c]   = s.callerq[p],
            !.getfrom[c]   = s.getfrom[p],
            !.sendto[c]    = s.sendto[p],
            !.pending[c]   = {},
            !.pendcount[c] = 0,
            !.core[c]      = s.core[p],
            !.shadow       = [@ EXCEPT ![c] = s.shadow[p], ![p] = v]]
    BY DEF do_fork
  <2> HIDE DEF w, kept
  <2> QED BY <2>1, <1>0 DEF Table
<1> HIDE DEF w
<1>2. /\ w.flags[c] = kept
      /\ \A x \in Proc \ {c} : /\ w.flags[x] = s.flags[x] /\ w.getfrom[x] = s.getfrom[x]
                               /\ w.sendto[x] = s.sendto[x]
  <2> HIDE DEF kept
  <2> QED BY <1>0, <1>1
<1>3. \A x \in Proc : /\ IsSending(w, x) <=> (x # c /\ IsSending(s, x))
                      /\ IsReceiving(w, x) <=> (x = c \/ IsReceiving(s, x))
  BY <1>2 DEF IsSending, IsReceiving
<1>4. \A x \in Proc : IsSending(s, x) => s.sendto[x] # c
  BY <1>0 DEF FlagsOK, IsSending
<1>5. BothSame(w) BY <1>2, <1>3 DEF Orderly, BothSame
<1>6. Met(w)
  <2>1. SUFFICES ASSUME NEW x \in Proc, IsSending(w, x), Accepts(w, w.sendto[x], x) PROVE FALSE
    BY DEF Met
  <2>2. x # c /\ IsSending(s, x) /\ w.sendto[x] = s.sendto[x] /\ s.sendto[x] \in Proc \ {c}
    BY <2>1, <1>0, <1>2, <1>3, <1>4
  <2>3. Accepts(s, s.sendto[x], x) BY <2>1, <2>2, <1>2 DEF Accepts
  <2> QED BY <2>2, <2>3 DEF Orderly, Met
<1>7. NoRing(w)
  <2>1. ASSUME NEW S \in SUBSET Proc, Ring(w, S) PROVE Ring(s, S) BY <2>1, <1>2, <1>3 DEF Ring
  <2> QED BY <2>1 DEF Orderly, NoRing
<1>8. NoneLost(w)
  <2>1. s.int_blocked \subseteq Proc \ {c} BY <1>0, Kinds DEF Table
  <2> QED BY <2>1, <1>1, <1>2, <1>3 DEF Orderly, NoneLost
<1>9. Told(s) => Told(w) BY <1>0, <1>1, <1>2, <1>3 DEF Told, MMWaits
<1>10. Live(w) = Live(s) \cup {c} BY <1>0, <1>2, Kinds DEF Live
<1> QED BY <1>1, <1>5, <1>6, <1>7, <1>8, <1>9, <1>10 DEF Orderly, w

-----------------------------------------------------------------------------
(***************************************************************************)
(* Whose image is where.                                                   *)
(***************************************************************************)
Where(s, p) == IF s.shadow[p] # 0 THEN s.shadow[p] ELSE s.core[p]

\* stshadow.c has not missed the process in place.
InPlaceFound(s) == s.panic \notin {"no shadow?", "only shadow(s)"}

\* ImageOwnership for any table: A is the set of the slots in use.
ImagesOK(s, A) ==
  /\ InPlaceFound(s)
  /\ \A p \in Live(s) : \E q \in Live(s) : s.core[q] = s.core[p] /\ s.shadow[q] = 0
  /\ \A p, q \in Live(s) : Where(s, p) = Where(s, q) => p = q
  /\ A = {Where(s, p) : p \in Live(s)}

\* A change that moves no image keeps the images in order.
LEMMA SameImagesOK ==
  ASSUME NEW s, NEW t, NEW A, SameImages(s, t), ImagesOK(s, A)
  PROVE  ImagesOK(t, A)
<1>1. \A p : Where(t, p) = Where(s, p) BY DEF SameImages, Where
<1>2. InPlaceFound(t) BY DEF SameImages, ImagesOK, InPlaceFound
<1> QED BY <1>1, <1>2 DEF SameImages, ImagesOK

\* After rmshadow(p) the others are in order without p, and the slot that is
\* reported free is the one that none of them uses any more.
LEMMA RmShadowImages ==
  ASSUME NEW s \in Table, NEW A, ImagesOK(s, A), NEW p \in Live(s)
  PROVE  LET t == rmshadow(s, p, FALSE)
             L == Live(s) \ {p}
         IN  /\ InPlaceFound(t) /\ t.shadow[p] = 0
             /\ \A r \in L : \E q \in L : s.core[q] = s.core[r] /\ t.shadow[q] = 0
             /\ \A r, q \in L : Where(t, r) = Where(t, q) => r = q
             /\ {Where(t, r) : r \in L} = A \ {Freed(s, p)}
<1> DEFINE t == rmshadow(s, p, FALSE)
           L == Live(s) \ {p}
           f == First(Sharers(s, p))
<1>0. /\ p \in User /\ s.shadow \in [User -> Slots \cup {0}] /\ L \subseteq User /\ 0 \notin Slots
      /\ \A r \in L : r \in Live(s) /\ r # p /\ r \in User
  BY SlotAssumption DEF Live, Table
<1>1. /\ t.core = s.core
      /\ s.shadow[p] # 0 => t.panic = s.panic /\ t.shadow = [s.shadow EXCEPT ![p] = 0]
      /\ s.shadow[p] = 0 /\ Sharers(s, p) = {} => t.panic = s.panic /\ t.shadow = s.shadow
      /\ s.shadow[p] = 0 /\ Sharers(s, p) # {} =>
           /\ f \in Sharers(s, p)
           /\ s.shadow[f] # 0 => t.panic = s.panic /\ t.shadow = [s.shadow EXCEPT ![f] = 0]
  BY <1>0, RmShadowFrame DEF Moves
<1> HIDE DEF t
<1>2. CASE s.shadow[p] # 0
  <2>1. Freed(s, p) = Where(s, p) BY <1>2 DEF Freed, Where
  <2>2. t.shadow[p] = 0 /\ \A r \in L : t.shadow[r] = s.shadow[r] /\ Where(t, r) = Where(s, r)
    BY <1>0, <1>1, <1>2 DEF Where
  <2>3. ASSUME NEW r \in L PROVE \E q \in L : s.core[q] = s.core[r] /\ t.shadow[q] = 0
    <3>1. PICK q \in Live(s) : s.core[q] = s.core[r] /\ s.shadow[q] = 0 BY DEF ImagesOK
    <3>2. q \in L BY <3>1, <1>2
    <3> QED BY <3>1, <3>2, <2>2
  <2>4. \A r, q \in L : Where(t, r) = Where(t, q) => r = q BY <1>0, <2>2 DEF ImagesOK
  <2>5. {Where(t, r) : r \in L} = A \ {Freed(s, p)} BY <1>0, <2>1, <2>2 DEF ImagesOK
  <2> QED BY <1>1, <1>2, <2>2, <2>3, <2>4, <2>5 DEF ImagesOK, InPlaceFound, t
<1>3. CASE s.shadow[p] = 0 /\ Sharers(s, p) = {}
  <2>1. Freed(s, p) = Where(s, p) BY <1>3 DEF Freed, Where
  <2>2. t.shadow[p] = 0 /\ \A r \in L : t.shadow[r] = s.shadow[r] /\ Where(t, r) = Where(s, r)
    BY <1>0, <1>1, <1>3 DEF Where
  <2>3. ASSUME NEW r \in L PROVE \E q \in L : s.core[q] = s.core[r] /\ t.shadow[q] = 0
    <3>1. PICK q \in Live(s) : s.core[q] = s.core[r] /\ s.shadow[q] = 0 BY DEF ImagesOK
    <3>2. q \in L BY <3>1, <1>3 DEF Sharers
    <3> QED BY <3>1, <3>2, <2>2
  <2>4. \A r, q \in L : Where(t, r) = Where(t, q) => r = q BY <1>0, <2>2 DEF ImagesOK
  <2>5. {Where(t, r) : r \in L} = A \ {Freed(s, p)} BY <1>0, <2>1, <2>2 DEF ImagesOK
  <2> QED BY <1>1, <1>3, <2>2, <2>3, <2>4, <2>5 DEF ImagesOK, InPlaceFound, t
<1>4. CASE s.shadow[p] = 0 /\ Sharers(s, p) # {}
  <2>0. f \in L /\ s.core[f] = s.core[p] /\ f \in User BY <1>0, <1>1, <1>4 DEF Sharers
  <2>1. s.shadow[f] # 0
    <3>1. SUFFICES ASSUME s.shadow[f] = 0 PROVE FALSE OBVIOUS
    <3>2. Where(s, f) = Where(s, p) BY <3>1, <2>0, <1>4 DEF Where
    <3> QED BY <3>2, <2>0 DEF ImagesOK
  <2>2. Freed(s, p) = Where(s, f) BY <1>4, <2>1 DEF Freed, Where
  <2> HIDE DEF f
  <2>3. /\ t.panic = s.panic /\ t.shadow[p] = 0 /\ t.shadow[f] = 0 /\ Where(t, f) = Where(s, p)
        /\ \A r \in L \ {f} : t.shadow[r] = s.shadow[r] /\ Where(t, r) = Where(s, r)
    BY <1>0, <1>1, <1>4, <2>0, <2>1 DEF Where, f
  <2>4. ASSUME NEW r \in L PROVE \E q \in L : s.core[q] = s.core[r] /\ t.shadow[q] = 0
    <3>1. PICK q \in Live(s) : s.core[q] = s.core[r] /\ s.shadow[q] = 0 BY DEF ImagesOK
    <3>2. CASE s.core[r] = s.core[p] BY <3>2, <2>0, <2>3
    <3>3. CASE s.core[r] # s.core[p]
      <4>1. q \in L /\ q # f BY <3>1, <3>3, <2>0
      <4> QED BY <3>1, <4>1, <2>3
    <3> QED BY <3>2, <3>3
  <2>5. ASSUME NEW r \in L, NEW q \in L, Where(t, r) = Where(t, q) PROVE r = q
    <3>1. CASE r # f /\ q # f BY <3>1, <2>3, <2>5, <1>0 DEF ImagesOK
    <3>2. CASE r = f /\ q # f
      <4>1. Where(s, p) = Where(s, q) BY <3>2, <2>3, <2>5
      <4> QED BY <4>1, <1>0 DEF ImagesOK
    <3>3. CASE q = f /\ r # f
      <4>1. Where(s, p) = Where(s, r) BY <3>3, <2>3, <2>5
      <4> QED BY <4>1, <1>0 DEF ImagesOK
    <3> QED BY <3>1, <3>2, <3>3
  <2>6. {Where(t, r) : r \in L} = A \ {Where(s, f)}
    <3>1. ASSUME NEW r \in L PROVE Where(t, r) \in A \ {Where(s, f)}
      <4>1. CASE r = f BY <4>1, <2>0, <2>3, <1>0 DEF ImagesOK
      <4>2. CASE r # f BY <4>2, <2>0, <2>3, <1>0 DEF ImagesOK
      <4> QED BY <4>1, <4>2
    <3>2. ASSUME NEW a \in A \ {Where(s, f)} PROVE \E r \in L : a = Where(t, r)
      <4>1. PICK q \in Live(s) : a = Where(s, q) BY DEF ImagesOK
      <4>2. CASE q = p BY <4>1, <4>2, <2>0, <2>3
      <4>3. CASE q # p
        <5>1. q \in L \ {f} BY <4>1, <4>3
        <5> QED BY <5>1, <4>1, <2>3
      <4> QED BY <4>2, <4>3
    <3> QED BY <3>1, <3>2
  <2> QED BY <2>2, <2>3, <2>4, <2>5, <2>6 DEF ImagesOK, InPlaceFound, t
<1> QED BY <1>2, <1>3, <1>4

\* XIT: the others share what is left.
LEMMA XitImages ==
  ASSUME NEW s, Good(s), NEW A, ImagesOK(s, A), NEW p \in Live(s)
  PROVE  ImagesOK(do_xit(s, p, FALSE), A \ {Freed(s, p)})
<1> DEFINE w == do_xit(s, p, FALSE)
           a == IF s.flags[p] = {} THEN unready(s, p) ELSE s
           t == rmshadow(a, p, FALSE)
           L == Live(s) \ {p}
<1>0. s \in Table /\ p \in User /\ p \in Proc /\ "P_SLOT_FREE" \notin s.flags[p]
  BY UserKind DEF Good, Live
<1>1. Live(w) = L /\ w.core = [s.core EXCEPT ![p] = 1] /\ w.shadow = t.shadow /\ w.panic = t.panic
  BY <1>0, XitFrame
<1> HIDE DEF w
<1>2. QueuesOnly(s, a)
  <2>1. QueuesOnly(s, s) BY <1>0 DEF QueuesOnly
  <2> QED BY <2>1, <1>0, UnreadyFrame
<1> HIDE DEF a
<1>3. a \in Table /\ a.core = s.core /\ a.shadow = s.shadow /\ Live(a) = Live(s)
  BY <1>2, QueuesSame DEF QueuesOnly, SameImages
<1>4. ImagesOK(a, A) BY <1>2, QueuesSame, SameImagesOK
<1>5. Freed(a, p) = Freed(s, p)
  <2>1. Sharers(a, p) = Sharers(s, p) BY <1>3 DEF Sharers
  <2> QED BY <2>1, <1>3 DEF Freed
<1>6. /\ InPlaceFound(t)
      /\ \A r \in L : \E q \in L : a.core[q] = a.core[r] /\ t.shadow[q] = 0
      /\ \A r, q \in L : Where(t, r) = Where(t, q) => r = q
      /\ {Where(t, r) : r \in L} = A \ {Freed(s, p)}
  <2> DEFINE M == Live(a) \ {p}
  <2>1. p \in Live(a) BY <1>3
  <2>2. /\ InPlaceFound(t)
        /\ \A r \in M : \E q \in M : a.core[q] = a.core[r] /\ t.shadow[q] = 0
        /\ \A r, q \in M : Where(t, r) = Where(t, q) => r = q
        /\ {Where(t, r) : r \in M} = A \ {Freed(a, p)}
    BY <2>1, <1>3, <1>4, RmShadowImages
  <2>3. M = L BY <1>3
  <2> HIDE DEF M, L, t
  <2> QED BY <2>2, <2>3, <1>5
<1>7. t.core = s.core BY <1>0, <1>3, RmShadowFrame DEF Moves
<1> HIDE DEF t
<1>8. \A r \in L : w.core[r] = s.core[r] /\ Where(w, r) = Where(t, r)
  <2>1. s.core \in [User -> Slots] /\ L \subseteq User BY <1>0 DEF Table, Live
  <2> QED BY <2>1, <1>1, <1>7 DEF Where
<1>9. InPlaceFound(w) BY <1>1, <1>6 DEF InPlaceFound
<1>10. \A r \in L : \E q \in L : w.core[q] = w.core[r] /\ w.shadow[q] = 0
  BY <1>1, <1>3, <1>6, <1>8
<1>11. \A r, q \in L : Where(w, r) = Where(w, q) => r = q BY <1>6, <1>8
<1>12. A \ {Freed(s, p)} = {Where(w, r) : r \in L} BY <1>6, <1>8
<1> HIDE DEF L
<1> QED BY <1>1, <1>9, <1>10, <1>11, <1>12 DEF ImagesOK, w

\* FRESH: p leaves its address to the others and has slot v for itself.
LEMMA FreshImages ==
  ASSUME NEW s \in Table, NEW A, ImagesOK(s, A), NEW p \in Live(s), NEW v \in Slots \ A
  PROVE  ImagesOK(do_fresh(s, p, v, FALSE), (A \cup {v}) \ {Freed(s, p)})
<1> DEFINE w == do_fresh(s, p, v, FALSE)
           t == rmshadow(s, p, FALSE)
           L == Live(s) \ {p}
<1>0. p \in User /\ L \subseteq User /\ Live(s) = L \cup {p} BY DEF Live
<1>1. /\ Live(w) = Live(s) /\ w.core = [s.core EXCEPT ![p] = v]
      /\ w.shadow = t.shadow /\ w.panic = t.panic
  BY <1>0, FreshFrame
<1>2. t.core = s.core BY <1>0, RmShadowFrame DEF Moves
<1>3. /\ InPlaceFound(t) /\ t.shadow[p] = 0
      /\ \A r \in L : \E q \in L : s.core[q] = s.core[r] /\ t.shadow[q] = 0
      /\ \A r, q \in L : Where(t, r) = Where(t, q) => r = q
      /\ {Where(t, r) : r \in L} = A \ {Freed(s, p)}
  BY RmShadowImages
<1>4. v # Freed(s, p)
  <2>1. Freed(s, p) \in A
    <3>1. CASE s.shadow[p] # 0
      <4>1. Freed(s, p) = Where(s, p) BY <3>1 DEF Freed, Where
      <4> QED BY <4>1 DEF ImagesOK
    <3>2. CASE s.shadow[p] = 0 /\ Sharers(s, p) = {}
      <4>1. Freed(s, p) = Where(s, p) BY <3>2 DEF Freed, Where
      <4> QED BY <4>1 DEF ImagesOK
    <3>3. CASE s.shadow[p] = 0 /\ Sharers(s, p) # {}
      <4> DEFINE f == First(Sharers(s, p))
      <4>1. f \in Sharers(s, p) BY <3>3, FirstType DEF Sharers, Live
      <4>2. f \in Live(s) /\ f # p /\ s.core[f] = s.core[p] BY <4>1 DEF Sharers
      <4>3. s.shadow[f] # 0
        <5>1. SUFFICES ASSUME s.shadow[f] = 0 PROVE FALSE OBVIOUS
        <5>2. Where(s, f) = Where(s, p) BY <5>1, <4>2, <3>3 DEF Where
        <5> QED BY <5>2, <4>2 DEF ImagesOK
      <4>4. Freed(s, p) = Where(s, f) BY <3>3, <4>3 DEF Freed, Where
      <4> QED BY <4>2, <4>4 DEF ImagesOK
    <3> QED BY <3>1, <3>2, <3>3
  <2> QED BY <2>1
<1> HIDE DEF t, w
<1>5. /\ \A r \in L : w.core[r] = s.core[r] /\ Where(w, r) = Where(t, r)
      /\ w.core[p] = v /\ w.shadow[p] = 0 /\ Where(w, p) = v
  <2>1. s.core \in [User -> Slots] BY DEF Table
  <2> QED BY <2>1, <1>0, <1>1, <1>2, <1>3 DEF Where
<1>6. ASSUME NEW r \in Live(w) PROVE \E q \in Live(w) : w.core[q] = w.core[r] /\ w.shadow[q] = 0
  <2>1. CASE r = p BY <2>1, <1>0, <1>1, <1>5
  <2>2. CASE r # p
    <3>1. r \in L BY <2>2, <1>1
    <3>2. PICK q \in L : s.core[q] = s.core[r] /\ t.shadow[q] = 0 BY <3>1, <1>3
    <3>3. q \in Live(w) /\ w.core[q] = w.core[r] /\ w.shadow[q] = 0 BY <3>1, <3>2, <1>1, <1>5
    <3> QED BY <3>3
  <2> QED BY <2>1, <2>2
<1>7. \A r \in L : Where(w, r) \in A BY <1>3, <1>5
<1>8. \A r, q \in Live(w) : Where(w, r) = Where(w, q) => r = q
  BY <1>1, <1>3, <1>5, <1>7
<1>9. (A \cup {v}) \ {Freed(s, p)} = {Where(w, r) : r \in Live(w)}
  <2>1. {Where(w, r) : r \in L} = A \ {Freed(s, p)} BY <1>3, <1>5
  <2>2. {Where(w, r) : r \in Live(w)} = {Where(w, r) : r \in L} \cup {v} BY <1>0, <1>1, <1>5
  <2> QED BY <2>1, <2>2, <1>4
<1> QED BY <1>1, <1>3, <1>6, <1>8, <1>9 DEF ImagesOK, InPlaceFound, w

\* FORK: the child has the parent's old image, the parent the new slot.
LEMMA ForkImages ==
  ASSUME NEW s, Good(s), Orderly(s), NEW A, ImagesOK(s, A), NEW p \in Live(s),
         "RECEIVING" \in s.flags[p], "SENDING" \notin s.flags[p], NEW c \in User \ Live(s),
         NEW v \in Slots \ A
  PROVE  ImagesOK(do_fork(s, p, c, v), A \cup {v})
<1> DEFINE w == do_fork(s, p, c, v)
<1>0. p \in User /\ c \in User /\ p # c /\ v # 0 /\ s \in Table BY SlotAssumption DEF Live, Good
<1>1. /\ Live(w) = Live(s) \cup {c} /\ w.core = [s.core EXCEPT ![c] = s.core[p]]
      /\ w.shadow = [s.shadow EXCEPT ![c] = s.shadow[p], ![p] = v] /\ w.panic = s.panic
  BY ForkOrderly
<1> HIDE DEF w
<1>2. /\ w.core[c] = s.core[p] /\ w.shadow[c] = s.shadow[p] /\ w.shadow[p] = v
      /\ \A r \in User \ {c} : w.core[r] = s.core[r]
      /\ \A r \in User \ {c, p} : w.shadow[r] = s.shadow[r]
  <2>1. s.core \in [User -> Slots] /\ s.shadow \in [User -> Slots \cup {0}] BY <1>0 DEF Table
  <2> QED BY <2>1, <1>0, <1>1
<1>3. Live(s) \subseteq User /\ c \notin Live(s) BY DEF Live
<1>4. /\ Where(w, c) = Where(s, p) /\ Where(w, p) = v
      /\ \A r \in Live(s) \ {p} : Where(w, r) = Where(s, r)
  BY <1>0, <1>2, <1>3 DEF Where
<1>5. ASSUME NEW r \in Live(w) PROVE \E q \in Live(w) : w.core[q] = w.core[r] /\ w.shadow[q] = 0
  <2> DEFINE o == IF r = c THEN p ELSE r
  <2>1. o \in Live(s) /\ w.core[r] = s.core[o] BY <1>1, <1>2, <1>3
  <2>2. PICK q \in Live(s) : s.core[q] = s.core[o] /\ s.shadow[q] = 0 BY <2>1 DEF ImagesOK
  <2>3. CASE q = p
    <3>1. c \in Live(w) /\ w.core[c] = w.core[r] /\ w.shadow[c] = 0 BY <2>1, <2>2, <2>3, <1>1, <1>2
    <3> QED BY <3>1
  <2>4. CASE q # p
    <3>1. q \in Live(w) /\ w.core[q] = w.core[r] /\ w.shadow[q] = 0
      BY <2>1, <2>2, <2>4, <1>1, <1>2, <1>3
    <3> QED BY <3>1
  <2> QED BY <2>3, <2>4
<1>6. \A r \in Live(s) : Where(s, r) \in A BY DEF ImagesOK
<1>7. ASSUME NEW r \in Live(w), NEW q \in Live(w), Where(w, r) = Where(w, q) PROVE r = q
  <2>1. CASE r = p \/ q = p
    <3>1. \A x \in Live(w) \ {p} : Where(w, x) # v BY <1>0, <1>1, <1>4, <1>6
    <3> QED BY <2>1, <3>1, <1>4, <1>7
  <2>2. CASE r # p /\ q # p
    <3> DEFINE R == IF r = c THEN p ELSE r
               Q == IF q = c THEN p ELSE q
    <3>1. R \in Live(s) /\ Q \in Live(s) /\ Where(s, R) = Where(w, r) /\ Where(s, Q) = Where(w, q)
      BY <2>2, <1>1, <1>3, <1>4
    <3>2. R = Q BY <3>1, <1>7 DEF ImagesOK
    <3> QED BY <3>2, <2>2
  <2> QED BY <2>1, <2>2
<1>8. A \cup {v} = {Where(w, r) : r \in Live(w)}
  <2>1. ASSUME NEW r \in Live(w) PROVE Where(w, r) \in A \cup {v} BY <1>1, <1>4, <1>6
  <2>2. ASSUME NEW a \in A PROVE \E r \in Live(w) : a = Where(w, r)
    <3>1. PICK q \in Live(s) : a = Where(s, q) BY DEF ImagesOK
    <3>2. CASE q = p BY <3>1, <3>2, <1>1, <1>4
    <3>3. CASE q # p BY <3>1, <3>3, <1>1, <1>4
    <3> QED BY <3>2, <3>3
  <2>3. p \in Live(w) /\ v = Where(w, p) BY <1>1, <1>4
  <2> QED BY <2>1, <2>2, <2>3
<1>9. InPlaceFound(w) BY <1>1 DEF ImagesOK, InPlaceFound
<1> QED BY <1>5, <1>7, <1>8, <1>9 DEF ImagesOK, w

\* unshadow(): two processes at the same address exchange slots.
LEMMA UnShadowImages ==
  ASSUME NEW s \in Table, NEW A, ImagesOK(s, A), NEW h \in Live(s), s.shadow[h] # 0
  PROVE  ImagesOK(unshadow(s, h), A)
<1> DEFINE w == unshadow(s, h)
           owners == {q \in Sharers(s, h) : s.shadow[q] = 0}
           q == First(owners)
<1>0. h \in User /\ Live(s) \subseteq User BY DEF Live
<1>1. owners # {}
  <2>1. PICK o \in Live(s) : s.core[o] = s.core[h] /\ s.shadow[o] = 0 BY DEF ImagesOK
  <2> QED BY <2>1 DEF Sharers
<1>2. /\ Moves(s, w) /\ q \in owners /\ w.panic = s.panic
      /\ w.shadow = [s.shadow EXCEPT ![q] = s.shadow[h], ![h] = 0]
  BY <1>0, <1>1, UnShadowFrame
<1>3. q \in Live(s) /\ q # h /\ s.core[q] = s.core[h] /\ s.shadow[q] = 0 BY <1>2 DEF Sharers
<1> HIDE DEF w, q, owners
<1>4. Live(w) = Live(s) /\ w.core = s.core BY <1>2, MovesEases DEF Moves
<1>5. /\ w.shadow[h] = 0 /\ w.shadow[q] = s.shadow[h]
      /\ \A r \in Live(s) \ {h, q} : w.shadow[r] = s.shadow[r]
  <2>1. s.shadow \in [User -> Slots \cup {0}] BY DEF Table
  <2> QED BY <2>1, <1>0, <1>2, <1>3
<1>6. /\ Where(w, h) = Where(s, q) /\ Where(w, q) = Where(s, h)
      /\ \A r \in Live(s) \ {h, q} : Where(w, r) = Where(s, r)
  BY <1>3, <1>4, <1>5 DEF Where
<1>7. ASSUME NEW r \in Live(w) PROVE \E x \in Live(w) : w.core[x] = w.core[r] /\ w.shadow[x] = 0
  <2>1. PICK o \in Live(s) : s.core[o] = s.core[r] /\ s.shadow[o] = 0 BY <1>4 DEF ImagesOK
  <2>2. CASE o = q BY <2>1, <2>2, <1>3, <1>4, <1>5
  <2>3. CASE o # q
    <3>1. o # h BY <2>1
    <3> QED BY <3>1, <2>1, <2>3, <1>4, <1>5
  <2> QED BY <2>2, <2>3
<1> DEFINE Sw(x) == IF x = h THEN q ELSE IF x = q THEN h ELSE x
<1>8. \A x \in Live(s) : /\ Sw(x) \in Live(s) /\ Sw(Sw(x)) = x /\ Where(w, x) = Where(s, Sw(x))
                         /\ Where(w, Sw(x)) = Where(s, x)
  BY <1>3, <1>6
<1> HIDE DEF Sw
<1>9. ASSUME NEW r \in Live(w), NEW x \in Live(w), Where(w, r) = Where(w, x) PROVE r = x
  <2>1. Sw(r) = Sw(x) BY <1>4, <1>8, <1>9 DEF ImagesOK
  <2> QED BY <2>1, <1>4, <1>8
<1>10. A = {Where(w, r) : r \in Live(w)}
  <2>1. A = {Where(s, r) : r \in Live(s)} BY DEF ImagesOK
  <2>2. \A r \in Live(s) : \E x \in Live(s) : Where(w, r) = Where(s, x) BY <1>8
  <2>3. \A r \in Live(s) : \E x \in Live(s) : Where(s, r) = Where(w, x) BY <1>8
  <2> QED BY <2>1, <2>2, <2>3, <1>4
<1>11. InPlaceFound(w) BY <1>2 DEF ImagesOK, InPlaceFound
<1> QED BY <1>7, <1>9, <1>10, <1>11 DEF ImagesOK, w

-----------------------------------------------------------------------------
(***************************************************************************)
(* The invariant and what follows from it.                                 *)
(***************************************************************************)
\* What IInv does not say: who waits for whom, and whose image is where.
SInv == IInv /\ Orderly(k) /\ Told(k) /\ ImagesOK(k, alloc)

\* The boot state satisfies the invariant.
LEMMA InitSInv == Init => SInv
<1> SUFFICES ASSUME Init PROVE SInv OBVIOUS
<1>1. IInv BY InitIInv
<1>2. /\ k.flags = [p \in Proc |-> IF p <= LOW_USER THEN {} ELSE {"P_SLOT_FREE"}]
      /\ k.int_blocked = {} /\ k.sig_procs = 0 /\ k.core = [p \in User |-> 1]
      /\ k.shadow = [p \in User |-> 0] /\ k.panic = "none" /\ alloc = {1}
  BY DEF Init
<1>3. \A p \in Proc : ~IsSending(k, p) /\ ~IsReceiving(k, p) BY <1>2 DEF IsSending, IsReceiving
<1>4. BothSame(k) /\ Met(k) /\ NoneLost(k) BY <1>2, <1>3 DEF BothSame, Met, NoneLost
<1>5. NoRing(k) BY <1>3 DEF NoRing, Ring
<1>6. Told(k) BY <1>2 DEF Told
<1>7. Live(k) = {LOW_USER}
  BY <1>2, Kinds, SizeAssumption DEF Live, User, LOW_USER
<1>8. LOW_USER \in User BY SizeAssumption DEF User, LOW_USER
<1>9. ImagesOK(k, alloc)
  <2>1. k.core[LOW_USER] = 1 /\ k.shadow[LOW_USER] = 0 BY <1>2, <1>8
  <2> QED BY <1>2, <1>7, <2>1 DEF ImagesOK, InPlaceFound, Where
<1> QED BY <1>1, <1>4, <1>5, <1>6, <1>9 DEF SInv, Orderly

\* Every step of the kernel keeps the invariant.
LEMMA StepSInv == SInv /\ StopsAgree /\ [Next]_vars => SInv'
<1> SUFFICES ASSUME SInv, StopsAgree, [Next]_vars PROVE SInv' OBVIOUS
<1>0. IInv /\ IInv' BY StepIInv DEF SInv
<1>1. Good(k) /\ Settled(k) /\ k \in Table /\ Orderly(k) /\ Told(k) /\ ImagesOK(k, alloc)
  BY <1>0 DEF SInv, IInv, Good
<1>2. SUFFICES Orderly(k') /\ Told(k') /\ ImagesOK(k', alloc') BY <1>0 DEF SInv
<1>3. ASSUME Eases(k, k'), SameImages(k, k'), UNCHANGED alloc
      PROVE  Orderly(k') /\ Told(k') /\ ImagesOK(k', alloc')
  BY <1>1, <1>3, EasesOrderly, SameImagesOK
<1>4. CASE SysCall
  BY <1>1, <1>4, SysCallOrderly, SameImagesOK DEF SysCall
<1>5. CASE Interrupt
  <2>1. PICK t \in Driver : k' = interrupt(k, t) /\ UNCHANGED alloc BY <1>5 DEF Interrupt
  <2> QED BY <1>1, <2>1, DriverAssumption, InterruptOrderly, SameImagesOK
<1>6. CASE HoldInterrupt
  <2>1. PICK t \in Driver : k' = hold(k, t) /\ UNCHANGED alloc BY <1>6 DEF HoldInterrupt
  <2>2. Eases(k, k') /\ SameImages(k, k')
    <3>1. CASE Contains(k.held, t)
      <4>1. k' = k BY <2>1, <3>1 DEF hold
      <4> QED BY <4>1 DEF Eases, SameImages
    <3>2. CASE ~Contains(k.held, t)
      <4>1. k' = [k EXCEPT !.held = Append(@, t)] BY <2>1, <3>2 DEF hold
      <4> QED BY <4>1, <1>1, HeldOrderly
    <3> QED BY <3>1, <3>2
  <2> QED BY <1>3, <2>1, <2>2
<1>7. CASE Unhold
  <2> DEFINE h == [k EXCEPT !.held = Tail(@)]
  <2>1. k' = interrupt(h, Head(k.held)) /\ UNCHANGED alloc BY <1>7 DEF Unhold, unhold
  <2>2. k.held # << >> /\ k.held \in Seq(Task) BY <1>0, <1>1, <1>7 DEF Unhold, IInv, Table
  <2>a. Tail(k.held) \in Seq(Task) /\ Head(k.held) \in Task BY <2>2
  <2>b. h \in Table BY <1>1, <2>a DEF Table
  <2>3. h \in Table /\ Head(k.held) \in Task BY <2>a, <2>b
  <2>4. Eases(k, h) /\ SameImages(k, h) BY <1>1, HeldOrderly
  <2> HIDE DEF h
  <2>5. Orderly(h) /\ Told(h) BY <1>1, <2>4, EasesOrderly
  <2>6. Orderly(k') /\ Told(k') /\ SameImages(h, k') BY <2>1, <2>3, <2>5, InterruptOrderly
  <2> QED BY <1>1, <2>1, <2>4, <2>6, SameTrans, SameImagesOK
<1>8. CASE UserTrap
  <2>1. PICK p \in User, sig \in Sig : Running(p) /\ k' = cause_sig(k, p, sig) /\ UNCHANGED alloc
    BY <1>8 DEF UserTrap
  <2>2. p # IDLE /\ k.proc_ptr = p BY <2>1, UserKind DEF Running
  <2>3. k.flags[p] = {} BY <1>1, <2>2, RunningOnTop DEF OnTop
  <2> QED BY <1>1, <1>3, <2>1, <2>3, CauseSigEases
<1>9. CASE TaskSignal \/ Kill
  <2>1. PICK p \in Live(k), sig \in Sig : k' = cause_sig(k, p, sig) /\ UNCHANGED alloc
    BY <1>9 DEF TaskSignal, Kill
  <2>2. p \in User /\ "P_SLOT_FREE" \notin k.flags[p] BY DEF Live
  <2> QED BY <1>1, <1>3, <2>1, <2>2, CauseSigEases
<1>10. CASE ClockTick
  <2>1. PICK p \in Live(k) \cup {IDLE}, sig \in Sig, expired \in BOOLEAN, flip \in BOOLEAN :
          k' = do_clocktick(k, p, sig, expired, flip) /\ UNCHANGED alloc
    BY <1>10 DEF ClockTick
  <2>2. p \in User \cup {IDLE} /\ (p \in User => "P_SLOT_FREE" \notin k.flags[p])
    BY UserKind DEF Live
  <2>3. /\ Eases(k, k')
        /\ \/ SameImages(k, k')
           \/ \E u \in Table : \E h \in Live(k) : SameImages(k, u) /\ k.shadow[h] # 0 /\ k' = unshadow(u, h)
    BY <1>1, <2>1, <2>2, TickEases
  <2>4. CASE SameImages(k, k') BY <1>3, <2>1, <2>3, <2>4
  <2>5. CASE \E u \in Table : \E h \in Live(k) : SameImages(k, u) /\ k.shadow[h] # 0 /\ k' = unshadow(u, h)
    <3>1. PICK u \in Table : \E h \in Live(k) : SameImages(k, u) /\ k.shadow[h] # 0 /\ k' = unshadow(u, h)
      BY <2>5
    <3>2. PICK h \in Live(k) : SameImages(k, u) /\ k.shadow[h] # 0 /\ k' = unshadow(u, h) BY <3>1
    <3>3. ImagesOK(u, alloc) BY <1>1, <3>2, SameImagesOK
    <3>4. h \in Live(u) /\ u.shadow[h] # 0 BY <3>2 DEF SameImages
    <3>5. ImagesOK(k', alloc) BY <3>2, <3>3, <3>4, UnShadowImages
    <3> QED BY <1>1, <2>1, <2>3, <3>5, EasesOrderly
  <2> QED BY <2>3, <2>4, <2>5
<1>11. CASE Fork
  <2>1. PICK p \in Live(k), c \in User \ Live(k), v \in Slots \ alloc :
          InCall(p) /\ k' = do_fork(k, p, c, v) /\ alloc' = alloc \cup {v}
    BY <1>11 DEF Fork
  <2>2. Orderly(k') /\ Told(k') BY <1>1, <2>1, ForkOrderly DEF InCall
  <2>3. ImagesOK(k', alloc') BY <1>1, <2>1, ForkImages DEF InCall
  <2> QED BY <2>2, <2>3
<1>a. ASSUME k' = [k EXCEPT !.panic = "physio"], UNCHANGED alloc
      PROVE  Orderly(k') /\ Told(k') /\ ImagesOK(k', alloc')
  <2>1. /\ k'.flags = k.flags /\ k'.getfrom = k.getfrom /\ k'.sendto = k.sendto
        /\ k'.int_blocked = k.int_blocked /\ k'.sig_procs = k.sig_procs /\ k'.core = k.core
        /\ k'.shadow = k.shadow /\ k'.panic = "physio"
    BY <1>1, <1>a DEF Table
  <2>2. Eases(k, k') /\ Live(k') = Live(k) BY <2>1 DEF Eases, IsSending, IsReceiving, Live
  <2>3. \A p : Where(k', p) = Where(k, p) BY <2>1 DEF Where
  <2>5. InPlaceFound(k') BY <2>1 DEF InPlaceFound
  <2>6. /\ \A p \in Live(k') : \E q \in Live(k') : k'.core[q] = k'.core[p] /\ k'.shadow[q] = 0
        /\ \A p, q \in Live(k') : Where(k', p) = Where(k', q) => p = q
    BY <1>1, <2>1, <2>2, <2>3 DEF ImagesOK
  <2>7. alloc' = {Where(k', p) : p \in Live(k')} BY <1>1, <1>a, <2>2, <2>3 DEF ImagesOK
  <2>4. ImagesOK(k', alloc') BY <2>5, <2>6, <2>7 DEF ImagesOK
  <2> QED BY <1>1, <2>2, <2>4, EasesOrderly
<1>12. CASE Fresh
  <2>1. PICK p \in Live(k), v \in Slots \ alloc, busy \in BOOLEAN :
          /\ InCall(p) /\ k' = Halting(k, do_fresh(k, p, v, busy))
          /\ alloc' = IF k'.panic = "none" THEN (alloc \cup {v}) \ {Freed(k, p)} ELSE alloc
    BY <1>12 DEF Fresh
  <2> DEFINE w == do_fresh(k, p, v, busy)
             n == do_fresh(k, p, v, FALSE)
  <2>2. p \in User /\ v \in Slots /\ k.flags[p] # {} BY <2>1 DEF Live, InCall
  <2>3. Ends(k, n, k')
    <3>1. Ends(k, n, Halting(k, w)) BY <1>1, <2>2, FreshHalts, Zenon
    <3> QED BY <2>1, <3>1
  <2>4. Eases(k, n) BY <1>1, <2>2, FreshFrame
  <2>5. ImagesOK(n, (alloc \cup {v}) \ {Freed(k, p)}) BY <1>1, FreshImages
  <2> HIDE DEF w, n
  <2>6. CASE k' = n /\ n.panic = "none"
    <3>1. k' = n /\ alloc' = (alloc \cup {v}) \ {Freed(k, p)} BY <2>1, <2>6
    <3> QED BY <1>1, <2>4, <2>5, <3>1, EasesOrderly
  <2>7. CASE \E m \in Panic \ {"none"} : k' = [k EXCEPT !.panic = m] /\ (m = "physio" \/ n.panic = m)
    <3>1. PICK m \in Panic \ {"none"} : k' = [k EXCEPT !.panic = m] /\ (m = "physio" \/ n.panic = m)
      BY <2>7
    <3>2. m = "physio" BY <2>5, <3>1 DEF ImagesOK, InPlaceFound, Panic
    <3>3. k' = [k EXCEPT !.panic = "physio"] BY <3>1, <3>2, Zenon
    <3>4. [k EXCEPT !.panic = "physio"].panic = "physio" BY <1>1 DEF Table
    <3>5. UNCHANGED alloc BY <2>1, <3>3, <3>4
    <3> QED BY <1>a, <3>3, <3>5
  <2> QED BY <2>3, <2>6, <2>7 DEF Ends
<1>13. CASE Exec
  <2>1. PICK p \in Live(k), traced \in BOOLEAN : k' = do_exec(k, p, traced) /\ UNCHANGED alloc
    BY <1>13 DEF Exec
  <2>2. p \in User /\ "P_SLOT_FREE" \notin k.flags[p] BY DEF Live
  <2> QED BY <1>1, <1>3, <2>1, <2>2, ExecEases
<1>14. CASE Xit
  <2>1. PICK p \in Live(k), busy \in BOOLEAN :
          /\ k' = Halting(k, do_xit(k, p, busy))
          /\ alloc' = IF k'.panic = "none" THEN alloc \ {Freed(k, p)} ELSE alloc
    BY <1>14 DEF Xit
  <2> DEFINE w == do_xit(k, p, busy)
             n == do_xit(k, p, FALSE)
  <2>2. p \in User /\ "P_SLOT_FREE" \notin k.flags[p] BY DEF Live
  <2>3. Ends(k, n, k')
    <3>1. Ends(k, n, Halting(k, w)) BY <1>1, <2>2, XitHalts, Zenon
    <3> QED BY <2>1, <3>1
  <2>4. Eases(k, n) BY <1>1, <2>2, XitFrame
  <2>5. ImagesOK(n, alloc \ {Freed(k, p)}) BY <1>1, XitImages
  <2> HIDE DEF w, n
  <2>6. CASE k' = n /\ n.panic = "none"
    <3>1. k' = n /\ alloc' = alloc \ {Freed(k, p)} BY <2>1, <2>6
    <3> QED BY <1>1, <2>4, <2>5, <3>1, EasesOrderly
  <2>7. CASE \E m \in Panic \ {"none"} : k' = [k EXCEPT !.panic = m] /\ (m = "physio" \/ n.panic = m)
    <3>1. PICK m \in Panic \ {"none"} : k' = [k EXCEPT !.panic = m] /\ (m = "physio" \/ n.panic = m)
      BY <2>7
    <3>2. m = "physio" BY <2>5, <3>1 DEF ImagesOK, InPlaceFound, Panic
    <3>3. k' = [k EXCEPT !.panic = "physio"] BY <3>1, <3>2, Zenon
    <3>4. [k EXCEPT !.panic = "physio"].panic = "physio" BY <1>1 DEF Table
    <3>5. UNCHANGED alloc BY <2>1, <3>3, <3>4
    <3> QED BY <1>a, <3>3, <3>5
  <2> QED BY <2>3, <2>6, <2>7 DEF Ends
<1>15. CASE EndSig
  <2>1. PICK p \in Live(k) : k.court[p] > 0 /\ k' = do_endsig(k, p) /\ UNCHANGED alloc
    BY <1>15 DEF EndSig
  <2>2. p \in User BY DEF Live
  <2> QED BY <1>1, <1>3, <2>1, <2>2, EndSigFrame
<1>16. CASE Trace
  <2>1. PICK p \in Live(k), request \in {"T_STOP", "T_RESUME"} :
          k' = do_trace(k, p, request) /\ UNCHANGED alloc
    BY <1>16 DEF Trace
  <2>2. p \in User BY DEF Live
  <2> QED BY <1>1, <1>3, <2>1, <2>2, TraceFrame
<1>17. CASE UNCHANGED vars
  <2>1. k' = k /\ alloc' = alloc BY <1>17 DEF vars
  <2>2. Eases(k, k') /\ SameImages(k, k') BY <2>1 DEF Eases, SameImages
  <2> QED BY <1>3, <2>1, <2>2
<1>18. CASE Halted BY <1>17, <1>18 DEF Halted
<1> QED BY <1>4, <1>5, <1>6, <1>7, <1>8, <1>9, <1>10, <1>11, <1>12, <1>13, <1>14, <1>15, <1>16,
           <1>17, <1>18 DEF Next

\* The strengthened invariant holds in every state of every instance, under
\* the condition of Invariance.
THEOREM SafetyInvariance == Spec /\ []StopsAgree => []SInv
<1> QED BY InitSInv, StepSInv, PTL DEF Spec

\* In every instance no rendezvous is missed: mini_send() and mini_rec() meet
\* whichever comes first, after any mix of sends, receives, signals, forks and
\* exits.
THEOREM Rendezvous == Spec /\ []StopsAgree => []NoMissedRendezvous
<1>1. SInv => NoMissedRendezvous
  <2> SUFFICES ASSUME SInv, NEW d \in Proc, NEW i \in DOMAIN k.callerq[d]
               PROVE  ~Accepts(k, d, k.callerq[d][i])
    BY DEF NoMissedRendezvous
  <2>1. k.callerq[d] \in Seq(Proc) /\ Lists(k.callerq[d], Senders(k, d)) /\ Met(k)
    BY DEF SInv, IInv, Good, Table, CallersListed, Orderly
  <2>2. k.callerq[d][i] \in Proc /\ Contains(k.callerq[d], k.callerq[d][i]) BY <2>1 DEF Contains
  <2>3. k.callerq[d][i] \in Senders(k, d) BY <2>1, <2>2 DEF Lists
  <2> QED BY <2>1, <2>3 DEF Senders, Met, IsSending
<1> QED BY <1>1, SafetyInvariance, PTL

\* In every instance the walk of mini_send() along p_sendto finds every cycle:
\* no set of processes is ever blocked sending to each other.
THEOREM DeadlockFree == Spec /\ []StopsAgree => []NoSendCycle
<1>1. SInv => NoSendCycle
  <2> SUFFICES ASSUME SInv PROVE NoSendCycle OBVIOUS
  <2> DEFINE senders == {p \in Proc : "SENDING" \in k.flags[p]}
  <2>1. NoRing(k) BY DEF SInv, Orderly
  <2>2. SUFFICES ASSUME NEW S \in (SUBSET senders) \ {{}}, \A p \in S : k.sendto[p] \in S PROVE FALSE
    BY DEF NoSendCycle
  <2>3. S \in SUBSET Proc /\ S # {} /\ \A p \in S : "SENDING" \in k.flags[p] OBVIOUS
  <2>4. Ring(k, S) BY <2>2, <2>3 DEF Ring, IsSending
  <2> QED BY <2>1, <2>3, <2>4 DEF NoRing
<1> QED BY <1>1, SafetyInvariance, PTL

\* In every instance no interrupt is lost between interrupt(), hold(), unhold()
\* and the task's next receive().
THEOREM InterruptsKept == Spec /\ []StopsAgree => []NoLostInterrupt
<1>1. SInv => NoLostInterrupt
  BY DEF SInv, Orderly, NoneLost, NoLostInterrupt, IsSending, IsReceiving
<1> QED BY <1>1, SafetyInvariance, PTL

\* In every instance MM does not wait for work while sig_procs > 0.
THEOREM MMTold == Spec /\ []StopsAgree => []SignalsReachMM
<1>1. SInv => SignalsReachMM BY DEF SInv, Told, MMWaits, SignalsReachMM, IsReceiving
<1> QED BY <1>1, SafetyInvariance, PTL

\* In every instance, after any forks, execs, exits and exchanges, exactly one
\* of the processes at an address is in place, no two images share a slot, the
\* slots in use are those that are allocated, and stshadow.c never misses the
\* process in place (it panics, if at all, over a sharer in physio).
THEOREM ImagesOwned == Spec /\ []StopsAgree => []ImageOwnership
<1>1. SInv => ImageOwnership
  <2> SUFFICES ASSUME SInv PROVE ImageOwnership OBVIOUS
  <2>1. ImagesOK(k, alloc) BY DEF SInv
  <2>2. \A p : Image(p) = Where(k, p) BY DEF Image, Where
  <2>3. alloc = {Image(p) : p \in Live(k)} BY <2>1, <2>2 DEF ImagesOK
  <2> QED BY <2>1, <2>2, <2>3 DEF ImagesOK, InPlaceFound, ImageOwnership
<1> QED BY <1>1, SafetyInvariance, PTL

\* In every instance a process runs only while its image is at its address.
THEOREM InPlace == Spec /\ []StopsAgree => []RunsInPlace
<1>1. IInv => RunsInPlace
  <2> SUFFICES ASSUME IInv, k.proc_ptr \in User PROVE k.shadow[k.proc_ptr] = 0 BY DEF RunsInPlace
  <2>1. k \in Table /\ Queued(k, Runnable(k)) /\ Settled(k) /\ Runnable(k) \in SUBSET Proc
    BY DEF IInv, Good, Runnable
  <2>2. \A q \in Queue : k.rdy[q] # << >> => QueueOf(k, Head(k.rdy[q])) = q BY <2>1, HeadQueued
  <2>3. QueueOf(k, k.proc_ptr) \notin {TASK_Q, SERVER_Q} /\ k.proc_ptr # IDLE BY QueueKind, UserKind
  <2>4. QueueOf(k, k.proc_ptr) = USER_Q BY <2>1, <2>2, <2>3, SettledCases DEF Queue
  <2>5. ~isshadowp(k, k.proc_ptr)
    BY <2>4 DEF QueueOf, TASK_Q, SERVER_Q, USER_Q, SHADOW_Q
  <2> QED BY <2>5 DEF isshadowp
<1> QED BY <1>1, Invariance, PTL

-----------------------------------------------------------------------------
(***************************************************************************)
(* When the stops of MM and of the kernel agree.                           *)
(***************************************************************************)
\* Two changes in which nobody that is stopped goes on.
LEMMA StaysTrans ==
  ASSUME NEW s, NEW t, NEW u, Stays(s, t), Stays(t, u)
  PROVE  Stays(s, u)
BY DEF Stays

\* Setting flags resumes nobody.
LEMMA BlockStays ==
  ASSUME NEW s \in Table, NEW p \in Proc, NEW bits \in SUBSET Flag
  PROVE  Block(s, p, bits) \in Table /\ Stays(s, Block(s, p, bits))
<1> DEFINE t == Block(s, p, bits)
<1>1. t \in Table /\ t.flags = [s.flags EXCEPT ![p] = @ \cup bits] BY BlockFrame DEF Keeps
<1> HIDE DEF t
<1>2. \A x \in Proc : s.flags[x] \subseteq t.flags[x] BY <1>1 DEF Table
<1>3. Stays(s, t) BY <1>2, Kinds DEF Stays
<1> QED BY <1>1, <1>3 DEF t

\* Clearing flags other than P_STOP resumes nobody.
LEMMA ReleaseStays ==
  ASSUME NEW s \in Table, NEW p \in Proc, NEW bits \in SUBSET Flag, "P_STOP" \notin bits
  PROVE  Stays(s, Release(s, p, bits))
<1> DEFINE t == Release(s, p, bits)
<1>1. /\ Keeps(s, t)
      /\ t.flags = [s.flags EXCEPT ![p] = @ \ bits]
      /\ t.getfrom = [s.getfrom EXCEPT ![p] = IF "RECEIVING" \in bits THEN ANY ELSE @]
      /\ t.sendto = [s.sendto EXCEPT ![p] = IF "SENDING" \in bits THEN HARDWARE ELSE @]
  BY ReleaseFrame
<1> HIDE DEF t
<1>2. \A x \in Proc : s.flags[x] \ bits \subseteq t.flags[x] BY <1>1 DEF Table
<1>3. Stays(s, t) BY <1>2, Kinds DEF Stays
<1> QED BY <1>3 DEF t

\* A send resumes nobody that is stopped.
LEMMA SendStays ==
  ASSUME NEW s \in Table, NEW c \in Proc, NEW d \in Proc
  PROVE  Stays(s, mini_send(s, c, d))
<1> DEFINE b == Block(s, c, {"SENDING"})
           t == [b EXCEPT !.sendto[c] = d, !.callerq[d] = Append(@, c)]
<1>0. {"SENDING"} \in SUBSET Flag /\ {"RECEIVING"} \in SUBSET Flag BY DEF Flag
<1>1. CASE Accepts(s, d, c)
  <2>1. Stays(s, Release(s, d, {"RECEIVING"})) BY <1>0, ReleaseStays
  <2> QED BY <1>1, <2>1 DEF mini_send
<1>2. CASE ~Accepts(s, d, c)
  <2>1. mini_send(s, c, d) = t BY <1>2 DEF mini_send
  <2>2. b \in Table /\ Stays(s, b) BY <1>0, BlockStays
  <2> HIDE DEF b
  <2>3. t.flags = b.flags BY <2>2 DEF Table
  <2> QED BY <2>1, <2>2, <2>3 DEF Stays
<1> QED BY <1>1, <1>2

\* Nor does a receive, of a sender, of an interrupt or of a signal.
LEMMA RecStays ==
  ASSUME NEW s, Good(s), NEW c \in Proc \ {IDLE, HARDWARE}, s.flags[c] \in {{}, {"SENDING"}},
         NEW src \in Proc \cup {ANY}, "SENDING" \in s.flags[c] => src # ANY
  PROVE  Stays(s, mini_rec(s, c, src))
<1> DEFINE from == Acceptable(s, c, src)
           i == CHOOSE j \in from : \A l \in from : j <= l
           b == Block(s, c, {"RECEIVING"})
           t == [b EXCEPT !.getfrom[c] = src]
<1>0. s \in Table /\ {"RECEIVING"} \in SUBSET Flag /\ {"SENDING"} \in SUBSET Flag BY DEF Good, Flag
<1>1. CASE "SENDING" \notin s.flags[c] /\ from # {}
  <2> DEFINE r == [s EXCEPT !.callerq[c] = UnlinkAt(@, i)]
             x == s.callerq[c][i]
  <2>1. from \in SUBSET Nat /\ from \subseteq 1 .. Len(s.callerq[c]) BY DEF Acceptable
  <2>2. i \in 1 .. Len(s.callerq[c])
    <3>1. \E j \in from : \A l \in from : j <= l BY <1>1, <2>1, LeastOfNat
    <3> QED BY <3>1, <2>1
  <2>3. mini_rec(s, c, src) = Release(r, x, {"SENDING"}) BY <1>1 DEF mini_rec
  <2> HIDE DEF i
  <2>4. s.callerq[c] \in Seq(Proc) /\ x \in Proc BY <1>0, <2>2 DEF Table
  <2>5. UnlinkAt(s.callerq[c], i) \in Seq(Proc) BY <2>2, <2>4, UnlinkAtType
  <2>6. r \in Table /\ r.flags = s.flags BY <1>0, <2>5 DEF Table
  <2> HIDE DEF r, x
  <2>7. Stays(r, Release(r, x, {"SENDING"})) BY <1>0, <2>4, <2>6, ReleaseStays
  <2> QED BY <2>3, <2>6, <2>7 DEF Stays
<1>2. CASE /\ ~("SENDING" \notin s.flags[c] /\ from # {})
           /\ "SENDING" \notin s.flags[c] /\ c \in s.int_blocked /\ isrxhardware(src)
  <2>1. mini_rec(s, c, src) = [s EXCEPT !.int_blocked = @ \ {c}] BY <1>2 DEF mini_rec
  <2> QED BY <1>0, <2>1 DEF Stays, Table
<1>3. CASE /\ ~("SENDING" \notin s.flags[c] /\ from # {})
           /\ ~("SENDING" \notin s.flags[c] /\ c \in s.int_blocked /\ isrxhardware(src))
  <2>1. mini_rec(s, c, src) = IF s.sig_procs > 0 /\ c = MM /\ src = ANY THEN inform(t) ELSE t
    BY <1>3 DEF mini_rec
  <2>2. /\ Good(t) /\ t.flags = [s.flags EXCEPT ![c] = @ \cup {"RECEIVING"}]
        /\ t.getfrom = [s.getfrom EXCEPT ![c] = src]
    BY BlockReceiver
  <2> HIDE DEF t
  <2>3. Stays(s, t) BY <1>0, <2>2, Kinds DEF Stays, Table
  <2>4. CASE s.sig_procs > 0 /\ c = MM /\ src = ANY
    <3>1. "RECEIVING" \in t.flags[MM] /\ "SENDING" \notin t.flags[MM] /\ t.getfrom[MM] = ANY
      BY <1>0, <2>2, <2>4 DEF Table
    <3>2. Stays(t, inform(t)) BY <2>2, <3>1, InformLemma
    <3> QED BY <2>1, <2>3, <2>4, <3>2, StaysTrans
  <2>5. CASE ~(s.sig_procs > 0 /\ c = MM /\ src = ANY) BY <2>1, <2>3, <2>5
  <2> QED BY <2>4, <2>5
<1> QED BY <1>1, <1>2, <1>3

\* A trap resumes nobody that is stopped.
LEMMA SysCallStays ==
  ASSUME Good(k), Settled(k), SysCall
  PROVE  Stays(k, k')
<1> DEFINE c == k.proc_ptr
<1>1. PICK function \in {"SEND", "RECEIVE", "BOTH"}, d \in Proc \cup {ANY} :
        c # IDLE /\ Trusted(c, function, d) /\ k' = sys_call(k, function, d)
  BY DEF SysCall
<1>2. c \in Proc \ {IDLE, HARDWARE} /\ k.flags[c] = {} /\ k \in Table
  BY <1>1, RunningOnTop DEF OnTop, Good
<1> DEFINE sent == mini_send(k, c, d)
<1>3. (isuserp(c) <=> c \in User) /\ (c \notin User => c \in Task \cup Server) BY <1>2, Kinds
<1>4. k' = IF isuserp(c) /\ function # "BOTH" THEN k
           ELSE IF function = "RECEIVE" THEN mini_rec(k, c, d)
           ELSE IF d = ANY \/ send_result(k, c, d) # "OK" THEN k
           ELSE IF function = "SEND" THEN sent
           ELSE mini_rec(sent, c, d)
  BY <1>1 DEF sys_call
<1>5. CASE k' = k BY <1>5 DEF Stays
<1>6. CASE k' = mini_rec(k, c, d) /\ function = "RECEIVE"
  <2>1. Stays(k, mini_rec(k, c, d)) BY <1>2, RecStays
  <2> QED BY <1>6, <2>1
<1>7. CASE function # "RECEIVE" /\ d # ANY /\ send_result(k, c, d) = "OK"
  <2>1. d \in Proc /\ (c \in User => d \in Server)
    BY <1>3, <1>7 DEF send_result, issysentn, Server
  <2>2. (c \notin User => d \in Task \cup Server \cup User) /\ (d \in User => Accepts(k, d, c))
    <3>1. <<c, d>> \in Talks => d \in Task \cup Server BY TalksAssumption
    <3>2. c \in User => d \notin User BY <2>1, Kinds
    <3>3. d \in Task \cup Server => d \notin User BY Kinds
    <3>4. "P_SLOT_FREE" \notin k.flags[d] BY <1>3, <1>7 DEF send_result
    <3> QED BY <1>1, <1>3, <1>7, <2>1, <3>1, <3>2, <3>3, <3>4 DEF Trusted
  <2>3. d \in Proc \ {IDLE, HARDWARE} BY <2>1, <2>2, Kinds
  <2>4. Good(sent) /\ sent.flags[c] \in {{}, {"SENDING"}} BY <1>2, <2>1, <2>2, <2>3, MiniSend
  <2>5. Stays(k, sent) BY <1>2, <2>1, SendStays
  <2> HIDE DEF sent
  <2>6. Stays(sent, mini_rec(sent, c, d)) BY <1>2, <1>7, <2>1, <2>4, RecStays
  <2>7. Stays(k, mini_rec(sent, c, d)) BY <2>5, <2>6, StaysTrans
  <2> QED BY <1>4, <1>5, <1>7, <2>5, <2>7
<1> QED BY <1>4, <1>5, <1>6, <1>7

\* Nor does an interrupt.
LEMMA InterruptStays ==
  ASSUME NEW s \in Table, NEW t \in Task
  PROVE  Stays(s, interrupt(s, t))
<1> DEFINE r == Clear(s, t, {"RECEIVING"})
<1>0. t \in Proc /\ {"RECEIVING"} \in SUBSET Flag BY Kinds DEF Flag
<1>1. r \in Table /\ r.flags = [s.flags EXCEPT ![t] = @ \ {"RECEIVING"}]
  BY <1>0, ClearFrame DEF Keeps
<1>2. Stays(s, r)
  <2> HIDE DEF r
  <2>1. \A x \in Proc : s.flags[x] \ {"RECEIVING"} \subseteq r.flags[x] BY <1>0, <1>1 DEF Table
  <2> QED BY <2>1, Kinds DEF Stays
<1>3. interrupt(s, t).flags \in {r.flags, s.flags}
  <2>1. interrupt(s, t) = IF /\ "RECEIVING" \in s.flags[t] /\ "SENDING" \notin s.flags[t]
                             /\ isrxhardware(s.getfrom[t])
                          THEN [r EXCEPT !.int_blocked = @ \ {t}, !.rdy[TASK_Q] = Append(@, t),
                                         !.proc_ptr = IF s.rdy[TASK_Q] = << >> THEN t ELSE @]
                          ELSE [s EXCEPT !.int_blocked = @ \cup {t}]
    BY DEF interrupt
  <2> HIDE DEF r
  <2> QED BY <1>1, <2>1 DEF Table
<1> HIDE DEF r
<1> QED BY <1>2, <1>3 DEF Stays

\* The end of a signal resumes nobody that is stopped.
LEMMA EndSigStays ==
  ASSUME NEW s \in Table, NEW p \in User, s.court[p] > 0
  PROVE  Stays(s, do_endsig(s, p))
<1> DEFINE r == [s EXCEPT !.court[p] = @ - 1]
           e == [r EXCEPT !.pendcount[p] = @ - 1]
           v == Release(e, p, {"SIG_PENDING"})
<1>0. /\ p \in Proc /\ s.court[p] \in Nat /\ s.pendcount[p] \in Nat
      /\ {"SIG_PENDING"} \in SUBSET Flag
  BY UserKind DEF Table, Flag
<1>1. r \in Table /\ r.flags = s.flags /\ r.pendcount = s.pendcount
  <2>1. s.court[p] - 1 \in Nat BY <1>0
  <2> QED BY <2>1 DEF Table
<1>2. do_endsig(s, p) = IF r.pendcount[p] = 0 THEN r
                        ELSE IF e.pendcount[p] = 0 THEN v ELSE e
  BY DEF do_endsig, EndOne
<1> HIDE DEF r
<1>3. CASE r.pendcount[p] = 0 BY <1>1, <1>2, <1>3 DEF Stays
<1>4. CASE r.pendcount[p] # 0
  <2>1. r.pendcount[p] - 1 \in Nat BY <1>0, <1>1, <1>4
  <2>2. e \in Table /\ e.flags = s.flags BY <1>1, <2>1 DEF Table
  <2> HIDE DEF e
  <2>3. Stays(e, v) BY <1>0, <2>2, ReleaseStays
  <2> HIDE DEF v
  <2> QED BY <1>2, <1>4, <2>2, <2>3 DEF Stays
<1> QED BY <1>3, <1>4

\* Nor does EXEC, though it wakes the caller.
LEMMA ExecStays ==
  ASSUME NEW s, Good(s), NEW p \in User, "P_SLOT_FREE" \notin s.flags[p], NEW traced \in BOOLEAN
  PROVE  Stays(s, do_exec(s, p, traced))
<1> DEFINE t == IF traced THEN cause_sig(s, p, SIGTRAP) ELSE s
<1>0. p \in Proc /\ SIGTRAP \in Sig /\ {"RECEIVING"} \in SUBSET Flag
  BY UserKind, SigAssumption DEF Flag
<1>1. Good(t) /\ Stays(s, t)
  <2>1. Good(cause_sig(s, p, SIGTRAP)) /\ Stays(s, cause_sig(s, p, SIGTRAP)) BY <1>0, CauseSig
  <2>2. Stays(s, s) BY DEF Stays
  <2> QED BY <2>1, <2>2
<1>2. do_exec(s, p, traced) = Release(t, p, {"RECEIVING"}) BY DEF do_exec
<1> HIDE DEF t
<1>3. t \in Table BY <1>1 DEF Good
<1>4. Stays(t, Release(t, p, {"RECEIVING"})) BY <1>0, <1>3, ReleaseStays
<1> QED BY <1>1, <1>2, <1>4, StaysTrans

\* A step that resumes nobody and adds nobody to those STOPPED for MM.
LEMMA AgreeSame ==
  ASSUME StopsAgree, stopped \subseteq User, Stays(k, k'), stopped' \subseteq stopped
  PROVE  StopsAgree'
BY DEF StopsAgree, Stays

\* A panic changes no flags.
LEMMA PanicStays ==
  ASSUME NEW s \in Table, NEW m, NEW t, t = [s EXCEPT !.panic = m]
  PROVE  Stays(s, t)
<1>1. t.flags = s.flags BY DEF Table
<1> QED BY <1>1 DEF Stays

\* The stops go on to agree in a step by which no process is born STOPPED.
LEMMA StepAgree ==
  ASSUME IInv, StopsAgree, [Next]_vars,
         UNCHANGED vars \/ \A p \in User : "P_SLOT_FREE" \in k.flags[p] => p \notin stopped'
  PROVE  StopsAgree'
<1>0. /\ Good(k) /\ Settled(k) /\ k \in Table /\ stopped \subseteq User /\ FlagsOK(k)
      /\ unholding => k.held # << >>
  BY DEF IInv, Good
<1>1. CASE SysCall
  <2>1. Stays(k, k') BY <1>0, <1>1, SysCallStays
  <2>2. stopped' = stopped BY <1>1 DEF SysCall
  <2> QED BY <1>0, <2>1, <2>2, AgreeSame
<1>2. CASE Interrupt
  <2>1. PICK t \in Driver : k' = interrupt(k, t) /\ stopped' = stopped BY <1>2 DEF Interrupt
  <2>2. Stays(k, k') BY <1>0, <2>1, DriverAssumption, InterruptStays
  <2> QED BY <1>0, <2>1, <2>2, AgreeSame
<1>3. CASE HoldInterrupt
  <2>1. PICK t \in Driver : k' = hold(k, t) /\ stopped' = stopped BY <1>3 DEF HoldInterrupt
  <2>2. k'.flags = k.flags BY <1>0, <2>1 DEF hold, Table
  <2>3. Stays(k, k') BY <2>2 DEF Stays
  <2> QED BY <1>0, <2>1, <2>3, AgreeSame
<1>4. CASE Unhold
  <2> DEFINE h == [k EXCEPT !.held = Tail(@)]
  <2>1. unholding /\ k' = interrupt(h, Head(k.held)) /\ stopped' = stopped
    BY <1>4 DEF Unhold, unhold
  <2>2. k.held # << >> /\ k.held \in Seq(Task) BY <1>0, <2>1 DEF Table
  <2>3. Head(k.held) \in Task /\ Tail(k.held) \in Seq(Task) BY <2>2
  <2>4. h \in Table /\ h.flags = k.flags BY <1>0, <2>3 DEF Table
  <2> HIDE DEF h
  <2>5. Stays(h, k') BY <2>1, <2>3, <2>4, InterruptStays
  <2>6. Stays(k, k') BY <2>4, <2>5 DEF Stays
  <2> QED BY <1>0, <2>1, <2>6, AgreeSame
<1>5. CASE UserTrap
  <2>1. PICK p \in User, sig \in Sig :
          Running(p) /\ k' = cause_sig(k, p, sig) /\ stopped' = stopped
    BY <1>5 DEF UserTrap
  <2>2. p # IDLE /\ k.proc_ptr = p BY <2>1, UserKind DEF Running
  <2>3. k.flags[p] = {} BY <1>0, <2>2, RunningOnTop DEF OnTop
  <2>4. Stays(k, k') BY <1>0, <2>1, <2>3, CauseSig
  <2> QED BY <1>0, <2>1, <2>4, AgreeSame
<1>6. CASE TaskSignal \/ Kill
  <2>1. PICK p \in Live(k), sig \in Sig : k' = cause_sig(k, p, sig) /\ stopped' = stopped
    BY <1>6 DEF TaskSignal, Kill
  <2>2. p \in User /\ "P_SLOT_FREE" \notin k.flags[p] BY DEF Live
  <2>3. Stays(k, k') BY <1>0, <2>1, <2>2, CauseSig
  <2> QED BY <1>0, <2>1, <2>3, AgreeSame
<1>7. CASE ClockTick
  <2>1. PICK p \in Live(k) \cup {IDLE}, sig \in Sig, expired \in BOOLEAN, flip \in BOOLEAN :
          k' = do_clocktick(k, p, sig, expired, flip) /\ stopped' = stopped
    BY <1>7 DEF ClockTick
  <2>2. p \in User \cup {IDLE} /\ (p \in User => "P_SLOT_FREE" \notin k.flags[p])
    BY UserKind DEF Live
  <2>3. Stays(k, k') BY <1>0, <2>1, <2>2, TickEases
  <2> QED BY <1>0, <2>1, <2>3, AgreeSame
<1>8. CASE Fork /\ ~UNCHANGED vars
  <2>1. PICK p \in Live(k), c \in User \ Live(k), v \in Slots :
          /\ k' = do_fork(k, p, c, v)
          /\ stopped' = IF p \in stopped THEN stopped \cup {c} ELSE stopped
    BY <1>8 DEF Fork
  <2>2. c \in User /\ c \in Proc /\ "P_SLOT_FREE" \in k.flags[c] BY UserKind DEF Live
  <2>3. c \notin stopped' BY <1>8, <2>2
  <2>4. stopped' = stopped /\ c \notin stopped BY <2>1, <2>3
  <2>5. \A x \in Proc \ {c} : k'.flags[x] = k.flags[x]
    BY <1>0, <2>1, <2>2 DEF do_fork, Table
  <2> QED BY <1>0, <2>4, <2>5, Kinds DEF StopsAgree
<1>9. CASE Fresh
  <2>1. PICK p \in Live(k), v \in Slots, busy \in BOOLEAN :
          InCall(p) /\ k' = Halting(k, do_fresh(k, p, v, busy)) /\ stopped' = stopped
    BY <1>9 DEF Fresh
  <2>2. p \in User /\ k.flags[p] # {} BY <2>1 DEF Live, InCall
  <2>3. Ends(k, do_fresh(k, p, v, FALSE), k') BY <1>0, <2>1, <2>2, FreshHalts, Zenon
  <2>4. CASE k' = do_fresh(k, p, v, FALSE)
    <3>1. k'.flags = k.flags BY <1>0, <2>2, <2>4, FreshFrame
    <3>2. Stays(k, k') BY <3>1 DEF Stays
    <3> QED BY <1>0, <2>1, <3>2, AgreeSame
  <2>5. CASE \E m \in Panic : k' = [k EXCEPT !.panic = m]
    <3>1. Stays(k, k') BY <1>0, <2>5, PanicStays
    <3> QED BY <1>0, <2>1, <3>1, AgreeSame
  <2> QED BY <2>3, <2>4, <2>5, Zenon DEF Ends
<1>10. CASE Exec
  <2>1. PICK p \in Live(k), traced \in BOOLEAN :
          k' = do_exec(k, p, traced) /\ stopped' = stopped
    BY <1>10 DEF Exec
  <2>2. p \in User /\ "P_SLOT_FREE" \notin k.flags[p] BY DEF Live
  <2>3. Stays(k, k') BY <1>0, <2>1, <2>2, ExecStays
  <2> QED BY <1>0, <2>1, <2>3, AgreeSame
<1>11. CASE Xit
  <2>1. PICK p \in Live(k), busy \in BOOLEAN :
          k' = Halting(k, do_xit(k, p, busy)) /\ stopped' = stopped \ {p}
    BY <1>11 DEF Xit
  <2>2. p \in User /\ "P_SLOT_FREE" \notin k.flags[p] BY DEF Live
  <2>3. Ends(k, do_xit(k, p, FALSE), k') BY <1>0, <2>1, <2>2, XitHalts, Zenon
  <2>4. CASE k' = do_xit(k, p, FALSE)
    <3> DEFINE w == do_xit(k, p, FALSE)
               t == rmshadow(IF k.flags[p] = {} THEN unready(k, p) ELSE k, p, FALSE)
    <3>1. /\ Eases(k, w) /\ Live(w) = Live(k) \ {p}
          /\ w.core = [k.core EXCEPT ![p] = 1] /\ w.shadow = t.shadow /\ w.panic = t.panic
          /\ \A x \in User \ {p} : w.flags[x] = k.flags[x]
      BY <1>0, <2>2, XitFrame
    <3>2. k' = w BY <2>4
    <3> HIDE DEF w, t
    <3>3. \A x \in User \ {p} : k'.flags[x] = k.flags[x] BY <3>1, <3>2
    <3> QED BY <1>0, <2>1, <3>3 DEF StopsAgree
  <2>5. CASE \E m \in Panic : k' = [k EXCEPT !.panic = m]
    <3>1. Stays(k, k') BY <1>0, <2>5, PanicStays
    <3> QED BY <1>0, <2>1, <3>1, AgreeSame
  <2> QED BY <2>3, <2>4, <2>5, Zenon DEF Ends
<1>13. CASE EndSig
  <2>1. PICK p \in Live(k) : k.court[p] > 0 /\ k' = do_endsig(k, p) /\ stopped' = stopped
    BY <1>13 DEF EndSig
  <2>2. p \in User BY DEF Live
  <2>3. Stays(k, k') BY <1>0, <2>1, <2>2, EndSigStays
  <2> QED BY <1>0, <2>1, <2>3, AgreeSame
<1>14. CASE Trace
  <2>1. PICK p \in Live(k), request \in {"T_STOP", "T_RESUME"} :
          /\ k' = do_trace(k, p, request)
          /\ stopped' = IF request = "T_STOP" THEN stopped \cup {p} ELSE stopped \ {p}
    BY <1>14 DEF Trace
  <2>2. p \in User /\ p \in Proc /\ "P_SLOT_FREE" \notin k.flags[p] /\ {"P_STOP"} \in SUBSET Flag
    BY UserKind DEF Live, Flag
  <2>3. k'.flags = IF request = "T_STOP" THEN [k.flags EXCEPT ![p] = @ \cup {"P_STOP"}]
                   ELSE [k.flags EXCEPT ![p] = @ \ {"P_STOP"}]
    <3>1. k' = IF request = "T_STOP" THEN Block(k, p, {"P_STOP"}) ELSE Release(k, p, {"P_STOP"})
      BY <2>1, <2>2 DEF do_trace
    <3>2. Block(k, p, {"P_STOP"}).flags = [k.flags EXCEPT ![p] = @ \cup {"P_STOP"}]
      BY <1>0, <2>2, BlockFrame
    <3> DEFINE bits == {"P_STOP"}
               t == Release(k, p, bits)
    <3>3. /\ Keeps(k, t)
          /\ t.flags = [k.flags EXCEPT ![p] = @ \ bits]
          /\ t.getfrom = [k.getfrom EXCEPT ![p] = IF "RECEIVING" \in bits THEN ANY ELSE @]
          /\ t.sendto = [k.sendto EXCEPT ![p] = IF "SENDING" \in bits THEN HARDWARE ELSE @]
      <4>1. bits \in SUBSET Flag BY <2>2
      <4> HIDE DEF bits
      <4> QED BY <1>0, <2>2, <4>1, ReleaseFrame
    <3> QED BY <3>1, <3>2, <3>3
  <2>4. /\ \A x \in Proc \ {p} : k'.flags[x] = k.flags[x]
        /\ request = "T_STOP" => "P_STOP" \in k'.flags[p]
    BY <1>0, <2>2, <2>3 DEF Table
  <2> QED BY <1>0, <2>1, <2>4, Kinds DEF StopsAgree
<1>15. CASE UNCHANGED vars BY <1>15 DEF vars, StopsAgree
<1>16. CASE Halted BY <1>15, <1>16 DEF Halted
<1> QED BY <1>1, <1>2, <1>3, <1>4, <1>5, <1>6, <1>7, <1>8, <1>9, <1>10, <1>11, <1>13, <1>14,
           <1>15, <1>16 DEF Next

\* The condition of all theorems about the kernel comes down to one: as long as
\* no process is born STOPPED, that is, MM serves no FORK of a process that it
\* has stopped (mm/forkexit.c copies the flag), whoever is STOPPED for MM is
\* P_STOP for the kernel, through all traps, signals, execs, stops and exits.
THEOREM StopsKept == Spec /\ BornRunning => []StopsAgree
<1> DEFINE Born == \A p \in User : "P_SLOT_FREE" \in k.flags[p] => p \notin stopped'
<1>1. Init => StopsAgree BY DEF Init, StopsAgree
<1>2. IInv /\ StopsAgree /\ [Next]_vars /\ [Born]_vars => IInv' /\ StopsAgree'
  BY StepIInv, StepAgree
<1> QED BY <1>1, <1>2, InitIInv, PTL DEF Spec, BornRunning
=============================================================================
