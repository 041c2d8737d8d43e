----------------------------- MODULE LocksProofs -----------------------------
(***************************************************************************)
(* Proofs about Locks: for every number of processes, slots and bytes the  *)
(* lock table stays sound, unlocking is exact, and, as long as no process  *)
(* mixes read and write locks of its own, no waiter is forgotten.          *)
(***************************************************************************)
EXTENDS Locks, FiniteSetTheorems, WellFoundedInduction, TLAPS

----------------------------------------------------------------------------
(* Locks and tables.                                                       *)

\* The slots that a table uses, a part of a lock, a byte in a region.
InUse(tab) == {i \in Slots : tab[i] # Unused}
PartOf(a, l) == a.pid = l.pid /\ a.type = l.type /\ l.first <= a.first /\ a.last <= l.last
In(b, r) == r.first <= b /\ b <= r.last
Around(l, r) == l.first < r.first /\ r.last < l.last

\* A non-empty set of numbers has a least one.
LEMMA LeastOfNat ==
  ASSUME NEW S \in SUBSET Nat, S # {}
  PROVE  \E x \in S : \A y \in S : x <= y
<1> DEFINE R == OpToRel(<, Nat)
<1>1. IsWellFoundedOn(R, Nat) BY NatLessThanWellFounded
<1>2. \A x, y \in Nat : y < x => <<y, x>> \in R BY DEF OpToRel
<1> HIDE DEF R
<1>3. PICK x \in S : \A y \in S : ~(<<y, x>> \in R) BY <1>1, WFMin
<1>4. ASSUME NEW y \in S PROVE x <= y
  <2>1. ~(y < x) BY <1>2, <1>3
  <2> QED BY <2>1
<1> QED BY <1>4

\* What is a lock; an unused slot is none.
LEMMA LockFacts ==
  /\ \A l : l \in AllLocks <=> /\ l \in [type : Types, pid : Procs, first : 0..MaxPos, last : 0..MaxPos]
                               /\ l.first <= l.last
  /\ Unused \notin AllLocks
  /\ \A l \in AllLocks : /\ l.first \in Int /\ l.last \in Int /\ l.first <= l.last /\ l # Unused
                         /\ l.pid \in Procs /\ l.type \in Types
  /\ MaxPos \in Nat /\ NR_LOCKS \in Nat \ {0} /\ Slots \subseteq Nat
<1>1. MaxPos \in Nat /\ NR_LOCKS \in Nat \ {0} /\ Slots \subseteq Nat BY LocksAssumption DEF Slots
<1>2. ASSUME NEW l \in [type : Types, pid : Procs, first : 0..MaxPos, last : 0..MaxPos], l.first <= l.last
      PROVE  l \in AllLocks
  <2> DEFINE r == [first |-> l.first, last |-> l.last]
  <2>1. r \in Regions BY <1>2 DEF Regions
  <2>2. l = LockOf(l.pid, l.type, r) BY DEF LockOf
  <2> HIDE DEF r
  <2> QED BY <2>1, <2>2 DEF AllLocks
<1>3. ASSUME NEW l \in AllLocks
      PROVE  /\ l \in [type : Types, pid : Procs, first : 0..MaxPos, last : 0..MaxPos]
             /\ l.first <= l.last
  BY DEF AllLocks, LockOf, Regions
<1>4. Unused \notin AllLocks
  <2> SUFFICES ASSUME Unused \in AllLocks PROVE FALSE OBVIOUS
  <2>1. Unused.type \in Types BY <1>3
  <2> QED BY <2>1 DEF Unused, Types
<1> QED BY <1>1, <1>2, <1>3, <1>4

\* Slots are finitely many, and a table with fewer locks has one that is free.
LEMMA SlotFacts ==
  ASSUME NEW tab
  PROVE  /\ IsFiniteSet(InUse(tab)) /\ Cardinality(InUse(tab)) \in 0..NR_LOCKS
         /\ InUse(tab) # Slots <=> Cardinality(InUse(tab)) < NR_LOCKS
         /\ InUse(tab) # Slots => /\ FirstUnused(tab) \in Slots
                                  /\ tab[FirstUnused(tab)] = Unused
<1>1. IsFiniteSet(Slots) /\ Cardinality(Slots) = NR_LOCKS
  BY LocksAssumption, FS_Interval DEF Slots
<1>2. InUse(tab) \in SUBSET Slots BY DEF InUse
<1>3. /\ IsFiniteSet(InUse(tab)) /\ Cardinality(InUse(tab)) <= NR_LOCKS
      /\ Cardinality(InUse(tab)) = NR_LOCKS => InUse(tab) = Slots
  BY <1>1, <1>2, FS_Subset
<1>4. Cardinality(InUse(tab)) \in Nat BY <1>3, FS_CardinalityType
<1>5. ASSUME InUse(tab) # Slots PROVE FirstUnused(tab) \in Slots /\ tab[FirstUnused(tab)] = Unused
  <2> DEFINE F == {i \in Slots : tab[i] = Unused}
  <2>1. F # {} /\ F \in SUBSET Nat BY <1>5, LockFacts DEF InUse
  <2>2. PICK i \in F : \A j \in F : i <= j BY <2>1, LeastOfNat
  <2>3. \A j \in 1..i-1 : tab[j] # Unused
    <3> SUFFICES ASSUME NEW j \in 1..i-1, tab[j] = Unused PROVE FALSE OBVIOUS
    <3>1. i \in 1..NR_LOCKS /\ NR_LOCKS \in Nat BY LocksAssumption DEF Slots
    <3>2. j \in Slots /\ ~(i <= j) BY <3>1 DEF Slots
    <3> QED BY <2>2, <3>2
  <2>4. i \in Slots /\ tab[i] = Unused OBVIOUS
  <2> QED BY <2>3, <2>4 DEF FirstUnused
<1> QED BY <1>1, <1>3, <1>4, <1>5, LocksAssumption

----------------------------------------------------------------------------
(* The loop that clears a region.                                          *)

\* What is known of the loop after round k.
LoopOK(s, k, r) ==
  /\ s \in [tab : [Slots -> AllLocks \cup {Unused}], n : 0..NR_LOCKS, unlocking : BOOLEAN,
            full : BOOLEAN]
  /\ s.n = Cardinality(InUse(s.tab))
  /\ \A i \in InUse(s.tab) : \E j \in Used : PartOf(s.tab[i], file_lock[j])
  /\ \A i \in InUse(s.tab) : Overlap(s.tab[i], r) => i \in Used /\ file_lock[i] = s.tab[i]
  /\ \A j \in Used : \A b \in 0..MaxPos : In(b, file_lock[j]) /\ ~In(b, r) =>
       \E i \in InUse(s.tab) : /\ In(b, s.tab[i])
                               /\ s.tab[i].pid = file_lock[j].pid /\ s.tab[i].type = file_lock[j].type
  /\ ~s.unlocking => s.tab = file_lock
  /\ s.full => \E i \in Used : s.tab[i] = file_lock[i] /\ Around(file_lock[i], r)
  /\ ~s.full => \A i \in InUse(s.tab) : i <= k => ~Overlap(s.tab[i], r)
  /\ s.n <= nr_locks + Cardinality({i \in Splits(r) : i <= k})
  /\ s.full => NR_LOCKS < nr_locks + Cardinality(Splits(r))

\* A round that replaces the lock of slot k by parts outside of the region.
LEMMA Retable ==
  ASSUME file_lock \in [Slots -> AllLocks \cup {Unused}], NEW r \in Regions, NEW k \in Slots,
         NEW s, LoopOK(s, k - 1, r), ~s.full, k \in InUse(s.tab), Overlap(s.tab[k], r),
         NEW u \in [Slots -> AllLocks \cup {Unused}], NEW m \in 0..NR_LOCKS,
         m = Cardinality(InUse(u)), m <= nr_locks + Cardinality({i \in Splits(r) : i <= k}),
         \A i \in InUse(u) : \/ i # k /\ u[i] = s.tab[i]
                             \/ PartOf(u[i], s.tab[k]) /\ ~Overlap(u[i], r),
         \A i \in InUse(s.tab) \ {k} : u[i] = s.tab[i],
         \A b \in 0..MaxPos : In(b, s.tab[k]) /\ ~In(b, r) =>
           \E i \in InUse(u) : PartOf(u[i], s.tab[k]) /\ In(b, u[i])
  PROVE  LoopOK([s EXCEPT !.unlocking = TRUE, !.tab = u, !.n = m], k, r)
<1> DEFINE t == [s EXCEPT !.unlocking = TRUE, !.tab = u, !.n = m]
           l == s.tab[k]
<1>1. s \in [tab : [Slots -> AllLocks \cup {Unused}], n : 0..NR_LOCKS, unlocking : BOOLEAN,
             full : BOOLEAN]
  BY DEF LoopOK
<1>2. t.tab = u /\ t.n = m /\ t.unlocking = TRUE /\ t.full = FALSE
      /\ t \in [tab : [Slots -> AllLocks \cup {Unused}], n : 0..NR_LOCKS, unlocking : BOOLEAN,
                full : BOOLEAN]
  BY <1>1
<1> HIDE DEF t
<1>3. k \in Used /\ file_lock[k] = l BY DEF LoopOK
<1>4. /\ \A i \in InUse(u) : u[i] \in AllLocks /\ i \in Slots
      /\ \A i \in InUse(s.tab) : s.tab[i] \in AllLocks
      /\ \A i \in Used : file_lock[i] \in AllLocks
      /\ InUse(s.tab) \subseteq Slots
  BY <1>1 DEF InUse, Used
<1>5. \A i \in InUse(u) : \E j \in Used : PartOf(u[i], file_lock[j])
  <2> SUFFICES ASSUME NEW i \in InUse(u) PROVE \E j \in Used : PartOf(u[i], file_lock[j])
    OBVIOUS
  <2>1. CASE u[i] = s.tab[i]
    <3>1. i \in InUse(s.tab) BY <2>1 DEF InUse
    <3> QED BY <2>1, <3>1 DEF LoopOK
  <2>2. CASE PartOf(u[i], l) BY <1>3, <2>2
  <2> QED BY <2>1, <2>2
<1>6. \A i \in InUse(u) : Overlap(u[i], r) => i \in Used /\ file_lock[i] = u[i]
  <2> SUFFICES ASSUME NEW i \in InUse(u), Overlap(u[i], r) PROVE i \in Used /\ file_lock[i] = u[i]
    OBVIOUS
  <2>1. u[i] = s.tab[i] OBVIOUS
  <2>2. i \in InUse(s.tab) BY <2>1 DEF InUse
  <2> QED BY <2>1, <2>2 DEF LoopOK
<1>7. ASSUME NEW j \in Used, NEW b \in 0..MaxPos, In(b, file_lock[j]), ~In(b, r)
      PROVE  \E i \in InUse(u) : /\ In(b, u[i])
                                 /\ u[i].pid = file_lock[j].pid /\ u[i].type = file_lock[j].type
  <2>1. PICK i \in InUse(s.tab) : /\ In(b, s.tab[i]) /\ s.tab[i].pid = file_lock[j].pid
                                  /\ s.tab[i].type = file_lock[j].type
    BY <1>7 DEF LoopOK
  <2>2. CASE i = k
    <3>1. PICK h \in InUse(u) : PartOf(u[h], l) /\ In(b, u[h]) BY <1>7, <2>1, <2>2
    <3> QED BY <2>1, <2>2, <3>1 DEF PartOf
  <2>3. CASE i # k
    <3>1. u[i] = s.tab[i] /\ i \in InUse(u) BY <2>3 DEF InUse
    <3> QED BY <2>1, <3>1
  <2> QED BY <2>2, <2>3
<1>8. ASSUME NEW i \in InUse(u), i <= k PROVE ~Overlap(u[i], r)
  <2>1. CASE i # k /\ u[i] = s.tab[i]
    <3>1. i \in InUse(s.tab) BY <2>1 DEF InUse
    <3>2. i \in Nat /\ k \in Nat BY <1>4, LockFacts
    <3>3. i <= k - 1 BY <1>8, <2>1, <3>2
    <3> QED BY <2>1, <3>1, <3>3 DEF LoopOK
  <2> QED BY <2>1
<1> QED BY <1>2, <1>5, <1>6, <1>7, <1>8 DEF LoopOK, t

\* The number of locks that rounds up to k split.
LEMMA SplitCount ==
  ASSUME NEW r, NEW k \in Slots
  PROVE  LET c(i) == Cardinality({j \in Splits(r) : j <= i})
         IN  /\ c(k - 1) \in Nat /\ c(k) \in Nat /\ c(k - 1) <= c(k)
             /\ k \in Splits(r) => c(k) = c(k - 1) + 1 /\ c(k) <= Cardinality(Splits(r))
<1> DEFINE A == {j \in Splits(r) : j <= k - 1}
           B == {j \in Splits(r) : j <= k}
<1>0. Splits(r) \subseteq Slots /\ Slots \subseteq Nat /\ k \in Nat BY LockFacts DEF Splits, Used
<1>1. IsFiniteSet(Slots) BY LocksAssumption, FS_Interval DEF Slots
<1>2. IsFiniteSet(Splits(r)) BY <1>0, <1>1, FS_Subset
<1>n. k \in Nat /\ \A j \in Splits(r) : j \in Nat BY <1>0
<1>3. A \in SUBSET B /\ B \in SUBSET Splits(r) BY <1>n
<1>4. IsFiniteSet(B) /\ Cardinality(B) <= Cardinality(Splits(r)) BY <1>2, <1>3, FS_Subset
<1>5. IsFiniteSet(A) /\ Cardinality(A) <= Cardinality(B) BY <1>3, <1>4, FS_Subset
<1>6. Cardinality(A) \in Nat /\ Cardinality(B) \in Nat BY <1>4, <1>5, FS_CardinalityType
<1>7. ASSUME k \in Splits(r) PROVE Cardinality(B) = Cardinality(A) + 1
  <2>0. (\A j \in Splits(r) : j <= k <=> (j <= k - 1 \/ j = k)) /\ ~(k <= k - 1) /\ k <= k
    BY <1>n
  <2>1. B = A \cup {k} /\ k \notin A BY <1>7, <2>0
  <2> HIDE DEF A, B
  <2> QED BY <1>5, <2>1, FS_AddElement
<1> QED BY <1>4, <1>5, <1>6, <1>7

\* Every round keeps what is known of the loop.
LEMMA ClearStep ==
  ASSUME file_lock \in [Slots -> AllLocks \cup {Unused}], nr_locks \in 0..NR_LOCKS,
         NEW r \in Regions, NEW k \in Slots, NEW s, LoopOK(s, k - 1, r)
  PROVE  LoopOK(Clear(s, k, r), k, r)
<1> DEFINE l == s.tab[k]
           c(i) == Cardinality({j \in Splits(r) : j <= i})
<1>1. /\ s \in [tab : [Slots -> AllLocks \cup {Unused}], n : 0..NR_LOCKS, unlocking : BOOLEAN,
                full : BOOLEAN]
      /\ s.n = Cardinality(InUse(s.tab)) /\ s.n <= nr_locks + c(k - 1)
  BY DEF LoopOK
<1>2. /\ c(k - 1) \in Nat /\ c(k) \in Nat /\ c(k - 1) <= c(k)
      /\ k \in Splits(r) => c(k) = c(k - 1) + 1 /\ c(k) <= Cardinality(Splits(r))
  BY SplitCount
<1>3. /\ r.first \in 0..MaxPos /\ r.last \in 0..MaxPos /\ r.first <= r.last /\ MaxPos \in Nat
      /\ NR_LOCKS \in Nat \ {0} /\ k \in Nat /\ Slots \subseteq Nat
  BY LockFacts DEF Regions
<1> HIDE DEF c
<1>4. CASE s.full \/ l = Unused \/ ~Overlap(l, r)
  <2>1. Clear(s, k, r) = s BY <1>4 DEF Clear
  <2>2. ~s.full => \A i \in InUse(s.tab) : i <= k => ~Overlap(s.tab[i], r)
    <3> SUFFICES ASSUME ~s.full, NEW i \in InUse(s.tab), i <= k PROVE ~Overlap(s.tab[i], r)
      OBVIOUS
    <3>1. CASE i = k BY <1>4, <3>1 DEF InUse
    <3>2. CASE i # k
      <4>1. i <= k - 1 BY <1>3, <3>2 DEF InUse
      <4> QED BY <4>1 DEF LoopOK
    <3> QED BY <3>1, <3>2
  <2>3. s.n <= nr_locks + c(k) BY <1>1, <1>2
  <2>4. LoopOK(s, k, r) BY <2>2, <2>3 DEF LoopOK, c
  <2> QED BY <2>1, <2>4
<1>5. CASE ~s.full /\ l # Unused /\ Overlap(l, r)
  <2>0. /\ k \in InUse(s.tab) /\ l \in AllLocks /\ k \in Used /\ file_lock[k] = l
        /\ l.first \in 0..MaxPos /\ l.last \in 0..MaxPos /\ l.first <= l.last
        /\ l \in [type : Types, pid : Procs, first : 0..MaxPos, last : 0..MaxPos]
    <3>1. k \in InUse(s.tab) /\ l \in AllLocks BY <1>1, <1>5 DEF InUse
    <3>2. k \in Used /\ file_lock[k] = l BY <1>5, <3>1 DEF LoopOK
    <3> QED BY <3>1, <3>2, LockFacts
  <2> HIDE DEF l
  <2>1. \A i \in InUse(s.tab) \ {k} : i \in Slots BY DEF InUse
  <2>2. s.n \in 1..NR_LOCKS
    <3>1. s.n # 0 BY <1>1, <2>0, SlotFacts, FS_EmptySet
    <3> QED BY <1>1, <3>1
  <2>3. CASE Covers(r, l)
    <3> DEFINE u == [s.tab EXCEPT ![k] = Unused]
    <3>1. Clear(s, k, r) = [s EXCEPT !.unlocking = TRUE, !.tab = u, !.n = s.n - 1]
      BY <1>1, <1>5, <2>3 DEF Clear, l
    <3>2. u \in [Slots -> AllLocks \cup {Unused}] /\ InUse(u) = InUse(s.tab) \ {k}
          /\ \A i \in Slots : i # k => u[i] = s.tab[i]
      BY <1>1 DEF InUse
    <3> DEFINE m == s.n - 1
    <3>3. m = Cardinality(InUse(u))
      <4>1. IsFiniteSet(InUse(s.tab)) BY SlotFacts
      <4>2. Cardinality(InUse(s.tab) \ {k}) = Cardinality(InUse(s.tab)) - 1
        BY <2>0, <4>1, FS_RemoveElement
      <4> QED BY <1>1, <3>2, <4>2
    <3>4. m \in 0..NR_LOCKS /\ m <= nr_locks + c(k) BY <1>1, <1>2, <1>3, <2>2
    <3>5. \A b \in 0..MaxPos : ~(In(b, l) /\ ~In(b, r)) BY <1>3, <2>0, <2>3 DEF In, Covers
    <3>6. \A i \in InUse(u) : i # k /\ u[i] = s.tab[i] BY <2>1, <3>2
    <3>7. \A i \in InUse(s.tab) \ {k} : u[i] = s.tab[i] BY <2>1, <3>2
    <3> HIDE DEF u, m
    <3>8. LoopOK([s EXCEPT !.unlocking = TRUE, !.tab = u, !.n = m], k, r)
      BY <1>5, <2>0, <3>2, <3>3, <3>4, <3>5, <3>6, <3>7, Retable DEF c, l
    <3> QED BY <3>1, <3>8 DEF m
  <2>4. ASSUME NEW x \in AllLocks, PartOf(x, l), ~Overlap(x, r),
               \A b \in 0..MaxPos : In(b, l) /\ ~In(b, r) => In(b, x)
        PROVE  LoopOK([s EXCEPT !.unlocking = TRUE, !.tab = [s.tab EXCEPT ![k] = x]], k, r)
    <3> DEFINE u == [s.tab EXCEPT ![k] = x]
    <3>1. [s EXCEPT !.unlocking = TRUE, !.tab = u] = [s EXCEPT !.unlocking = TRUE, !.tab = u, !.n = s.n]
      BY <1>1
    <3>2. u \in [Slots -> AllLocks \cup {Unused}] /\ InUse(u) = InUse(s.tab)
          /\ (\A i \in Slots : i # k => u[i] = s.tab[i]) /\ u[k] = x
      BY <1>1, <2>0, LockFacts DEF InUse
    <3>3. s.n = Cardinality(InUse(u)) /\ s.n \in 0..NR_LOCKS /\ s.n <= nr_locks + c(k)
      BY <1>1, <1>2, <3>2
    <3>4. \A i \in InUse(u) : \/ i # k /\ u[i] = s.tab[i]
                              \/ PartOf(u[i], l) /\ ~Overlap(u[i], r)
      BY <2>1, <2>4, <3>2
    <3>5. \A i \in InUse(s.tab) \ {k} : u[i] = s.tab[i] BY <2>1, <3>2
    <3>6. \A b \in 0..MaxPos : In(b, l) /\ ~In(b, r) => \E i \in InUse(u) : PartOf(u[i], l) /\ In(b, u[i])
      BY <2>0, <2>4, <3>2
    <3> HIDE DEF u
    <3>7. LoopOK([s EXCEPT !.unlocking = TRUE, !.tab = u, !.n = s.n], k, r)
      BY <1>5, <2>0, <3>2, <3>3, <3>4, <3>5, <3>6, Retable DEF c, l
    <3> QED BY <3>1, <3>7 DEF u
  <2>5. ASSUME l.first < r.first
        PROVE  /\ Lower(l, r) \in AllLocks /\ PartOf(Lower(l, r), l) /\ ~Overlap(Lower(l, r), r)
               /\ \A b \in 0..MaxPos : In(b, Lower(l, r)) <=> In(b, l) /\ b < r.first
    <3> DEFINE x == Lower(l, r)
    <3>1. /\ x \in [type : Types, pid : Procs, first : 0..MaxPos, last : 0..MaxPos]
          /\ x.type = l.type /\ x.pid = l.pid /\ x.first = l.first /\ x.last = r.first - 1
      BY <1>3, <2>0, <2>5 DEF Lower
    <3>2. r.first <= l.last BY <1>5 DEF Overlap, l
    <3> HIDE DEF x
    <3>3. x \in AllLocks BY <1>3, <2>0, <2>5, <3>1, LockFacts
    <3>4. PartOf(x, l) /\ ~Overlap(x, r) BY <1>3, <2>0, <3>1, <3>2 DEF PartOf, Overlap
    <3>5. \A b \in 0..MaxPos : In(b, x) <=> In(b, l) /\ b < r.first
      BY <1>3, <2>0, <3>1, <3>2 DEF In
    <3> QED BY <3>3, <3>4, <3>5 DEF x
  <2>6. ASSUME r.last < l.last
        PROVE  /\ Upper(l, r) \in AllLocks /\ PartOf(Upper(l, r), l) /\ ~Overlap(Upper(l, r), r)
               /\ \A b \in 0..MaxPos : In(b, Upper(l, r)) <=> In(b, l) /\ r.last < b
    <3> DEFINE x == Upper(l, r)
    <3>1. /\ x \in [type : Types, pid : Procs, first : 0..MaxPos, last : 0..MaxPos]
          /\ x.type = l.type /\ x.pid = l.pid /\ x.first = r.last + 1 /\ x.last = l.last
      BY <1>3, <2>0, <2>6 DEF Upper
    <3>2. l.first <= r.last BY <1>5 DEF Overlap, l
    <3> HIDE DEF x
    <3>3. x \in AllLocks BY <1>3, <2>0, <2>6, <3>1, LockFacts
    <3>4. PartOf(x, l) /\ ~Overlap(x, r) BY <1>3, <2>0, <3>1, <3>2 DEF PartOf, Overlap
    <3>5. \A b \in 0..MaxPos : In(b, x) <=> In(b, l) /\ r.last < b
      BY <1>3, <2>0, <3>1, <3>2 DEF In
    <3> QED BY <3>3, <3>4, <3>5 DEF x
  <2>7. CASE ~Covers(r, l) /\ r.first <= l.first
    <3>1. r.last < l.last BY <1>3, <2>0, <2>7 DEF Covers
    <3>2. \A b \in 0..MaxPos : In(b, l) /\ ~In(b, r) => In(b, Upper(l, r))
      BY <1>3, <2>0, <2>6, <2>7, <3>1 DEF In
    <3>3. Clear(s, k, r) = [s EXCEPT !.unlocking = TRUE, !.tab = [s.tab EXCEPT ![k] = Upper(l, r)]]
      BY <1>1, <1>5, <2>7 DEF Clear, l
    <3> QED BY <2>4, <2>6, <3>1, <3>2, <3>3
  <2>8. CASE ~Covers(r, l) /\ ~(r.first <= l.first) /\ r.last >= l.last
    <3>1. l.first < r.first BY <1>3, <2>0, <2>8
    <3>2. \A b \in 0..MaxPos : In(b, l) /\ ~In(b, r) => In(b, Lower(l, r))
      BY <1>3, <2>0, <2>5, <2>8, <3>1 DEF In
    <3>3. Clear(s, k, r) = [s EXCEPT !.unlocking = TRUE, !.tab = [s.tab EXCEPT ![k] = Lower(l, r)]]
      BY <1>1, <1>5, <2>8 DEF Clear, l
    <3> QED BY <2>4, <2>5, <3>1, <3>2, <3>3
  <2>9. CASE ~Covers(r, l) /\ ~(r.first <= l.first) /\ ~(r.last >= l.last)
    <3>1. l.first < r.first /\ r.last < l.last /\ Around(l, r) BY <1>3, <2>0, <2>9 DEF Around
    <3>2. k \in Splits(r) BY <2>0, <3>1 DEF Splits
    <3>3. c(k) = c(k - 1) + 1 /\ c(k) <= Cardinality(Splits(r)) BY <1>2, <3>2
    <3>4. CASE s.n = NR_LOCKS
      <4> DEFINE t == [s EXCEPT !.unlocking = TRUE, !.full = TRUE]
      <4>1. Clear(s, k, r) = t BY <1>1, <1>5, <2>9, <3>4 DEF Clear, l
      <4>2. t.tab = s.tab /\ t.n = s.n /\ t.unlocking = TRUE /\ t.full = TRUE
            /\ t \in [tab : [Slots -> AllLocks \cup {Unused}], n : 0..NR_LOCKS, unlocking : BOOLEAN,
                      full : BOOLEAN]
        BY <1>1
      <4> HIDE DEF t
      <4>3. IsFiniteSet(Splits(r)) /\ Cardinality(Splits(r)) \in Nat
        <5>1. IsFiniteSet(Slots) BY LocksAssumption, FS_Interval DEF Slots
        <5>2. IsFiniteSet(Splits(r)) BY <5>1, FS_Subset DEF Splits, Used
        <5> QED BY <5>2, FS_CardinalityType
      <4>4. NR_LOCKS < nr_locks + Cardinality(Splits(r)) BY <1>1, <1>2, <1>3, <3>3, <3>4, <4>3
      <4>5. s.n <= nr_locks + c(k) BY <1>1, <1>2
      <4>6. \E i \in Used : s.tab[i] = file_lock[i] /\ Around(file_lock[i], r) BY <2>0, <3>1 DEF l
      <4>7. LoopOK(t, k, r) BY <4>2, <4>4, <4>5, <4>6 DEF LoopOK, c
      <4> QED BY <4>1, <4>7
    <3>5. CASE s.n # NR_LOCKS
      <4> DEFINE f == FirstUnused(s.tab)
                 lower == Lower(l, r)
                 upper == Upper(l, r)
                 u == [s.tab EXCEPT ![k] = lower, ![f] = upper]
      <4>1. f \in Slots /\ s.tab[f] = Unused /\ f # k
        <5>1. s.n < NR_LOCKS BY <1>1, <1>3, <3>5
        <5>2. InUse(s.tab) # Slots BY <1>1, <5>1, SlotFacts
        <5>3. f \in Slots /\ s.tab[f] = Unused BY <5>2, SlotFacts
        <5> QED BY <5>3, <1>5 DEF l
      <4>2. Clear(s, k, r) = [s EXCEPT !.unlocking = TRUE, !.tab = u, !.n = s.n + 1]
        BY <1>1, <1>5, <2>9, <3>5 DEF Clear, l
      <4> HIDE DEF f, lower, upper
      <4>3. lower \in AllLocks /\ upper \in AllLocks /\ lower # Unused /\ upper # Unused
        BY <2>5, <2>6, <3>1, LockFacts DEF lower, upper
      <4>4. /\ u \in [Slots -> AllLocks \cup {Unused}] /\ u[k] = lower /\ u[f] = upper
            /\ \A i \in Slots : i # k /\ i # f => u[i] = s.tab[i]
        BY <1>1, <4>1, <4>3
      <4>5. InUse(u) = InUse(s.tab) \cup {f} /\ f \notin InUse(s.tab)
        BY <2>0, <4>1, <4>3, <4>4 DEF InUse
      <4> DEFINE m == s.n + 1
      <4>6. m = Cardinality(InUse(u)) BY <1>1, <4>5, SlotFacts, FS_AddElement
      <4>7. m \in 0..NR_LOCKS /\ m <= nr_locks + c(k) BY <1>1, <1>2, <1>3, <3>3, <3>5
      <4>8. \A i \in InUse(u) : \/ i # k /\ u[i] = s.tab[i]
                                \/ PartOf(u[i], l) /\ ~Overlap(u[i], r)
        <5>1. /\ PartOf(lower, l) /\ ~Overlap(lower, r)
              /\ PartOf(upper, l) /\ ~Overlap(upper, r)
          BY <2>5, <2>6, <3>1 DEF lower, upper
        <5> QED BY <4>1, <4>4, <5>1 DEF InUse
      <4>9. \A i \in InUse(s.tab) \ {k} : u[i] = s.tab[i] BY <2>1, <4>4, <4>5
      <4>10. \A b \in 0..MaxPos : In(b, l) /\ ~In(b, r) => \E i \in InUse(u) : PartOf(u[i], l) /\ In(b, u[i])
        <5> SUFFICES ASSUME NEW b \in 0..MaxPos, In(b, l), ~In(b, r)
                     PROVE  \E i \in InUse(u) : PartOf(u[i], l) /\ In(b, u[i])
          OBVIOUS
        <5>1. b < r.first \/ r.last < b BY <1>3 DEF In
        <5>2. CASE b < r.first
          <6>1. PartOf(lower, l) /\ In(b, lower) BY <2>5, <3>1, <5>2 DEF lower
          <6> QED BY <6>1, <2>0, <4>4, <4>5
        <5>3. CASE r.last < b
          <6>1. PartOf(upper, l) /\ In(b, upper) BY <2>6, <3>1, <5>3 DEF upper
          <6> QED BY <6>1, <4>4, <4>5
        <5> QED BY <5>1, <5>2, <5>3
      <4> HIDE DEF u, m
      <4>11. LoopOK([s EXCEPT !.unlocking = TRUE, !.tab = u, !.n = m], k, r)
        BY <1>5, <2>0, <4>4, <4>6, <4>7, <4>8, <4>9, <4>10, Retable DEF c, l
      <4> QED BY <4>2, <4>11 DEF m
    <3> QED BY <3>4, <3>5
  <2> QED BY <2>3, <2>7, <2>8, <2>9
<1> QED BY <1>4, <1>5

\* The loop from the first slot to the last.
LEMMA Loop ==
  ASSUME file_lock \in [Slots -> AllLocks \cup {Unused}], nr_locks \in 0..NR_LOCKS, LocksCounted,
         NEW r \in Regions
  PROVE  LoopOK(Cleared(r), NR_LOCKS, r)
<1> DEFINE start == [tab |-> file_lock, n |-> nr_locks, unlocking |-> FALSE, full |-> FALSE]
           IsLoop(n, f) == f = [i \in 0..n |-> IF i = 0 THEN start ELSE Clear(f[i - 1], i, r)]
           B == {n \in Nat : ~\E f : IsLoop(n, f)}
<1>0. NR_LOCKS \in Nat \ {0} BY LocksAssumption
<1> HIDE DEF start
<1>1. B = {}
  <2>1. SUFFICES ASSUME B # {} PROVE FALSE OBVIOUS
  <2>2. PICK m \in B : \A n \in B : m <= n BY <2>1, LeastOfNat
  <2>3. CASE m = 0
    <3>1. IsLoop(0, [i \in 0..0 |-> start]) OBVIOUS
    <3> QED BY <2>3, <3>1
  <2>4. CASE m # 0
    <3>1. m - 1 \in Nat /\ m \in Nat /\ m - 1 \notin B
      <4>1. m \in Nat OBVIOUS
      <4>2. m - 1 \in Nat /\ ~(m <= m - 1) BY <4>1, <2>4
      <4> HIDE DEF B
      <4> QED BY <4>1, <4>2, <2>2
    <3>2. PICK f : IsLoop(m - 1, f) BY <3>1
    <3> DEFINE g == [i \in 0..m |-> IF i = m THEN Clear(f[m - 1], m, r) ELSE f[i]]
    <3>3. ASSUME NEW i \in 0..m
          PROVE  g[i] = IF i = 0 THEN start ELSE Clear(g[i - 1], i, r)
      <4>1. CASE i = 0 BY <2>4, <3>1, <3>2, <4>1
      <4>2. CASE i # 0
        <5>1. i - 1 \in 0..m - 1 /\ i - 1 # m /\ g[i - 1] = f[i - 1] BY <3>1, <4>2
        <5>2. CASE i = m BY <4>2, <5>1, <5>2
        <5>3. CASE i # m
          <6>1. i \in 0..m - 1 /\ g[i] = f[i] BY <5>3, <3>1
          <6>2. f[i] = Clear(f[i - 1], i, r) BY <3>2, <4>2, <6>1
          <6> QED BY <4>2, <5>1, <6>1, <6>2
        <5> QED BY <5>2, <5>3
      <4> QED BY <4>1, <4>2
    <3>4. DOMAIN g = 0..m /\ g = [i \in 0..m |-> g[i]] OBVIOUS
    <3> HIDE DEF g
    <3>5. IsLoop(m, g) BY <3>3, <3>4
    <3> QED BY <3>5, <2>2
  <2> QED BY <2>3, <2>4
<1> DEFINE after[i \in 0..NR_LOCKS] == IF i = 0 THEN start ELSE Clear(after[i - 1], i, r)
<1>2. Cleared(r) = after[NR_LOCKS] BY DEF Cleared, start
<1>3. IsLoop(NR_LOCKS, after)
  <2>1. \E f : IsLoop(NR_LOCKS, f) BY <1>0, <1>1
  <2> QED BY <2>1
<1> HIDE DEF after
<1>4. after[0] = start /\ \A i \in 1..NR_LOCKS : after[i] = Clear(after[i - 1], i, r)
  BY <1>0, <1>3
<1>5. LoopOK(start, 0, r)
  <2>1. start.tab = file_lock /\ start.n = nr_locks /\ start.unlocking = FALSE /\ start.full = FALSE
        /\ start \in [tab : [Slots -> AllLocks \cup {Unused}], n : 0..NR_LOCKS, unlocking : BOOLEAN,
                      full : BOOLEAN]
    BY DEF start
  <2>2. InUse(file_lock) = Used /\ nr_locks = Cardinality(Used) BY DEF InUse, Used, LocksCounted
  <2>3. \A j \in Used : file_lock[j] \in AllLocks /\ j \in Nat /\ j >= 1
    BY <1>0 DEF Used, Slots
  <2>4. \A j \in Used : PartOf(file_lock[j], file_lock[j]) BY <2>3, LockFacts DEF PartOf
  <2>5. \A i \in Used : ~(i <= 0) BY <2>3
  <2>6. {i \in Splits(r) : i <= 0} = {} BY <2>5 DEF Splits
  <2>7. nr_locks <= nr_locks + Cardinality({i \in Splits(r) : i <= 0}) BY <1>0, <2>6, FS_EmptySet
  <2> QED BY <2>1, <2>2, <2>4, <2>5, <2>7 DEF LoopOK
<1> DEFINE D == {i \in 0..NR_LOCKS : ~LoopOK(after[i], i, r)}
<1>6. D = {}
  <2>1. SUFFICES ASSUME D # {} PROVE FALSE OBVIOUS
  <2>2. D \in SUBSET Nat BY <1>0
  <2>3. PICK m \in D : \A n \in D : m <= n BY <2>1, <2>2, LeastOfNat
  <2>4. m # 0 BY <1>4, <1>5
  <2>5. m \in Slots /\ m \in 1..NR_LOCKS /\ m - 1 \in 0..NR_LOCKS /\ ~(m <= m - 1)
    BY <1>0, <2>4 DEF Slots
  <2>6. LoopOK(after[m - 1], m - 1, r) BY <2>3, <2>5
  <2>7. after[m] = Clear(after[m - 1], m, r) BY <1>4, <2>5
  <2> QED BY <2>5, <2>6, <2>7, ClearStep
<1> QED BY <1>0, <1>2, <1>6

----------------------------------------------------------------------------
(* The steps.                                                              *)

\* A step sets a lock for p, clears a region, drops the locks of p, or ends
\* the wait of p; all but the first only when nobody is REVIVING.
LEMMA NextCases ==
  ASSUME TypeOK, Next
  PROVE  \/ \E p \in Procs, l \in AllLocks, wait \in BOOLEAN :
              /\ SetLock(p, l, wait)
              /\ l.pid = p \/ (p \in Waiting /\ l = want[p])
         \/ \E r \in Regions : Unlock(r)
         \/ revived = {} /\ \E p \in Procs : /\ DropLocks(p)
                                             /\ Proceeds(p) \/ (want[p] = Unused /\ UNCHANGED want)
         \/ revived = {} /\ \E p \in Procs : do_unpause(p)
<1>1. CASE get_work
  <2>1. PICK p \in revived : SetLock(p, want[p], TRUE) BY <1>1 DEF get_work
  <2>2. p \in Procs /\ p \in Waiting /\ want[p] \in AllLocks BY DEF TypeOK, Waiting
  <2> QED BY <2>1, <2>2
<1>2. CASE NewCall
  <2>1. revived = {} BY <1>2 DEF NewCall
  <2>2. PICK p \in Procs :
          \/ /\ want[p] = Unused
             /\ \E r \in Regions :
                  \/ Unlock(r)
                  \/ \E t \in Types, wait \in BOOLEAN : SetLock(p, LockOf(p, t, r), wait)
          \/ want[p] = Unused /\ do_close(p)
          \/ do_exit(p)
          \/ do_unpause(p)
    BY <1>2 DEF NewCall
  <2>3. ASSUME NEW r \in Regions, NEW t \in Types, NEW wait \in BOOLEAN, SetLock(p, LockOf(p, t, r), wait)
        PROVE  \E q \in Procs, l \in AllLocks, w \in BOOLEAN : SetLock(q, l, w) /\ l.pid = q
    <3>1. LockOf(p, t, r) \in AllLocks BY DEF AllLocks
    <3>2. LockOf(p, t, r).pid = p BY DEF LockOf
    <3> QED BY <2>3, <3>1, <3>2
  <2>4. CASE want[p] = Unused /\ \E r \in Regions :
               \/ Unlock(r)
               \/ \E t \in Types, wait \in BOOLEAN : SetLock(p, LockOf(p, t, r), wait)
    <3>1. PICK r \in Regions :
               \/ Unlock(r)
               \/ \E t \in Types, wait \in BOOLEAN : SetLock(p, LockOf(p, t, r), wait)
      BY <2>4
    <3>2. CASE Unlock(r) BY <3>2
    <3>3. CASE \E t \in Types, wait \in BOOLEAN : SetLock(p, LockOf(p, t, r), wait)
      <4>1. \E q \in Procs, l \in AllLocks, w \in BOOLEAN : SetLock(q, l, w) /\ l.pid = q
        BY <2>3, <3>3
      <4> QED BY <4>1
    <3> QED BY <3>1, <3>2, <3>3
  <2>5. CASE want[p] = Unused /\ do_close(p) BY <2>1, <2>5 DEF do_close
  <2>6. CASE do_exit(p)
    <3>1. DropLocks(p) /\ Proceeds(p) BY <2>6 DEF do_exit
    <3> QED BY <2>1, <3>1
  <2>7. CASE do_unpause(p) BY <2>1, <2>7
  <2> QED BY <2>2, <2>4, <2>5, <2>6, <2>7
<1> QED BY <1>1, <1>2 DEF Next

\* What SetLock(p, l, wait) leaves: the table as it was, or with l, which
\* nothing stands in the way of, in a slot that was free.
LEMMA SetLockTable ==
  ASSUME TableSound, NEW p \in Procs, NEW l \in AllLocks, NEW wait \in BOOLEAN, SetLock(p, l, wait)
  PROVE  \/ UNCHANGED <<file_lock, nr_locks>>
         \/ /\ ~Conflict(l)
            /\ want' = [want EXCEPT ![p] = Unused]
            /\ \E f \in Slots : /\ file_lock[f] = Unused
                                /\ file_lock' = [file_lock EXCEPT ![f] = l]
                                /\ Used' = Used \cup {f} /\ f \notin Used
            /\ nr_locks' = nr_locks + 1 /\ nr_locks' \in 0..NR_LOCKS
<1>1. CASE Conflict(l) \/ Used = Slots BY <1>1 DEF SetLock
<1>2. CASE ~Conflict(l) /\ Used # Slots
  <2> DEFINE f == FirstUnused(file_lock)
  <2>1. /\ file_lock' = [file_lock EXCEPT ![f] = l] /\ nr_locks' = nr_locks + 1
        /\ want' = [want EXCEPT ![p] = Unused]
    BY <1>2 DEF SetLock, Proceeds
  <2>2. Used = InUse(file_lock) BY DEF Used, InUse
  <2>3. f \in Slots /\ file_lock[f] = Unused /\ Cardinality(Used) < NR_LOCKS
    BY <1>2, <2>2, SlotFacts
  <2> HIDE DEF f
  <2>4. file_lock \in [Slots -> AllLocks \cup {Unused}] /\ nr_locks \in 0..NR_LOCKS
        /\ nr_locks = Cardinality(Used)
    BY DEF TableSound, TypeOK, LocksCounted
  <2>5. Used' = Used \cup {f} /\ f \notin Used BY <2>1, <2>3, <2>4, LockFacts DEF Used
  <2>6. nr_locks' \in 0..NR_LOCKS BY <2>1, <2>3, <2>4, LockFacts
  <2> QED BY <1>2, <2>1, <2>3, <2>5, <2>6
<1> QED BY <1>1, <1>2

\* What dropping the locks of p leaves: the others, in their slots.
LEMMA DropTable ==
  ASSUME TableSound, NEW p \in Procs, DropLocks(p)
  PROVE  /\ file_lock' \in [Slots -> AllLocks \cup {Unused}]
         /\ nr_locks' \in 0..NR_LOCKS /\ LocksCounted'
         /\ Used' = Used \ Own(p)
         /\ \A i \in Used' : i \in Used /\ file_lock'[i] = file_lock[i]
<1>1. file_lock \in [Slots -> AllLocks \cup {Unused}] /\ nr_locks \in 0..NR_LOCKS
      /\ nr_locks = Cardinality(Used)
  BY DEF TableSound, TypeOK, LocksCounted
<1>2. /\ file_lock' = [i \in Slots |-> IF i \in Own(p) THEN Unused ELSE file_lock[i]]
      /\ nr_locks' = nr_locks - Cardinality(Own(p))
  BY DEF DropLocks
<1>3. file_lock' \in [Slots -> AllLocks \cup {Unused}] BY <1>1, <1>2
<1>4. Used' = Used \ Own(p) /\ \A i \in Used' : i \in Used /\ file_lock'[i] = file_lock[i]
  BY <1>2 DEF Used
<1>5. Own(p) \in SUBSET Used BY DEF Own
<1>6. IsFiniteSet(Used) /\ Cardinality(Used) \in 0..NR_LOCKS
  <2>1. Used = InUse(file_lock) BY DEF Used, InUse
  <2> QED BY <2>1, SlotFacts
<1>7. IsFiniteSet(Own(p)) /\ Cardinality(Own(p)) <= Cardinality(Used) BY <1>5, <1>6, FS_Subset
<1>8. Cardinality(Own(p)) \in Nat BY <1>7, FS_CardinalityType
<1>9. Cardinality(Used \ Own(p)) = Cardinality(Used) - Cardinality(Own(p))
  <2>1. Used \cap Own(p) = Own(p) BY <1>5
  <2> QED BY <1>6, <2>1, FS_Difference
<1>10. nr_locks' \in 0..NR_LOCKS BY <1>1, <1>2, <1>7, <1>8, LockFacts
<1>11. LocksCounted' BY <1>1, <1>2, <1>4, <1>9 DEF LocksCounted
<1> QED BY <1>3, <1>4, <1>10, <1>11

\* What clearing r leaves, as LoopOK says it of the whole loop.
LEMMA UnlockTable ==
  ASSUME TableSound, NEW r \in Regions, Unlock(r)
  PROVE  /\ LoopOK(Cleared(r), NR_LOCKS, r)
         /\ file_lock' = Cleared(r).tab /\ Used' = InUse(Cleared(r).tab)
         /\ file_lock' \in [Slots -> AllLocks \cup {Unused}]
         /\ nr_locks' \in 0..NR_LOCKS /\ LocksCounted'
         /\ \A i \in Used' : \E j \in Used : PartOf(file_lock'[i], file_lock[j])
<1>1. LoopOK(Cleared(r), NR_LOCKS, r) BY Loop DEF TableSound, TypeOK
<1>2. file_lock' = Cleared(r).tab /\ nr_locks' = Cleared(r).n BY DEF Unlock
<1>3. Used' = InUse(Cleared(r).tab) BY <1>2 DEF Used, InUse
<1> HIDE DEF Unlock
<1>4. /\ file_lock' \in [Slots -> AllLocks \cup {Unused}]
      /\ nr_locks' \in 0..NR_LOCKS /\ LocksCounted'
  BY <1>1, <1>2, <1>3 DEF LoopOK, LocksCounted
<1>5. \A i \in Used' : \E j \in Used : PartOf(file_lock'[i], file_lock[j])
  BY <1>1, <1>2, <1>3 DEF LoopOK
<1> QED BY <1>1, <1>2, <1>3, <1>4, <1>5

\* Parts of locks that are not in each other's way are not either.
LEMMA PartsExclude ==
  ASSUME NEW a \in AllLocks, NEW b \in AllLocks, NEW k \in AllLocks, NEW l \in AllLocks,
         PartOf(a, k), PartOf(b, l)
  PROVE  /\ Overlap(a, b) => Overlap(k, l)
         /\ InTheWay(a, b) => InTheWay(k, l)
<1>1. /\ a.first \in Int /\ a.last \in Int /\ b.first \in Int /\ b.last \in Int
      /\ k.first \in Int /\ k.last \in Int /\ l.first \in Int /\ l.last \in Int
  BY LockFacts
<1>2. Overlap(a, b) => Overlap(k, l) BY <1>1 DEF PartOf, Overlap
<1> QED BY <1>2 DEF InTheWay, PartOf

\* The table stays sound.
LEMMA TableStep ==
  ASSUME TableSound, [Next]_vars
  PROVE  TableSound'
<1>0. /\ file_lock \in [Slots -> AllLocks \cup {Unused}] /\ nr_locks \in 0..NR_LOCKS
      /\ want \in [Procs -> AllLocks \cup {Unused}] /\ revived \subseteq Waiting
      /\ LocksCounted /\ Exclusion
      /\ \A i \in Used : file_lock[i] \in AllLocks
  BY DEF TableSound, TypeOK, Used
<1>1. ASSUME NEW p \in Procs, NEW l \in AllLocks, NEW wait \in BOOLEAN, SetLock(p, l, wait)
      PROVE  TableSound'
  <2>1. /\ want' \in [Procs -> AllLocks \cup {Unused}] /\ revived' = revived \ {p}
        /\ \A q \in Procs : q # p => want'[q] = want[q]
    BY <1>0, <1>1 DEF SetLock, Proceeds
  <2>2. revived' \subseteq Waiting' BY <1>0, <2>1 DEF Waiting
  <2>3. CASE UNCHANGED <<file_lock, nr_locks>>
    <3>1. Used' = Used BY <2>3 DEF Used
    <3>2. LocksCounted' BY <1>0, <2>3, <3>1 DEF LocksCounted
    <3>3. Exclusion' BY <1>0, <2>3, <3>1 DEF Exclusion
    <3> QED BY <1>0, <2>1, <2>2, <2>3, <3>2, <3>3 DEF TableSound, TypeOK
  <2>4. CASE ~Conflict(l) /\ nr_locks' = nr_locks + 1 /\ nr_locks' \in 0..NR_LOCKS
             /\ \E f \in Slots : /\ file_lock[f] = Unused
                                 /\ file_lock' = [file_lock EXCEPT ![f] = l]
                                 /\ Used' = Used \cup {f} /\ f \notin Used
    <3>1. PICK f \in Slots : /\ file_lock' = [file_lock EXCEPT ![f] = l]
                             /\ Used' = Used \cup {f} /\ f \notin Used
      BY <2>4
    <3>2. file_lock' \in [Slots -> AllLocks \cup {Unused}] BY <1>0, <3>1
    <3>3. LocksCounted'
      <4>1. Used = InUse(file_lock) BY DEF Used, InUse
      <4>2. IsFiniteSet(Used) BY <4>1, SlotFacts
      <4>3. Cardinality(Used \cup {f}) = Cardinality(Used) + 1 BY <3>1, <4>2, FS_AddElement
      <4> QED BY <1>0, <2>4, <3>1, <4>3 DEF LocksCounted
    <3>4. \A i \in Used : file_lock'[i] = file_lock[i] BY <1>0, <3>1 DEF Used
    <3>5. file_lock'[f] = l BY <1>0, <3>1
    <3>6. \A i \in Used : ~InTheWay(file_lock[i], l) BY <2>4 DEF Conflict
    <3>7. \A i \in Used : ~InTheWay(l, file_lock[i]) BY <1>0, <3>6, LockFacts DEF InTheWay, Overlap
    <3>8. ~InTheWay(l, l) BY DEF InTheWay
    <3>9. ASSUME NEW i \in Used', NEW j \in Used' PROVE ~InTheWay(file_lock[i], file_lock[j])'
      <4>1. CASE i = f /\ j = f BY <3>5, <3>8, <4>1 DEF InTheWay, Overlap
      <4>2. CASE i = f /\ j # f
        <5>1. j \in Used /\ file_lock'[j] = file_lock[j] BY <3>1, <3>4, <4>2
        <5> QED BY <3>5, <3>7, <4>2, <5>1 DEF InTheWay, Overlap
      <4>3. CASE i # f /\ j = f
        <5>1. i \in Used /\ file_lock'[i] = file_lock[i] BY <3>1, <3>4, <4>3
        <5> QED BY <3>5, <3>6, <4>3, <5>1 DEF InTheWay, Overlap
      <4>4. CASE i # f /\ j # f
        <5>1. i \in Used /\ j \in Used /\ file_lock'[i] = file_lock[i] /\ file_lock'[j] = file_lock[j]
          BY <3>1, <3>4, <4>4
        <5>2. ~InTheWay(file_lock[i], file_lock[j]) BY <1>0, <5>1 DEF Exclusion
        <5> QED BY <5>1, <5>2 DEF InTheWay, Overlap
      <4> QED BY <4>1, <4>2, <4>3, <4>4
    <3>10. Exclusion' BY <3>9 DEF Exclusion
    <3> QED BY <2>1, <2>2, <2>4, <3>2, <3>3, <3>10 DEF TableSound, TypeOK
  <2> QED BY <1>1, <2>3, <2>4, SetLockTable
<1>2. ASSUME NEW r \in Regions, Unlock(r) PROVE TableSound'
  <2>1. /\ file_lock' \in [Slots -> AllLocks \cup {Unused}]
        /\ nr_locks' \in 0..NR_LOCKS /\ LocksCounted'
        /\ \A i \in Used' : \E j \in Used : PartOf(file_lock'[i], file_lock[j])
    BY <1>2, UnlockTable
  <2>2. want' = want /\ (revived' = lock_revive \/ revived' = revived) BY <1>2 DEF Unlock
  <2>3. revived' \subseteq Waiting' BY <1>0, <2>2 DEF lock_revive, Waiting
  <2>4. ASSUME NEW i \in Used', NEW j \in Used', InTheWay(file_lock'[i], file_lock'[j]) PROVE FALSE
    <3>1. PICK k \in Used : PartOf(file_lock'[i], file_lock[k]) BY <2>1
    <3>2. PICK l \in Used : PartOf(file_lock'[j], file_lock[l]) BY <2>1
    <3>3. file_lock'[i] \in AllLocks /\ file_lock'[j] \in AllLocks BY <2>1 DEF Used
    <3>4. InTheWay(file_lock[k], file_lock[l]) BY <1>0, <2>4, <3>1, <3>2, <3>3, PartsExclude
    <3> QED BY <1>0, <3>4 DEF Exclusion
  <2>5. Exclusion' BY <2>4 DEF Exclusion, InTheWay, Overlap
  <2> QED BY <1>0, <2>1, <2>2, <2>3, <2>5 DEF TableSound, TypeOK
<1>3. ASSUME NEW p \in Procs, DropLocks(p), revived = {},
             Proceeds(p) \/ (want[p] = Unused /\ UNCHANGED want)
      PROVE  TableSound'
  <2>1. /\ file_lock' \in [Slots -> AllLocks \cup {Unused}]
        /\ nr_locks' \in 0..NR_LOCKS /\ LocksCounted'
        /\ \A i \in Used' : i \in Used /\ file_lock'[i] = file_lock[i]
    BY <1>3, DropTable
  <2>2. want' \in [Procs -> AllLocks \cup {Unused}] /\ \A q \in Procs : q # p => want'[q] = want[q]
    BY <1>0, <1>3 DEF Proceeds
  <2>3. revived' \subseteq Waiting \ {p} BY <1>3 DEF DropLocks, lock_revive
  <2>4. revived' \subseteq Waiting' BY <2>2, <2>3 DEF Waiting
  <2>5. ASSUME NEW i \in Used', NEW j \in Used' PROVE ~InTheWay(file_lock[i], file_lock[j])'
    <3>1. i \in Used /\ j \in Used /\ file_lock'[i] = file_lock[i] /\ file_lock'[j] = file_lock[j]
      BY <2>1
    <3>2. ~InTheWay(file_lock[i], file_lock[j]) BY <1>0, <3>1 DEF Exclusion
    <3> QED BY <3>1, <3>2 DEF InTheWay, Overlap
  <2>6. Exclusion' BY <2>5 DEF Exclusion
  <2> QED BY <2>1, <2>2, <2>4, <2>6 DEF TableSound, TypeOK
<1>4. ASSUME NEW p \in Procs, do_unpause(p), revived = {} PROVE TableSound'
  <2>1. /\ want' \in [Procs -> AllLocks \cup {Unused}] /\ revived' = {}
        /\ UNCHANGED <<file_lock, nr_locks>>
    BY <1>0, <1>4 DEF do_unpause, Proceeds
  <2>2. Used' = Used BY <2>1 DEF Used
  <2>3. LocksCounted' /\ Exclusion' BY <1>0, <2>1, <2>2 DEF LocksCounted, Exclusion
  <2> QED BY <1>0, <2>1, <2>3 DEF TableSound, TypeOK
<1>5. CASE UNCHANGED vars
  <2>1. Used' = Used /\ Waiting' = Waiting BY <1>5 DEF vars, Used, Waiting
  <2>2. LocksCounted' /\ Exclusion' BY <1>0, <1>5, <2>1 DEF vars, LocksCounted, Exclusion
  <2> QED BY <1>0, <1>5, <2>1, <2>2 DEF vars, TableSound, TypeOK
<1>6. CASE Next
  <2>1. TypeOK BY DEF TableSound
  <2> QED BY <1>1, <1>2, <1>3, <1>4, <1>6, <2>1, NextCases
<1> QED BY <1>5, <1>6

\* The table starts sound: it is empty.
LEMMA TableInit == Init => TableSound
<1> SUFFICES ASSUME Init PROVE TableSound OBVIOUS
<1>1. Used = {} /\ Waiting = {} BY DEF Init, Used, Waiting
<1>2. LocksCounted BY <1>1, FS_EmptySet DEF LocksCounted, Init
<1> QED BY <1>1, <1>2, LockFacts DEF Init, TableSound, TypeOK, Exclusion

\* Theorem: the lock table is sound, through all splits, closes and retries
\* (lock_op): regions are not empty, nr_locks counts the locks, and no byte
\* locked for writing is locked by another process.
THEOREM TableSoundAlways == Spec => []TableSound
<1>1. Init => TableSound BY TableInit
<1>2. TableSound /\ [Next]_vars => TableSound' BY TableStep
<1> QED BY <1>1, <1>2, PTL DEF Spec

----------------------------------------------------------------------------
(* Unlocking is exact.                                                     *)

\* A byte that is held lies in a lock of the table.
LEMMA HeldFacts ==
  ASSUME NEW h
  PROVE  h \in Held <=> \E i \in Used : \E b \in file_lock[i].first..file_lock[i].last :
                          h = [pid |-> file_lock[i].pid, type |-> file_lock[i].type, at |-> b]
BY DEF Held

\* If the table has room for every split, what is left is exactly what was
\* held outside of the region.
LEMMA ExactStep ==
  ASSUME TableSound, NEW r \in Regions, Unlock(r), nr_locks + Cardinality(Splits(r)) <= NR_LOCKS
  PROVE  Held' = {h \in Held : h.at < r.first \/ h.at > r.last}
<1> DEFINE s == Cleared(r)
<1>1. /\ LoopOK(s, NR_LOCKS, r) /\ file_lock' = s.tab /\ Used' = InUse(s.tab)
      /\ file_lock' \in [Slots -> AllLocks \cup {Unused}]
      /\ \A i \in Used' : \E j \in Used : PartOf(file_lock'[i], file_lock[j])
  BY UnlockTable
<1> HIDE DEF s, Unlock
<1>2. /\ r.first \in 0..MaxPos /\ r.last \in 0..MaxPos /\ r.first <= r.last
      /\ MaxPos \in Nat /\ NR_LOCKS \in Nat \ {0}
  BY LockFacts DEF Regions
<1>3. /\ \A i \in Used : file_lock[i] \in AllLocks
      /\ \A i \in Used' : file_lock'[i] \in AllLocks /\ i \in Slots
      /\ nr_locks \in Nat
  BY <1>1, <1>2 DEF TableSound, TypeOK, Used
<1>4. /\ \A i \in Used : /\ file_lock[i].first \in 0..MaxPos /\ file_lock[i].last \in 0..MaxPos
                         /\ file_lock[i].first <= file_lock[i].last
      /\ \A i \in Used' : /\ file_lock'[i].first \in 0..MaxPos /\ file_lock'[i].last \in 0..MaxPos
                          /\ file_lock'[i].first <= file_lock'[i].last
  BY <1>3, LockFacts
<1>5. ~s.full
  <2>1. IsFiniteSet(Slots) BY LocksAssumption, FS_Interval DEF Slots
  <2>2. IsFiniteSet(Splits(r)) BY <2>1, FS_Subset DEF Splits, Used
  <2>3. Cardinality(Splits(r)) \in Nat BY <2>2, FS_CardinalityType
  <2>4. s.full => NR_LOCKS < nr_locks + Cardinality(Splits(r)) BY <1>1 DEF LoopOK
  <2> QED BY <1>2, <1>3, <2>3, <2>4
<1>6. \A i \in Used' : ~Overlap(file_lock'[i], r)
  <2>1. \A i \in Used' : i <= NR_LOCKS BY <1>2, <1>3 DEF Slots
  <2> QED BY <1>1, <1>5, <2>1 DEF LoopOK
<1> DEFINE H == {h \in Held : h.at < r.first \/ h.at > r.last}
<1>7. ASSUME NEW h \in Held' PROVE h \in H
  <2>0. PICK i \in Used' : \E b \in file_lock'[i].first..file_lock'[i].last :
          h = [pid |-> file_lock'[i].pid, type |-> file_lock'[i].type, at |-> b]
    BY <1>7 DEF Held
  <2>1. PICK b \in file_lock'[i].first..file_lock'[i].last :
          h = [pid |-> file_lock'[i].pid, type |-> file_lock'[i].type, at |-> b]
    BY <2>0
  <2>2. PICK j \in Used : PartOf(file_lock'[i], file_lock[j]) BY <1>1
  <2>3. h.at = b /\ b \in Int /\ file_lock'[i].first <= b /\ b <= file_lock'[i].last
    BY <1>4, <2>1
  <2>4. b < r.first \/ b > r.last BY <1>2, <1>4, <1>6, <2>3 DEF Overlap
  <2>5. b \in file_lock[j].first..file_lock[j].last BY <1>4, <2>2, <2>3 DEF PartOf
  <2>6. h = [pid |-> file_lock[j].pid, type |-> file_lock[j].type, at |-> b]
    BY <2>1, <2>2 DEF PartOf
  <2>7. h \in Held BY <2>5, <2>6, HeldFacts
  <2> QED BY <2>3, <2>4, <2>7
<1>8. ASSUME NEW h \in Held, h.at < r.first \/ h.at > r.last PROVE h \in Held'
  <2>0. PICK j \in Used : \E b \in file_lock[j].first..file_lock[j].last :
          h = [pid |-> file_lock[j].pid, type |-> file_lock[j].type, at |-> b]
    BY HeldFacts
  <2>1. PICK b \in file_lock[j].first..file_lock[j].last :
          h = [pid |-> file_lock[j].pid, type |-> file_lock[j].type, at |-> b]
    BY <2>0
  <2>2. h.at = b /\ b \in 0..MaxPos /\ In(b, file_lock[j]) BY <1>2, <1>4, <2>1 DEF In
  <2>3. ~In(b, r) BY <1>2, <1>8, <2>2 DEF In
  <2>4. PICK i \in InUse(s.tab) : /\ In(b, s.tab[i]) /\ s.tab[i].pid = file_lock[j].pid
                                  /\ s.tab[i].type = file_lock[j].type
    BY <1>1, <2>2, <2>3 DEF LoopOK
  <2>5. i \in Used' /\ b \in file_lock'[i].first..file_lock'[i].last
    BY <1>1, <1>4, <2>2, <2>4 DEF In
  <2>6. h = [pid |-> file_lock'[i].pid, type |-> file_lock'[i].type, at |-> b]
    BY <1>1, <2>1, <2>4
  <2> QED BY <2>5, <2>6 DEF Held
<1> QED BY <1>7, <1>8

\* Theorem: unlocking clears the bytes it names and no other (lock_op), for
\* every table with room for the locks that it cuts in two.
THEOREM UnlocksExactly == Spec => UnlockExact
<1>1. TableSound /\ [Next]_vars =>
        [\A r \in Regions :
           Unlock(r) /\ nr_locks + Cardinality(Splits(r)) <= NR_LOCKS
             => Held' = {h \in Held : h.at < r.first \/ h.at > r.last}]_vars
  BY ExactStep
<1>2. Spec => []TableSound BY TableSoundAlways
<1> QED BY <1>1, <1>2, PTL DEF Spec, UnlockExact

----------------------------------------------------------------------------
(* Nobody who waits is forgotten.                                          *)

\* Where a process has two locks on one byte they are of one type, and so are
\* its locks and the one it waits for: what Mixed = FALSE keeps.
Uniform ==
  \A i, j \in Used : file_lock[i].pid = file_lock[j].pid /\ Overlap(file_lock[i], file_lock[j])
                       => file_lock[i].type = file_lock[j].type
OwnWant ==
  \A p \in Waiting :
    /\ want[p].pid = p
    /\ \A i \in Used : file_lock[i].pid = p /\ Overlap(file_lock[i], want[p])
                         => file_lock[i].type = want[p].type
\* Who waits and will not try again has a lock in its way.
Blocked == \A p \in Waiting \ revived : Conflict(want[p])

WInv == TableSound /\ Uniform /\ OwnWant /\ Blocked

\* Setting a lock keeps WInv.
LEMMA SetLockWaiters ==
  ASSUME Mixed = FALSE, WInv, NEW p \in Procs, NEW l \in AllLocks, NEW wait \in BOOLEAN,
         SetLock(p, l, wait), l.pid = p
  PROVE  Uniform' /\ OwnWant' /\ Blocked'
<1>0. /\ file_lock \in [Slots -> AllLocks \cup {Unused}]
      /\ want \in [Procs -> AllLocks \cup {Unused}]
      /\ \A i \in Used : file_lock[i] \in AllLocks /\ i \in Slots
      /\ \A q \in Waiting : want[q] \in AllLocks /\ q \in Procs
      /\ TableSound /\ Uniform /\ OwnWant /\ Blocked
  BY DEF WInv, TableSound, TypeOK, Used, Waiting
<1>1. \A i \in Used : file_lock[i].pid = p /\ Overlap(file_lock[i], l) => file_lock[i].type = l.type
  BY DEF SetLock
<1>2. /\ revived' = revived \ {p}
      /\ want' \in [Procs -> AllLocks \cup {Unused}]
      /\ \A q \in Procs : q # p => want'[q] = want[q]
      /\ want'[p] # Unused => want'[p] = l /\ Conflict(l) /\ UNCHANGED file_lock
  BY <1>0 DEF SetLock, Proceeds
<1>3. CASE UNCHANGED file_lock
  <2>1. Used' = Used BY <1>3 DEF Used
  <2>2. Uniform' BY <1>0, <1>3, <2>1 DEF Uniform
  <2>3. ASSUME NEW q \in Waiting'
        PROVE  /\ want'[q].pid = q
               /\ \A i \in Used : file_lock[i].pid = q /\ Overlap(file_lock[i], want'[q])
                                    => file_lock[i].type = want'[q].type
               /\ q \notin revived' => \E i \in Used : InTheWay(file_lock[i], want'[q])
    <3>1. q \in Procs /\ want'[q] # Unused BY DEF Waiting
    <3>2. CASE q = p
      <4>1. want'[q] = l /\ Conflict(l) BY <1>2, <3>1, <3>2
      <4>2. \E i \in Used : InTheWay(file_lock[i], l) BY <4>1 DEF Conflict
      <4> QED BY <1>1, <3>2, <4>1, <4>2
    <3>3. CASE q # p
      <4>1. want'[q] = want[q] /\ q \in Waiting BY <1>2, <3>1, <3>3 DEF Waiting
      <4>2. q \notin revived' => Conflict(want[q]) BY <1>0, <1>2, <3>3, <4>1 DEF Blocked
      <4>3. q \notin revived' => \E i \in Used : InTheWay(file_lock[i], want[q])
        BY <4>2 DEF Conflict
      <4> QED BY <1>0, <4>1, <4>3 DEF OwnWant
    <3> QED BY <3>2, <3>3
  <2>4. OwnWant' BY <1>3, <2>1, <2>3 DEF OwnWant
  <2>5. Blocked' BY <1>3, <2>1, <2>3 DEF Blocked, Conflict
  <2> QED BY <2>2, <2>4, <2>5
<1>4. CASE ~UNCHANGED file_lock
  <2>1. PICK f \in Slots : /\ file_lock[f] = Unused
                           /\ file_lock' = [file_lock EXCEPT ![f] = l]
                           /\ Used' = Used \cup {f} /\ f \notin Used
    BY <1>0, <1>4, SetLockTable
  <2>2. /\ file_lock'[f] = l
        /\ \A i \in Used : file_lock'[i] = file_lock[i]
    BY <1>0, <2>1 DEF Used
  <2>3. want'[p] = Unused BY <1>2, <1>4
  <2>4. \A q \in Waiting' : q # p /\ q \in Waiting /\ want'[q] = want[q] /\ q \in Procs
    BY <1>2, <2>3 DEF Waiting
  <2>5. ASSUME NEW i \in Used', NEW j \in Used', file_lock'[i].pid = file_lock'[j].pid,
               Overlap(file_lock'[i], file_lock'[j])
        PROVE  file_lock'[i].type = file_lock'[j].type
    <3>1. CASE i = f /\ j = f BY <3>1
    <3>2. CASE i = f /\ j # f
      <4>1. j \in Used /\ file_lock'[j] = file_lock[j] BY <2>1, <2>2, <3>2
      <4>2. Overlap(file_lock[j], l) BY <2>2, <2>5, <3>2, <4>1 DEF Overlap
      <4> QED BY <1>1, <2>2, <2>5, <3>2, <4>1, <4>2
    <3>3. CASE i # f /\ j = f
      <4>1. i \in Used /\ file_lock'[i] = file_lock[i] BY <2>1, <2>2, <3>3
      <4> QED BY <1>1, <2>2, <2>5, <3>3, <4>1
    <3>4. CASE i # f /\ j # f
      <4>1. i \in Used /\ j \in Used /\ file_lock'[i] = file_lock[i] /\ file_lock'[j] = file_lock[j]
        BY <2>1, <2>2, <3>4
      <4> QED BY <1>0, <2>5, <4>1 DEF Uniform
    <3> QED BY <3>1, <3>2, <3>3, <3>4
  <2>6. Uniform' BY <2>5 DEF Uniform, Overlap
  <2>7. ASSUME NEW q \in Waiting'
        PROVE  /\ want'[q].pid = q
               /\ \A i \in Used' : file_lock'[i].pid = q /\ Overlap(file_lock'[i], want'[q])
                                    => file_lock'[i].type = want'[q].type
               /\ q \notin revived' => \E i \in Used' : InTheWay(file_lock'[i], want'[q])
    <3>1. q # p /\ q \in Waiting /\ want'[q] = want[q] BY <2>4
    <3>2. ASSUME NEW i \in Used', file_lock'[i].pid = q, Overlap(file_lock'[i], want'[q])
          PROVE  file_lock'[i].type = want'[q].type
      <4>1. i # f BY <2>2, <3>1, <3>2
      <4>2. i \in Used /\ file_lock'[i] = file_lock[i] BY <2>1, <2>2, <4>1
      <4> QED BY <1>0, <3>1, <3>2, <4>2 DEF OwnWant
    <3>3. ASSUME q \notin revived' PROVE \E i \in Used' : InTheWay(file_lock'[i], want'[q])
      <4>1. Conflict(want[q]) BY <1>0, <1>2, <3>1, <3>3 DEF Blocked
      <4>2. PICK i \in Used : InTheWay(file_lock[i], want[q]) BY <4>1 DEF Conflict
      <4> QED BY <2>1, <2>2, <3>1, <4>2
    <3>4. want'[q].pid = q BY <1>0, <3>1 DEF OwnWant
    <3> QED BY <3>2, <3>3, <3>4
  <2>8. OwnWant' BY <2>7 DEF OwnWant, Overlap
  <2>9. Blocked' BY <2>7 DEF Blocked, Conflict, InTheWay, Overlap
  <2> QED BY <2>6, <2>8, <2>9
<1> QED BY <1>3, <1>4

\* The lock that a full table kept whole stands in the way of everyone whose
\* conflict lay in the region: it is of the same type as the lock that did,
\* or both are read locks and the waiter wants to write.
LEMMA KeptInTheWay ==
  ASSUME WInv, NEW q \in Waiting, NEW r \in Regions, NEW i \in Used, NEW j \in Used,
         Around(file_lock[i], r), InTheWay(file_lock[j], want[q]),
         NEW b \in Int, In(b, file_lock[j]), In(b, want[q]), In(b, r)
  PROVE  InTheWay(file_lock[i], want[q])
<1> DEFINE l == file_lock[i]
           k == file_lock[j]
           w == want[q]
<1>1. l \in AllLocks /\ k \in AllLocks /\ w \in AllLocks
  BY DEF WInv, TableSound, TypeOK, Used, Waiting
<1>2. /\ l.first \in Int /\ l.last \in Int /\ k.first \in Int /\ k.last \in Int
      /\ w.first \in Int /\ w.last \in Int /\ l.type \in Types /\ k.type \in Types /\ w.type \in Types
      /\ r.first \in Int /\ r.last \in Int
  BY <1>1, LockFacts DEF Regions
<1>3. Overlap(l, w) /\ Overlap(k, l) /\ Overlap(l, k) BY <1>2 DEF Overlap, Around, In
<1>4. CASE l.pid = k.pid
  <2>1. l.type = k.type BY <1>3, <1>4 DEF WInv, Uniform
  <2> QED BY <1>3, <1>4, <2>1 DEF InTheWay
<1>5. CASE l.pid # k.pid
  <2>1. k.type = "F_RDLCK" /\ l.type = "F_RDLCK"
    <3>1. ~InTheWay(k, l) BY DEF WInv, TableSound, Exclusion
    <3> QED BY <1>3, <1>5, <3>1 DEF InTheWay
  <2>2. w.type # "F_RDLCK" BY <2>1 DEF InTheWay
  <2>3. w.pid = q /\ (l.pid = q => l.type = w.type) BY <1>3 DEF WInv, OwnWant
  <2>4. l.pid # w.pid BY <2>1, <2>2, <2>3
  <2> QED BY <1>3, <2>2, <2>4 DEF InTheWay
<1> QED BY <1>4, <1>5

\* Clearing a region keeps WInv.
LEMMA UnlockWaiters ==
  ASSUME WInv, NEW r \in Regions, Unlock(r)
  PROVE  Uniform' /\ OwnWant' /\ Blocked'
<1> DEFINE s == Cleared(r)
<1>0. /\ \A i \in Used : file_lock[i] \in AllLocks
      /\ \A q \in Waiting : want[q] \in AllLocks
      /\ TableSound /\ Uniform /\ OwnWant /\ Blocked
  BY DEF WInv, TableSound, TypeOK, Used, Waiting
<1>1. /\ LoopOK(s, NR_LOCKS, r) /\ file_lock' = s.tab /\ Used' = InUse(s.tab)
      /\ \A i \in Used' : \E j \in Used : PartOf(file_lock'[i], file_lock[j])
      /\ \A i \in Used' : file_lock'[i] \in AllLocks
  BY <1>0, UnlockTable DEF Used
<1>2. /\ want' = want /\ Waiting' = Waiting
      /\ revived' = IF s.unlocking /\ ~s.full THEN lock_revive ELSE revived
  BY DEF Unlock, Waiting
<1> HIDE DEF s, Unlock
<1>3. ASSUME NEW i \in Used', NEW j \in Used', file_lock'[i].pid = file_lock'[j].pid,
             Overlap(file_lock'[i], file_lock'[j])
      PROVE  file_lock'[i].type = file_lock'[j].type
  <2>1. PICK k \in Used : PartOf(file_lock'[i], file_lock[k]) BY <1>1
  <2>2. PICK l \in Used : PartOf(file_lock'[j], file_lock[l]) BY <1>1
  <2>3. Overlap(file_lock[k], file_lock[l]) BY <1>0, <1>1, <1>3, <2>1, <2>2, PartsExclude
  <2>4. file_lock[k].pid = file_lock[l].pid BY <1>3, <2>1, <2>2 DEF PartOf
  <2>5. file_lock[k].type = file_lock[l].type BY <1>0, <2>3, <2>4 DEF Uniform
  <2> QED BY <2>1, <2>2, <2>5 DEF PartOf
<1>4. Uniform' BY <1>3 DEF Uniform, Overlap
<1>5. ASSUME NEW q \in Waiting
      PROVE  /\ want[q].pid = q
             /\ \A i \in Used' : file_lock'[i].pid = q /\ Overlap(file_lock'[i], want[q])
                                   => file_lock'[i].type = want[q].type
  <2>1. want[q].pid = q BY <1>0 DEF OwnWant
  <2>2. ASSUME NEW i \in Used', file_lock'[i].pid = q, Overlap(file_lock'[i], want[q])
        PROVE  file_lock'[i].type = want[q].type
    <3>1. PICK k \in Used : PartOf(file_lock'[i], file_lock[k]) BY <1>1
    <3>2. PartOf(want[q], want[q]) BY <1>0, LockFacts DEF PartOf
    <3>3. Overlap(file_lock[k], want[q]) BY <1>0, <1>1, <2>2, <3>1, <3>2, PartsExclude
    <3>4. file_lock[k].type = want[q].type BY <1>0, <2>2, <3>1, <3>3 DEF OwnWant, PartOf
    <3> QED BY <3>1, <3>4 DEF PartOf
  <2> QED BY <2>1, <2>2
<1>6. OwnWant' BY <1>2, <1>5 DEF OwnWant, Overlap
<1>7. ASSUME NEW q \in Waiting \ revived' PROVE \E i \in Used' : InTheWay(file_lock'[i], want[q])
  <2>1. revived' = revived /\ (~s.unlocking \/ s.full) BY <1>2, <1>7 DEF lock_revive
  <2>2. Conflict(want[q]) BY <1>0, <2>1 DEF Blocked
  <2>3. PICK j \in Used : InTheWay(file_lock[j], want[q]) BY <2>2 DEF Conflict
  <2>4. CASE ~s.unlocking
    <3>1. file_lock' = file_lock BY <1>1, <2>4 DEF LoopOK
    <3>2. Used' = Used BY <3>1 DEF Used
    <3> QED BY <2>3, <3>1, <3>2
  <2>5. CASE s.full
    <3> DEFINE k == file_lock[j]
               w == want[q]
    <3>1. k \in AllLocks /\ w \in AllLocks BY <1>0
    <3>2. /\ k.first \in 0..MaxPos /\ k.last \in 0..MaxPos /\ k.first <= k.last
          /\ w.first \in 0..MaxPos /\ w.last \in 0..MaxPos /\ w.first <= w.last
      BY <3>1, LockFacts
    <3>3. k.first <= w.last /\ w.first <= k.last BY <2>3 DEF InTheWay, Overlap
    <3> HIDE DEF k, w
    <3>4. PICK b \in 0..MaxPos : In(b, k) /\ In(b, w)
      <4>1. CASE k.first <= w.first BY <3>2, <3>3, <4>1 DEF In
      <4>2. CASE ~(k.first <= w.first)
        <5>1. In(k.first, k) /\ In(k.first, w) BY <3>2, <3>3, <4>2, LockFacts DEF In
        <5> QED BY <3>2, <5>1
      <4> QED BY <4>1, <4>2
    <3>5. CASE In(b, r)
      <4>1. PICK i \in Used : s.tab[i] = file_lock[i] /\ Around(file_lock[i], r)
        BY <1>1, <2>5 DEF LoopOK
      <4>2. b \in Int BY LockFacts
      <4>3. InTheWay(file_lock[i], want[q])
        BY <2>3, <3>4, <3>5, <4>1, <4>2, KeptInTheWay DEF k, w
      <4>4. i \in Used' /\ file_lock'[i] = file_lock[i] BY <1>1, <4>1 DEF Used
      <4> QED BY <4>3, <4>4
    <3>6. CASE ~In(b, r)
      <4>1. PICK i \in InUse(s.tab) : /\ In(b, s.tab[i]) /\ s.tab[i].pid = k.pid
                                      /\ s.tab[i].type = k.type
        BY <1>1, <3>4, <3>6 DEF LoopOK, k
      <4> DEFINE x == s.tab[i]
      <4>2. x \in AllLocks /\ i \in Used' BY <1>1, <4>1
      <4>3. x.first \in Int /\ x.last \in Int BY <4>2, LockFacts
      <4>4. Overlap(x, w) BY <3>2, <3>4, <4>1, <4>3 DEF Overlap, In
      <4>5. InTheWay(x, w) BY <2>3, <4>1, <4>4 DEF InTheWay, k, w
      <4> QED BY <1>1, <4>2, <4>5 DEF w
    <3> QED BY <3>5, <3>6
  <2> QED BY <2>1, <2>4, <2>5
<1>8. Blocked' BY <1>2, <1>7 DEF Blocked, Conflict, InTheWay, Overlap
<1> QED BY <1>4, <1>6, <1>8

\* Dropping the locks of a process that does not wait, or not any more,
\* keeps WInv.
LEMMA DropWaiters ==
  ASSUME WInv, NEW p \in Procs, DropLocks(p), revived = {},
         Proceeds(p) \/ (want[p] = Unused /\ UNCHANGED want)
  PROVE  Uniform' /\ OwnWant' /\ Blocked'
<1>0. /\ TableSound /\ Uniform /\ OwnWant /\ Blocked
      /\ want \in [Procs -> AllLocks \cup {Unused}]
  BY DEF WInv, TableSound, TypeOK
<1>1. /\ Used' = Used \ Own(p)
      /\ \A i \in Used' : i \in Used /\ file_lock'[i] = file_lock[i]
  BY <1>0, DropTable
<1>2. revived' = IF Own(p) # {} THEN lock_revive \ {p} ELSE revived BY DEF DropLocks
<1>3. \A q \in Waiting' : q # p /\ q \in Waiting /\ want'[q] = want[q]
  BY <1>0 DEF Proceeds, Waiting
<1>4. Uniform' BY <1>0, <1>1 DEF Uniform, Overlap
<1>5. OwnWant' BY <1>0, <1>1, <1>3 DEF OwnWant, Overlap
<1>6. ASSUME NEW q \in Waiting', q \notin revived'
      PROVE  \E i \in Used' : InTheWay(file_lock'[i], want'[q])
  <2>1. q \in Waiting /\ q # p /\ want'[q] = want[q] BY <1>3
  <2>2. Own(p) = {} BY <1>2, <1>6, <2>1 DEF lock_revive
  <2>3. Conflict(want[q]) BY <1>0, <2>1 DEF Blocked
  <2>4. PICK i \in Used : InTheWay(file_lock[i], want[q]) BY <2>3 DEF Conflict
  <2>5. i \in Used' /\ file_lock'[i] = file_lock[i] BY <1>1, <2>2
  <2> QED BY <2>1, <2>4, <2>5
<1>7. Blocked' BY <1>6 DEF Blocked, Conflict, InTheWay, Overlap
<1> QED BY <1>4, <1>5, <1>7

\* Every step keeps WInv where no process mixes read and write locks.
LEMMA WaitersStep ==
  ASSUME Mixed = FALSE, WInv, [Next]_vars
  PROVE  WInv'
<1>0. /\ TableSound /\ TypeOK /\ Uniform /\ OwnWant /\ Blocked
      /\ want \in [Procs -> AllLocks \cup {Unused}]
  BY DEF WInv, TableSound, TypeOK
<1>1. TableSound' BY <1>0, TableStep
<1>2. ASSUME NEW p \in Procs, NEW l \in AllLocks, NEW wait \in BOOLEAN, SetLock(p, l, wait),
             l.pid = p \/ (p \in Waiting /\ l = want[p])
      PROVE  Uniform' /\ OwnWant' /\ Blocked'
  <2>1. l.pid = p BY <1>0, <1>2 DEF OwnWant
  <2> QED BY <1>2, <2>1, SetLockWaiters
<1>3. ASSUME NEW p \in Procs, do_unpause(p), revived = {} PROVE Uniform' /\ OwnWant' /\ Blocked'
  <2>1. UNCHANGED file_lock /\ revived' = {} /\ Used' = Used
    BY <1>3 DEF do_unpause, Used
  <2>2. \A q \in Waiting' : q \in Waiting /\ want'[q] = want[q]
    BY <1>0, <1>3 DEF do_unpause, Proceeds, Waiting
  <2>3. Uniform' BY <1>0, <2>1 DEF Uniform
  <2>4. OwnWant' BY <1>0, <2>1, <2>2 DEF OwnWant, Overlap
  <2>5. ASSUME NEW q \in Waiting' PROVE \E i \in Used : InTheWay(file_lock[i], want'[q])
    BY <1>0, <1>3, <2>2 DEF Blocked, Conflict
  <2>6. Blocked' BY <2>1, <2>5 DEF Blocked, Conflict, InTheWay, Overlap
  <2> QED BY <2>3, <2>4, <2>6
<1>4. CASE UNCHANGED vars
  <2>1. Used' = Used /\ Waiting' = Waiting /\ file_lock' = file_lock /\ want' = want /\ revived' = revived
    BY <1>4 DEF vars, Used, Waiting
  <2>2. Uniform' /\ OwnWant' BY <1>0, <2>1 DEF Uniform, OwnWant, Overlap
  <2>3. \A q \in Waiting \ revived : \E i \in Used : InTheWay(file_lock[i], want[q])
    BY <1>0 DEF Blocked, Conflict
  <2>4. Blocked' BY <2>1, <2>3 DEF Blocked, Conflict, InTheWay, Overlap
  <2> QED BY <1>1, <2>2, <2>4 DEF WInv
<1>5. CASE Next
  <2>1. Uniform' /\ OwnWant' /\ Blocked'
    BY <1>0, <1>2, <1>3, <1>5, NextCases, UnlockWaiters, DropWaiters
  <2> QED BY <1>1, <2>1 DEF WInv
<1> QED BY <1>4, <1>5

\* Theorem: when FS waits for a message, everyone who waits for a lock has
\* another one's lock in its way: lock_revive() forgets nobody, also when the
\* table is full and lock_op() gives up in the middle of its loop.  Where a
\* process may lock a byte both for reading and for writing (Mixed), it is
\* not so.
THEOREM WaitersBlockedAlways ==
  ASSUME Mixed = FALSE
  PROVE  Spec => []WaitersBlocked
<1>1. Init => WInv
  <2> SUFFICES ASSUME Init PROVE WInv OBVIOUS
  <2>1. Used = {} /\ Waiting = {} BY DEF Init, Used, Waiting
  <2>2. TableSound BY TableInit
  <2> QED BY <2>1, <2>2 DEF WInv, Uniform, OwnWant, Blocked
<1>2. WInv /\ [Next]_vars => WInv' BY WaitersStep
<1>3. WInv => WaitersBlocked BY DEF WInv, Blocked, WaitersBlocked
<1> QED BY <1>1, <1>2, <1>3, PTL DEF Spec
=============================================================================
