----------------------------- MODULE PipeProofs -----------------------------
(***************************************************************************)
(* Proofs about Pipe: for every number of processes and every size of the  *)
(* pipe nobody hangs without a reason, and the pipe is a queue of bytes,   *)
(* until F_SETFL takes O_APPEND from writers not at the end of a FIFO.     *)
(***************************************************************************)
EXTENDS Pipe, FiniteSetTheorems, TLAPS

\* A slot that is not in use has no file and no call.
Unborn == \A c \in Procs \ alive : fds[c] = {} /\ hang[c] = NoCall

\* The file holds what was written and not read: it starts again at 0 when all
\* is read, and a writer stands at its end, by its own position or O_APPEND.
Contents ==
  /\ data \in Seq(Procs)
  /\ data = <<>> => pos["R"] = 0
  /\ data # <<>> => pos["R"] < Len(data)
  /\ find_filp("W") /\ kind = "pipe" => pos["W"] = Len(data)
  /\ find_filp("W") => pos["W"] = Len(data) \/ "APPEND" \in flags["W"]
  /\ (\A p \in Procs : fds[p] = {}) => data = <<>>

\* Who hangs and is not REVIVING has a reason to, also while others are.
Sleepers ==
  /\ Releasable("READ") # {} => data = <<>> /\ find_filp("W")
  /\ Releasable("WRITE") # {} => find_filp("R") /\ Releasable("READ") = {}
  /\ \A p \in Suspended("OPEN") : \E e \in Ends : fds[p] = {e} /\ ~find_filp(Other(e))

IInv == TypeOK /\ SuspCovers /\ RevivingCounted /\ Unborn /\ Contents /\ Sleepers

\* A process whose call FS serves: it does not hang, or is tried again.
Served(p) == p \in alive /\ (hang[p] = NoCall \/ p \in revived)

----------------------------------------------------------------------------
(* Who hangs, and who is released.                                         *)

\* Constants.
LEMMA ConstantFacts ==
  /\ PIPE_SIZE \in Nat \ {0} /\ MaxBytes \in Nat /\ PIPE_SIZE <= MaxBytes /\ MaxIntr \in Nat
  /\ IsFiniteSet(Procs) /\ Cardinality(Procs) \in Nat
  /\ Procs # {} /\ Procs \subseteq Nat /\ 0 \notin Procs
BY PipeAssumption, FS_CardinalityType

\* Subsets of Procs are finite; the number of those who hang bounds the
\* number of those who hang in one call.
LEMMA HangingFacts ==
  ASSUME NEW c \in {"READ", "WRITE", "OPEN"}
  PROVE  /\ IsFiniteSet(Releasable(c)) /\ Cardinality(Releasable(c)) \in Nat
         /\ IsFiniteSet(Hanging) /\ Cardinality(Hanging) \in Nat
         /\ Releasable(c) \subseteq Hanging /\ Releasable(c) \subseteq Procs
         /\ Cardinality(Releasable(c)) <= Cardinality(Hanging)
         /\ Cardinality(Releasable(c)) <= Cardinality(Procs)
         /\ Releasable(c) # {} => Cardinality(Hanging) >= 1
<1>1. Releasable(c) \in SUBSET Hanging /\ Hanging \in SUBSET Procs
  BY DEF Releasable, Suspended, Hanging, NoCall
<1>2. IsFiniteSet(Hanging) /\ Cardinality(Hanging) <= Cardinality(Procs)
  BY <1>1, ConstantFacts, FS_Subset
<1>3. IsFiniteSet(Releasable(c)) /\ Cardinality(Releasable(c)) <= Cardinality(Hanging)
  BY <1>1, <1>2, FS_Subset
<1>4. Cardinality(Releasable(c)) \in Nat /\ Cardinality(Hanging) \in Nat
  BY <1>2, <1>3, FS_CardinalityType
<1>5. Releasable(c) # {} => Cardinality(Hanging) # 0
  BY <1>1, <1>2, FS_EmptySet
<1> DEFINE a == Cardinality(Releasable(c))
           b == Cardinality(Hanging)
           d == Cardinality(Procs)
<1>6. a \in Nat /\ b \in Nat /\ d \in Nat /\ a <= b /\ b <= d BY <1>2, <1>3, <1>4, ConstantFacts
<1>7. Releasable(c) # {} => b # 0 BY <1>5
<1> HIDE DEF a, b, d
<1>8. a <= d /\ (Releasable(c) # {} => b >= 1) BY <1>6, <1>7
<1> QED BY <1>1, <1>2, <1>3, <1>6, <1>8 DEF a, b, d

\* release() with a limit that is not below the number of those who hang in
\* the call, or with none, releases them all; it never releases others.
LEMMA ReleaseAll ==
  ASSUME NEW c \in {"READ", "WRITE", "OPEN"}, NEW count \in Int
  PROVE  /\ release(c, count) \subseteq Releasable(c)
         /\ count <= 0 \/ Cardinality(Releasable(c)) <= count => release(c, count) = Releasable(c)
<1> DEFINE W == Releasable(c)
           Rank(p) == Cardinality({q \in W : q <= p})
<1>1. ASSUME NEW p \in W PROVE Rank(p) \in Nat /\ Rank(p) <= Cardinality(W)
  <2>1. {q \in W : q <= p} \in SUBSET W OBVIOUS
  <2>2. IsFiniteSet(W) BY HangingFacts
  <2>3. IsFiniteSet({q \in W : q <= p}) /\ Rank(p) <= Cardinality(W) BY <2>1, <2>2, FS_Subset
  <2> QED BY <2>3, FS_CardinalityType
<1>2. release(c, count) = IF count <= 0 THEN W ELSE {p \in W : Rank(p) <= count}
  BY DEF release
<1>3. Cardinality(W) \in Nat BY HangingFacts
<1> HIDE DEF Rank, W
<1>4. CASE count <= 0 BY <1>2, <1>4 DEF W
<1>5. CASE ~(count <= 0)
  <2>1. Cardinality(W) <= count => {p \in W : Rank(p) <= count} = W BY <1>1, <1>3
  <2> QED BY <1>2, <1>5, <2>1 DEF W
<1> QED BY <1>4, <1>5

\* Nobody is REVIVING when the counter says so.
LEMMA NoneRevived ==
  ASSUME TypeOK, RevivingCounted
  PROVE  reviving = 0 <=> revived = {}
<1>1. revived \in SUBSET Procs BY DEF TypeOK
<1>2. IsFiniteSet(revived) BY <1>1, ConstantFacts, FS_Subset
<1> QED BY <1>2, FS_EmptySet DEF RevivingCounted

\* The end of a call: the counters keep up with the table, and the processes
\* that sleep are those who slept, without S, and p if it is parked.
LEMMA SettleTable ==
  ASSUME TypeOK, SuspCovers, RevivingCounted, Unborn,
         NEW p \in Procs, Served(p),
         NEW h, h = NoCall \/ \E c \in {"READ", "WRITE"}, n \in 0..MaxBytes : h = Parked(c, n),
         NEW S, S \subseteq Releasable("READ") \cup Releasable("WRITE"),
         Settle(p, h, S)
  PROVE  /\ alive' \subseteq Procs /\ fds' \in [Procs -> SUBSET Ends]
         /\ hang' \in [Procs -> [call : {"none", "READ", "WRITE", "OPEN"}, n : 0..MaxBytes]]
         /\ revived' \subseteq Procs /\ susp_count' \in Int /\ reviving' \in Nat
         /\ SuspCovers' /\ RevivingCounted' /\ Unborn'
         /\ \A c \in {"READ", "WRITE"} :
              Releasable(c)' = (Releasable(c) \ S) \cup (IF h.call = c THEN {p} ELSE {})
         /\ Suspended("OPEN")' = Suspended("OPEN")
         /\ fds' = fds /\ \A e : find_filp(e)' <=> find_filp(e)
<1>0. /\ hang \in [Procs -> [call : {"none", "READ", "WRITE", "OPEN"}, n : 0..MaxBytes]]
      /\ revived \subseteq Procs /\ susp_count \in Int /\ reviving \in Nat /\ alive \subseteq Procs
      /\ fds \in [Procs -> SUBSET Ends] /\ MaxBytes \in Nat
  BY ConstantFacts DEF TypeOK
<1>1. /\ hang' = [hang EXCEPT ![p] = h] /\ revived' = (revived \ {p}) \cup S
      /\ reviving' = reviving - (IF p \in revived THEN 1 ELSE 0) + Cardinality(S)
      /\ susp_count' = susp_count + (IF h = NoCall THEN 0 ELSE 1) - Cardinality(S)
      /\ alive' = alive /\ fds' = fds
  BY DEF Settle
<1>2. /\ h \in [call : {"none", "READ", "WRITE", "OPEN"}, n : 0..MaxBytes]
      /\ h.call # "OPEN" /\ (h.call = "none" <=> h = NoCall)
  BY <1>0 DEF NoCall, Parked
<1>3. hang' \in [Procs -> [call : {"none", "READ", "WRITE", "OPEN"}, n : 0..MaxBytes]]
      /\ hang'[p] = h /\ \A q \in Procs \ {p} : hang'[q] = hang[q]
  BY <1>0, <1>1, <1>2
<1>4. \A c \in {"READ", "WRITE", "OPEN"} : p \in Suspended(c) => p \in revived
  BY DEF Served, Suspended, NoCall
<1>5. p \notin S /\ S \cap revived = {} /\ S \subseteq Procs /\ S \subseteq Hanging /\ p \notin Hanging
  <2>1. \A c \in {"READ", "WRITE"} : Releasable(c) \subseteq Hanging /\ Releasable(c) \subseteq Procs
    BY HangingFacts
  <2>2. S \cap revived = {} BY DEF Releasable
  <2>3. p \notin Hanging BY DEF Hanging, Served
  <2> QED BY <2>1, <2>2, <2>3
<1>6. /\ IsFiniteSet(S) /\ IsFiniteSet(revived) /\ IsFiniteSet(Hanging)
      /\ Cardinality(S) \in Nat /\ Cardinality(revived) \in Nat /\ Cardinality(Hanging) \in Nat
  <2>1. IsFiniteSet(S) /\ IsFiniteSet(revived) BY <1>0, <1>5, ConstantFacts, FS_Subset
  <2> QED BY <2>1, HangingFacts, FS_CardinalityType
<1>7. RevivingCounted'
  <2> DEFINE R == revived \ {p}
  <2>1. /\ IsFiniteSet(R)
        /\ Cardinality(R) = Cardinality(revived) - (IF p \in revived THEN 1 ELSE 0)
    <3>1. CASE p \in revived BY <1>6, <3>1, FS_RemoveElement
    <3>2. CASE p \notin revived
      <4>1. R = revived BY <3>2
      <4> HIDE DEF R
      <4>2. Cardinality(R) = Cardinality(revived) /\ IsFiniteSet(R) BY <1>6, <4>1
      <4> QED BY <1>6, <3>2, <4>2
    <3> QED BY <3>1, <3>2
  <2>2. R \cap S = {} BY <1>5
  <2> HIDE DEF R
  <2>3. Cardinality(R \cup S) = Cardinality(R) + Cardinality(S) - Cardinality(R \cap S)
    BY <1>6, <2>1, FS_Union
  <2>4. Cardinality(R \cap S) = 0 BY <2>2, FS_EmptySet
  <2>5. reviving = Cardinality(revived) BY DEF RevivingCounted
  <2>6. Cardinality(revived') = Cardinality(R \cup S) BY <1>1 DEF R
  <2>7. reviving' = Cardinality(revived') BY <1>1, <1>6, <2>1, <2>3, <2>4, <2>5, <2>6
  <2>8. ASSUME NEW q \in revived' PROVE hang'[q].call \in {"READ", "WRITE"}
    <3>1. q # p /\ q \in Procs BY <1>0, <1>1, <1>5
    <3>2. hang'[q] = hang[q] BY <1>3, <3>1
    <3>3. CASE q \in revived BY <3>2, <3>3 DEF RevivingCounted, Suspended
    <3>4. CASE q \in S BY <3>2, <3>4 DEF Releasable, Suspended
    <3> QED BY <1>1, <3>3, <3>4
  <2>9. revived' \subseteq Procs BY <1>0, <1>1, <1>5
  <2> QED BY <2>7, <2>8, <2>9 DEF RevivingCounted, Suspended
<1>8. reviving' \in Nat
  <2>1. IsFiniteSet(revived') BY <1>0, <1>1, <1>5, ConstantFacts, FS_Subset
  <2> QED BY <1>7, <2>1, FS_CardinalityType DEF RevivingCounted
<1>9. SuspCovers'
  <2> DEFINE Z == Hanging \ S
  <2>1. Hanging' = Z \cup (IF h = NoCall THEN {} ELSE {p})
    <3>1. Hanging' = {q \in Procs : hang'[q] # NoCall} \ revived' BY DEF Hanging
    <3>2. ASSUME NEW q \in Procs \ {p} PROVE q \in Hanging' <=> q \in Z
      BY <1>1, <1>3, <1>5, <3>1 DEF Hanging
    <3>3. p \in Hanging' <=> h # NoCall BY <1>1, <1>3, <1>5, <3>1
    <3>4. p \notin Z BY <1>5
    <3>5. Z \subseteq Procs /\ Hanging' \subseteq Procs BY <3>1 DEF Hanging
    <3> HIDE DEF Z
    <3> QED BY <3>2, <3>3, <3>4, <3>5
  <2>2. Hanging \cap S = S BY <1>5
  <2>3. IsFiniteSet(Z) /\ Cardinality(Z) = Cardinality(Hanging) - Cardinality(S)
    BY <1>6, <2>2, FS_Difference
  <2>4. p \notin Z BY <1>5
  <2> HIDE DEF Z
  <2>5. Cardinality(Hanging') = Cardinality(Z) + (IF h = NoCall THEN 0 ELSE 1)
    <3>1. CASE h = NoCall
      <4>1. Hanging' = Z BY <2>1, <3>1
      <4>2. Cardinality(Z) \in Nat BY <2>3, FS_CardinalityType
      <4> QED BY <3>1, <4>1, <4>2
    <3>2. CASE h # NoCall
      <4>1. Hanging' = Z \cup {p} BY <2>1, <3>2
      <4>2. Cardinality(Z \cup {p}) = Cardinality(Z) + 1 BY <2>3, <2>4, FS_AddElement
      <4> QED BY <3>2, <4>1, <4>2
    <3> QED BY <3>1, <3>2
  <2>6. susp_count >= Cardinality(Hanging) BY DEF SuspCovers
  <2>7. Cardinality(Z) \in Nat BY <2>3, FS_CardinalityType
  <2>8. susp_count' >= Cardinality(Hanging') BY <1>0, <1>1, <1>6, <2>3, <2>5, <2>6, <2>7
  <2> QED BY <2>8 DEF SuspCovers
<1>10. ASSUME NEW c \in {"READ", "WRITE"}
       PROVE  Releasable(c)' = (Releasable(c) \ S) \cup (IF h.call = c THEN {p} ELSE {})
  <2>1. Releasable(c)' = {q \in Procs : hang'[q].call = c} \ revived' BY DEF Releasable, Suspended
  <2>2. Releasable(c) = {q \in Procs : hang[q].call = c} \ revived BY DEF Releasable, Suspended
  <2>3. ASSUME NEW q \in Procs \ {p} PROVE q \in Releasable(c)' <=> q \in Releasable(c) \ S
    BY <1>1, <1>3, <2>1, <2>2
  <2>4. p \in Releasable(c)' <=> h.call = c BY <1>1, <1>3, <1>5, <2>1
  <2>5. p \notin Releasable(c) BY <1>4, <2>2 DEF Suspended
  <2> QED BY <2>1, <2>2, <2>3, <2>4, <2>5
<1>11. Suspended("OPEN")' = Suspended("OPEN")
  <2>1. p \notin Suspended("OPEN")
    <3>1. p \in revived => hang[p].call \in {"READ", "WRITE"} BY DEF RevivingCounted, Suspended
    <3> QED BY <1>4, <3>1 DEF Suspended
  <2> QED BY <1>2, <1>3, <2>1 DEF Suspended
<1>12. Unborn' BY <1>1, <1>3 DEF Unborn, Served
<1>13. fds' = fds /\ \A e : find_filp(e)' <=> find_filp(e) BY <1>1 DEF find_filp
<1> QED BY <1>0, <1>1, <1>3, <1>5, <1>6, <1>7, <1>8, <1>9, <1>10, <1>11, <1>12, <1>13

----------------------------------------------------------------------------
(* The file.                                                               *)

\* A writer always writes at the end.
LEMMA AtTheEnd ==
  ASSUME TypeOK, Contents, find_filp("W")
  PROVE  /\ Position = Len(data) /\ Room = PIPE_SIZE - Len(data)
         /\ Len(data) \in Nat /\ Room \in Nat /\ Room <= PIPE_SIZE
<1>2. Position = Len(data) BY DEF Contents, Position
<1>3. data \in Seq(Procs) /\ Len(data) <= PIPE_SIZE BY DEF Contents, TypeOK
<1>4. Len(data) \in Nat BY <1>3
<1>5. Room = PIPE_SIZE - Len(data) BY <1>2 DEF Room
<1> QED BY <1>2, <1>3, <1>4, <1>5, ConstantFacts

\* What is not read is what the file holds behind the reader.
LEMMA UnreadFacts ==
  ASSUME TypeOK, Contents
  PROVE  /\ Unread \in Seq(Procs) /\ Len(Unread) = Len(data) - pos["R"]
         /\ \A i \in 1..Len(Unread) : Unread[i] = data[pos["R"] + i]
         /\ Unread = <<>> <=> data = <<>>
         /\ pos["R"] \in Nat /\ pos["R"] <= Len(data) /\ Len(data) \in Nat
<1>1. /\ data \in Seq(Procs) /\ pos["R"] \in 0..PIPE_SIZE /\ PIPE_SIZE \in Nat
      /\ data = <<>> => pos["R"] = 0
      /\ data # <<>> => pos["R"] < Len(data)
  BY ConstantFacts DEF TypeOK, Contents, Ends
<1>2. Len(data) \in Nat /\ (data = <<>> <=> Len(data) = 0) BY <1>1
<1>3. pos["R"] <= Len(data) /\ pos["R"] \in Nat BY <1>1, <1>2
<1> DEFINE m == pos["R"]
<1> HIDE DEF m
<1>4. Unread = SubSeq(data, m + 1, Len(data)) BY DEF Unread, m
<1>5. m \in Nat /\ m <= Len(data) BY <1>3 DEF m
<1>6. Unread \in Seq(Procs) /\ Len(Unread) = Len(data) - m BY <1>1, <1>2, <1>4, <1>5
<1>7. \A i \in 1..Len(Unread) : Unread[i] = data[m + i] BY <1>1, <1>2, <1>4, <1>5, <1>6
<1>8. Unread = <<>> <=> Len(Unread) = 0 BY <1>6
<1>9. Unread = <<>> <=> data = <<>> BY <1>1, <1>2, <1>5, <1>6, <1>8 DEF m
<1> QED BY <1>2, <1>3, <1>6, <1>7, <1>9 DEF m

\* A write of k bytes at the end appends them.
LEMMA StoreFacts ==
  ASSUME TypeOK, Contents, find_filp("W"), NEW p \in Procs, NEW k \in Nat, k <= Room, Store(p, k)
  PROVE  /\ data' \in Seq(Procs) /\ Len(data') = Len(data) + k /\ Len(data') <= PIPE_SIZE
         /\ \A i \in 1..Len(data) : data'[i] = data[i]
         /\ pos' \in [Ends -> 0..PIPE_SIZE] /\ pos'["R"] = pos["R"] /\ pos'["W"] = Len(data')
         /\ kind' = kind /\ adrift' = adrift /\ flags' = flags
<1>1. /\ Position = Len(data) /\ Room = PIPE_SIZE - Len(data)
      /\ Len(data) \in Nat /\ PIPE_SIZE \in Nat
  BY AtTheEnd, ConstantFacts
<1>2. data \in Seq(Procs) /\ pos \in [Ends -> 0..PIPE_SIZE] BY DEF Contents, TypeOK
<1> DEFINE L == Len(data)
           size == IF L + k > L THEN L + k ELSE L
           d == [i \in 1..L + k |-> IF i \in L + 1 .. L + k THEN p ELSE IF i <= L THEN data[i] ELSE 0]
<1>3. size = L + k /\ L + k <= PIPE_SIZE /\ L + k \in Nat BY <1>1
<1>4. /\ data' = [i \in 1..size |-> IF i \in L + 1 .. L + k THEN p
                                    ELSE IF i <= L THEN data[i] ELSE 0]
      /\ pos' = [pos EXCEPT !["W"] = L + k]
      /\ kind' = kind /\ adrift' = adrift /\ flags' = flags
  BY <1>1 DEF Store
<1>5. data' = d BY <1>3, <1>4
<1>6. ASSUME NEW i \in 1..L + k PROVE d[i] \in Procs /\ (i <= L => d[i] = data[i])
  <2>1. CASE i <= L
    <3>1. i \in 1..L /\ i \notin L + 1 .. L + k BY <1>1, <2>1
    <3>2. data[i] \in Procs BY <1>2, <3>1
    <3> QED BY <2>1, <3>1, <3>2
  <2>2. CASE ~(i <= L)
    <3>1. i \in L + 1 .. L + k BY <1>1, <2>2
    <3> QED BY <2>2, <3>1
  <2> QED BY <2>1, <2>2
<1>7. d = [i \in 1..L + k |-> d[i]] OBVIOUS
<1> HIDE DEF d
<1>8. d \in [1..L + k -> Procs] BY <1>6, <1>7
<1>9. d \in Seq(Procs) /\ Len(d) = L + k BY <1>3, <1>8
<1>10. \A i \in 1..L : d[i] = data[i] BY <1>1, <1>6
<1>11. pos' \in [Ends -> 0..PIPE_SIZE] /\ pos'["R"] = pos["R"] /\ pos'["W"] = L + k
  BY <1>2, <1>3, <1>4 DEF Ends
<1> QED BY <1>3, <1>4, <1>5, <1>9, <1>10, <1>11

----------------------------------------------------------------------------
(* read() and write().                                                     *)

\* A call that ends and leaves the file alone.
LEMMA PlainDone ==
  ASSUME IInv, NEW p \in Procs, Served(p), Done(p), UNCHANGED <<partial, file>>
  PROVE  IInv'
<1>0. TypeOK /\ SuspCovers /\ RevivingCounted /\ Unborn /\ Contents /\ Sleepers BY DEF IInv
<1>1. Settle(p, NoCall, {}) /\ NoCall.call = "none" BY DEF Done, NoCall
<1>2. /\ alive' \subseteq Procs /\ fds' \in [Procs -> SUBSET Ends]
      /\ hang' \in [Procs -> [call : {"none", "READ", "WRITE", "OPEN"}, n : 0..MaxBytes]]
      /\ revived' \subseteq Procs /\ susp_count' \in Int /\ reviving' \in Nat
      /\ SuspCovers' /\ RevivingCounted' /\ Unborn'
      /\ \A c \in {"READ", "WRITE"} :
              Releasable(c)' = (Releasable(c) \ {}) \cup (IF NoCall.call = c THEN {p} ELSE {})
      /\ Suspended("OPEN")' = Suspended("OPEN")
      /\ fds' = fds /\ \A e : find_filp(e)' <=> find_filp(e)
  BY <1>0, <1>1, SettleTable
<1>3. Releasable("READ")' = Releasable("READ") /\ Releasable("WRITE")' = Releasable("WRITE")
  BY <1>1, <1>2
<1>4. kind' = kind /\ adrift' = adrift /\ data' = data /\ pos' = pos /\ flags' = flags /\ partial' = partial BY DEF file
<1>5. TypeOK' BY <1>0, <1>2, <1>4 DEF TypeOK
<1>6. Contents' BY <1>0, <1>2, <1>4 DEF Contents
<1>7. Sleepers' BY <1>0, <1>2, <1>3, <1>4 DEF Sleepers
<1> QED BY <1>2, <1>5, <1>6, <1>7 DEF IInv

\* A reader that finds the pipe empty.
LEMMA ReadEmptyKeeps ==
  ASSUME IInv, NEW p \in Procs, Served(p), NEW n \in 0..MaxBytes, ReadEmpty(p, n)
  PROVE  IInv'
<1>0. TypeOK /\ SuspCovers /\ RevivingCounted /\ Unborn /\ Contents /\ Sleepers BY DEF IInv
<1> DEFINE h == IF "NONBLOCK" \in flags["R"] THEN NoCall ELSE Parked("READ", n)
           count == susp_count + IF h = NoCall THEN 0 ELSE 1
           S == EmptyWakes(count)
<1>1. /\ Unread = <<>> /\ UNCHANGED <<partial, file>>
      /\ IF find_filp("W") THEN Settle(p, h, S) ELSE Done(p)
  BY DEF ReadEmpty
<1>2. CASE ~find_filp("W") BY <1>1, <1>2, PlainDone
<1>3. CASE find_filp("W")
  <2>1. Settle(p, h, S) BY <1>1, <1>3
  <2>2. /\ h = NoCall \/ \E c \in {"READ", "WRITE"}, m \in 0..MaxBytes : h = Parked(c, m)
        /\ h.call = IF h = NoCall THEN "none" ELSE "READ"
    BY DEF NoCall, Parked
  <2>3. susp_count \in Int /\ susp_count >= Cardinality(Hanging) BY <1>0 DEF TypeOK, SuspCovers
  <2>4. count \in Int /\ (h # NoCall => count = susp_count + 1) BY <2>3
  <2>5. /\ Cardinality(Releasable("WRITE")) \in Nat /\ Cardinality(Hanging) \in Nat
        /\ Cardinality(Releasable("WRITE")) <= Cardinality(Hanging)
    BY HangingFacts
  <2> HIDE DEF h, count
  <2>6. S \subseteq Releasable("WRITE") BY <2>4, ReleaseAll DEF EmptyWakes
  <2>7. h # NoCall => S = Releasable("WRITE")
    <3> SUFFICES ASSUME h # NoCall PROVE S = Releasable("WRITE") OBVIOUS
    <3>1. count > 0 /\ Cardinality(Releasable("WRITE")) <= count BY <2>3, <2>4, <2>5
    <3> QED BY <2>4, <3>1, ReleaseAll DEF EmptyWakes
  <2> HIDE DEF S
  <2>8. S \subseteq Releasable("READ") \cup Releasable("WRITE") BY <2>6
  <2>9. /\ alive' \subseteq Procs /\ fds' \in [Procs -> SUBSET Ends]
        /\ hang' \in [Procs -> [call : {"none", "READ", "WRITE", "OPEN"}, n : 0..MaxBytes]]
        /\ revived' \subseteq Procs /\ susp_count' \in Int /\ reviving' \in Nat
        /\ SuspCovers' /\ RevivingCounted' /\ Unborn'
        /\ \A c \in {"READ", "WRITE"} :
                Releasable(c)' = (Releasable(c) \ S) \cup (IF h.call = c THEN {p} ELSE {})
        /\ Suspended("OPEN")' = Suspended("OPEN")
        /\ fds' = fds /\ \A e : find_filp(e)' <=> find_filp(e)
    BY <1>0, <2>1, <2>2, <2>8, SettleTable
  <2>10. kind' = kind /\ adrift' = adrift /\ data' = data /\ pos' = pos /\ flags' = flags /\ partial' = partial
    BY <1>1 DEF file
  <2>11. TypeOK' BY <1>0, <2>9, <2>10 DEF TypeOK
  <2>12. Contents' BY <1>0, <2>9, <2>10 DEF Contents
  <2>13. data = <<>> BY <1>0, <1>1, UnreadFacts
  <2>14. Releasable("READ")' # {} => data' = <<>> /\ find_filp("W")' BY <1>3, <2>9, <2>10, <2>13
  <2>15. Releasable("WRITE")' # {} => find_filp("R")' /\ Releasable("READ")' = {}
    <3> SUFFICES ASSUME Releasable("WRITE")' # {} PROVE find_filp("R")' /\ Releasable("READ")' = {}
      OBVIOUS
    <3>1. h = NoCall /\ Releasable("WRITE") # {} BY <2>2, <2>7, <2>9
    <3>2. find_filp("R") /\ Releasable("READ") = {} BY <1>0, <3>1 DEF Sleepers
    <3>3. Releasable("READ")' = {} BY <2>2, <2>9, <3>1, <3>2
    <3> QED BY <2>9, <3>2, <3>3
  <2>16. Sleepers' BY <1>0, <2>9, <2>14, <2>15 DEF Sleepers
  <2> QED BY <2>9, <2>11, <2>12, <2>16 DEF IInv
<1> QED BY <1>2, <1>3

\* A reader that takes bytes.
LEMMA ReadBytesKeeps ==
  ASSUME IInv, NEW p \in Procs, Served(p), NEW n \in 0..MaxBytes, ReadBytes(p, n)
  PROVE  IInv'
<1>0. TypeOK /\ SuspCovers /\ RevivingCounted /\ Unborn /\ Contents /\ Sleepers BY DEF IInv
<1>1. Settle(p, NoCall, {}) /\ NoCall.call = "none" BY DEF ReadBytes, Done, NoCall
<1>2. /\ alive' \subseteq Procs /\ fds' \in [Procs -> SUBSET Ends]
      /\ hang' \in [Procs -> [call : {"none", "READ", "WRITE", "OPEN"}, n : 0..MaxBytes]]
      /\ revived' \subseteq Procs /\ susp_count' \in Int /\ reviving' \in Nat
      /\ SuspCovers' /\ RevivingCounted' /\ Unborn'
      /\ \A c \in {"READ", "WRITE"} :
              Releasable(c)' = (Releasable(c) \ {}) \cup (IF NoCall.call = c THEN {p} ELSE {})
      /\ Suspended("OPEN")' = Suspended("OPEN")
      /\ fds' = fds /\ \A e : find_filp(e)' <=> find_filp(e)
  BY <1>0, <1>1, SettleTable
<1>3. Releasable("READ")' = Releasable("READ") /\ Releasable("WRITE")' = Releasable("WRITE")
  BY <1>1, <1>2
<1>4. kind' = kind /\ adrift' = adrift /\ flags' = flags /\ partial' = partial \ {p} /\ Unread # <<>> BY DEF ReadBytes
<1>5. /\ data # <<>> /\ pos["R"] \in Nat /\ Len(data) \in Nat /\ data \in Seq(Procs)
      /\ pos \in [Ends -> 0..PIPE_SIZE] /\ Len(data) <= PIPE_SIZE /\ PIPE_SIZE \in Nat
  BY <1>0, <1>4, UnreadFacts, ConstantFacts DEF TypeOK, Contents
<1>6. Releasable("READ") = {} BY <1>0, <1>5 DEF Sleepers
<1> DEFINE at == pos["R"] + n
<1>7. /\ data' \in Seq(Procs) /\ Len(data') <= PIPE_SIZE /\ pos' \in [Ends -> 0..PIPE_SIZE]
      /\ data' = <<>> => pos'["R"] = 0
      /\ data' # <<>> => pos'["R"] < Len(data') /\ data' = data
      /\ pos'["W"] = IF data' = <<>> /\ find_filp("W") THEN 0 ELSE pos["W"]
  <2>1. CASE at >= Len(data)
    <3>1. data' = <<>> /\ pos' = Rewind BY <2>1 DEF ReadBytes
    <3>2. Rewind \in [Ends -> 0..PIPE_SIZE] /\ Rewind["R"] = 0
          /\ Rewind["W"] = IF find_filp("W") THEN 0 ELSE pos["W"]
      BY <1>5 DEF Rewind, Ends
    <3> QED BY <1>5, <3>1, <3>2
  <2>2. CASE ~(at >= Len(data))
    <3>1. data' = data /\ pos' = [pos EXCEPT !["R"] = at] BY <2>2 DEF ReadBytes
    <3>2. at \in 0..PIPE_SIZE /\ at < Len(data) BY <1>5, <2>2, ConstantFacts
    <3> HIDE DEF at
    <3>3. pos' \in [Ends -> 0..PIPE_SIZE] /\ pos'["R"] = at /\ pos'["W"] = pos["W"]
      BY <1>5, <3>1, <3>2 DEF Ends
    <3> QED BY <1>5, <3>1, <3>2, <3>3
  <2> QED BY <2>1, <2>2
<1>8. TypeOK'
  <2>1. data' \in Seq(Procs \cup {0}) BY <1>7
  <2> QED BY <1>0, <1>2, <1>4, <1>7, <2>1 DEF TypeOK
<1>9. Contents'
  <2>1. find_filp("W") /\ kind = "pipe" => pos["W"] = Len(data) BY <1>0 DEF Contents
  <2>2. find_filp("W")' /\ kind' = "pipe" => pos'["W"] = Len(data') BY <1>2, <1>4, <1>7, <2>1
  <2>3. find_filp("W")' => pos'["W"] = Len(data') \/ "APPEND" \in flags'["W"]
    <3>1. find_filp("W") => pos["W"] = Len(data) \/ "APPEND" \in flags["W"] BY <1>0 DEF Contents
    <3> QED BY <1>2, <1>4, <1>7, <3>1
  <2>4. (\A q \in Procs : fds'[q] = {}) => data' = <<>> BY <1>0, <1>2, <1>7 DEF Contents
  <2> QED BY <1>7, <2>2, <2>3, <2>4 DEF Contents
<1>10. Sleepers' BY <1>0, <1>2, <1>3, <1>6 DEF Sleepers
<1> QED BY <1>2, <1>8, <1>9, <1>10 DEF IInv

\* A writer releases all who hang in read(): the limit covers them, and where
\* write() does not look for them because the pipe is not empty there is none.
LEMMA ReadersReleased ==
  ASSUME IInv, find_filp("W")
  PROVE  /\ release("READ", susp_count) = Releasable("READ") /\ Wakes = Releasable("READ")
         /\ data # <<>> => Releasable("READ") = {}
<1>0. TypeOK /\ SuspCovers /\ Contents /\ Sleepers BY DEF IInv
<1>1. susp_count \in Int /\ susp_count >= Cardinality(Hanging) BY <1>0 DEF TypeOK, SuspCovers
<1>2. /\ Cardinality(Releasable("READ")) \in Nat /\ Cardinality(Hanging) \in Nat
      /\ Cardinality(Releasable("READ")) <= Cardinality(Hanging)
  BY HangingFacts
<1>3. Cardinality(Releasable("READ")) <= susp_count BY <1>1, <1>2
<1>4. release("READ", susp_count) = Releasable("READ") BY <1>1, <1>3, ReleaseAll
<1>5. data # <<>> => Releasable("READ") = {} BY <1>0 DEF Sleepers
<1>6. Position = Len(data) /\ (Position # 0 => data # <<>>)
  <2>1. data \in Seq(Procs) /\ Position = Len(data) BY <1>0, AtTheEnd DEF Contents
  <2> QED BY <2>1
<1> QED BY <1>4, <1>5, <1>6 DEF Wakes

\* A writer that releases all who hang in read().
LEMMA WriteKeeps ==
  ASSUME IInv, NEW p \in Procs, Served(p), find_filp("W"), partial' \subseteq Procs,
         NEW h, h = NoCall \/ (find_filp("R") /\ \E n \in 0..MaxBytes : h = Parked("WRITE", n)),
         Settle(p, h, Releasable("READ")),
         UNCHANGED file \/ \E k \in Nat : k <= Room /\ Store(p, k)
  PROVE  IInv'
<1>0. TypeOK /\ SuspCovers /\ RevivingCounted /\ Unborn /\ Contents /\ Sleepers BY DEF IInv
<1> DEFINE S == Releasable("READ")
<1>1. /\ h = NoCall \/ \E c \in {"READ", "WRITE"}, m \in 0..MaxBytes : h = Parked(c, m)
      /\ h.call = IF h = NoCall THEN "none" ELSE "WRITE"
  BY DEF NoCall, Parked
<1>2. S \subseteq Releasable("READ") \cup Releasable("WRITE") OBVIOUS
<1>3. /\ alive' \subseteq Procs /\ fds' \in [Procs -> SUBSET Ends]
      /\ hang' \in [Procs -> [call : {"none", "READ", "WRITE", "OPEN"}, n : 0..MaxBytes]]
      /\ revived' \subseteq Procs /\ susp_count' \in Int /\ reviving' \in Nat
      /\ SuspCovers' /\ RevivingCounted' /\ Unborn'
      /\ \A c \in {"READ", "WRITE"} :
              Releasable(c)' = (Releasable(c) \ S) \cup (IF h.call = c THEN {p} ELSE {})
      /\ Suspended("OPEN")' = Suspended("OPEN")
      /\ fds' = fds /\ \A e : find_filp(e)' <=> find_filp(e)
  BY <1>0, <1>1, <1>2, SettleTable
<1>4. Releasable("READ")' = {} BY <1>1, <1>3
<1>5. Releasable("WRITE")' # {} => find_filp("R")
  <2>1. h = NoCall => Releasable("WRITE")' \subseteq Releasable("WRITE") BY <1>1, <1>3
  <2> QED BY <1>0, <1>1, <2>1 DEF Sleepers
<1>6. Sleepers' BY <1>0, <1>3, <1>4, <1>5 DEF Sleepers
<1>7. CASE UNCHANGED file
  <2>1. kind' = kind /\ adrift' = adrift /\ data' = data /\ pos' = pos /\ flags' = flags BY <1>7 DEF file
  <2>2. TypeOK' BY <1>0, <1>3, <2>1 DEF TypeOK
  <2>3. Contents' BY <1>0, <1>3, <2>1 DEF Contents
  <2> QED BY <1>3, <1>6, <2>2, <2>3 DEF IInv
<1>8. CASE \E k \in Nat : k <= Room /\ Store(p, k)
  <2>1. PICK k \in Nat : k <= Room /\ Store(p, k) BY <1>8
  <2>2. /\ data' \in Seq(Procs) /\ Len(data') = Len(data) + k /\ Len(data') <= PIPE_SIZE
        /\ pos' \in [Ends -> 0..PIPE_SIZE] /\ pos'["R"] = pos["R"] /\ pos'["W"] = Len(data')
        /\ kind' = kind /\ adrift' = adrift /\ flags' = flags
    BY <1>0, <2>1, StoreFacts
  <2>3. data' \in Seq(Procs \cup {0}) BY <2>2
  <2>4. TypeOK' BY <1>0, <1>3, <2>2, <2>3 DEF TypeOK
  <2>5. /\ data' = <<>> => pos'["R"] = 0
        /\ data' # <<>> => pos'["R"] < Len(data') \/ data = <<>>
    <3>1. /\ data \in Seq(Procs) /\ Len(data) \in Nat /\ pos["R"] \in Nat /\ pos["R"] <= Len(data)
          /\ data = <<>> <=> Len(data) = 0
      BY <1>0, UnreadFacts DEF Contents
    <3>2. data' = <<>> <=> Len(data') = 0 BY <2>2
    <3>3. data # <<>> => pos["R"] < Len(data) BY <1>0 DEF Contents
    <3> QED BY <2>2, <3>1, <3>2, <3>3
  <2>6. data' # <<>> => pos'["R"] < Len(data')
    <3>1. data = <<>> => pos["R"] = 0 BY <1>0 DEF Contents
    <3>2. data' # <<>> => Len(data') \in Nat \ {0} BY <2>2
    <3> QED BY <2>2, <2>5, <3>1, <3>2
  <2>7. \E q \in Procs : fds'[q] # {} BY <1>3 DEF find_filp
  <2>8. Contents' BY <2>2, <2>5, <2>6, <2>7 DEF Contents
  <2> QED BY <1>3, <1>6, <2>4, <2>8 DEF IInv
<1> QED BY <1>7, <1>8

\* Every outcome of write() keeps the invariant.
LEMMA do_writeKeeps ==
  ASSUME IInv, NEW p \in Procs, Served(p), NEW n \in 0..MaxBytes, do_write(p, n)
  PROVE  IInv'
<1>0. TypeOK /\ SuspCovers /\ RevivingCounted /\ Unborn /\ Contents /\ Sleepers BY DEF IInv
<1>1. find_filp("W") BY DEF do_write, find_filp
<1>2. /\ release("READ", susp_count) = Releasable("READ") /\ Wakes = Releasable("READ")
      /\ data # <<>> => Releasable("READ") = {}
  BY <1>1, ReadersReleased
<1>3. /\ Position = Len(data) /\ Room = PIPE_SIZE - Len(data)
      /\ Len(data) \in Nat /\ Room \in Nat /\ Room <= PIPE_SIZE /\ PIPE_SIZE \in Nat \ {0}
      /\ MaxBytes \in Nat /\ n \in Nat /\ n <= MaxBytes
  BY <1>0, <1>1, AtTheEnd, ConstantFacts
<1>4. partial \subseteq Procs BY <1>0 DEF TypeOK
<1>5. CASE WriteFits(p, n)
  <2>1. n <= Room /\ Store(p, n) /\ partial' = partial \ {p} /\ Settle(p, NoCall, Wakes)
    BY <1>5 DEF WriteFits
  <2>2. partial' \subseteq Procs /\ Settle(p, NoCall, Releasable("READ")) BY <1>2, <1>4, <2>1
  <2>3. \E k \in Nat : k <= Room /\ Store(p, k) BY <1>3, <2>1
  <2> QED BY <1>1, <2>2, <2>3, WriteKeeps
<1>6. CASE WritePart(p, n)
  <2> DEFINE h == Rest(p, n - Room)
  <2>1. /\ find_filp("R") /\ n > PIPE_SIZE /\ Store(p, Room)
        /\ partial' = (IF h = NoCall THEN partial \ {p} ELSE partial \cup {p})
        /\ Settle(p, h, release("READ", susp_count))
    BY <1>6 DEF WritePart
  <2>2. n - Room \in 0..MaxBytes BY <1>3, <2>1
  <2>3. h = NoCall \/ \E m \in 0..MaxBytes : h = Parked("WRITE", m) BY <2>2 DEF Rest
  <2> HIDE DEF h
  <2>4. partial' \subseteq Procs /\ Settle(p, h, Releasable("READ")) BY <1>2, <1>4, <2>1
  <2>5. \E k \in Nat : k <= Room /\ Store(p, k) BY <1>3, <2>1
  <2>6. h = NoCall \/ (find_filp("R") /\ \E m \in 0..MaxBytes : h = Parked("WRITE", m))
    BY <2>1, <2>3
  <2> QED BY <1>1, <2>4, <2>5, <2>6, WriteKeeps
<1>7. CASE WriteFull(p, n)
  <2>1. /\ find_filp("R") /\ n > Room /\ (n <= PIPE_SIZE \/ Room <= 0)
        /\ UNCHANGED <<partial, file>>
    BY <1>7 DEF WriteFull
  <2>2. CASE Done(p) BY <2>1, <2>2, PlainDone
  <2>3. CASE Settle(p, Parked("WRITE", n), {})
    <3>1. data # <<>>
      <4> SUFFICES ASSUME data = <<>> PROVE FALSE OBVIOUS
      <4>1. Len(data) = 0 OBVIOUS
      <4> QED BY <1>3, <2>1, <4>1
    <3>2. Settle(p, Parked("WRITE", n), Releasable("READ")) BY <1>2, <2>3, <3>1
    <3> DEFINE h == Parked("WRITE", n)
    <3>3. find_filp("R") /\ \E m \in 0..MaxBytes : h = Parked("WRITE", m) BY <2>1
    <3>4. Settle(p, h, Releasable("READ")) BY <3>2
    <3>5. partial' \subseteq Procs /\ UNCHANGED file BY <1>4, <2>1
    <3> HIDE DEF h
    <3> QED BY <1>1, <3>3, <3>4, <3>5, WriteKeeps
  <2> QED BY <1>7, <2>2, <2>3 DEF WriteFull
<1>8. CASE WriteFails(p, n)
  <2>1. /\ partial' = partial
        /\ \E k \in 0 .. (IF n <= Room THEN n ELSE Room) - 1 : Store(p, k)
        /\ Settle(p, NoCall, IF n > Room THEN release("READ", susp_count) ELSE Wakes)
    BY <1>8 DEF WriteFails
  <2>2. Settle(p, NoCall, Releasable("READ")) BY <1>2, <2>1
  <2>3. PICK k \in 0 .. (IF n <= Room THEN n ELSE Room) - 1 : Store(p, k) BY <2>1
  <2>4. k \in Nat /\ k <= Room BY <1>3
  <2>5. \E j \in Nat : j <= Room /\ Store(p, j) BY <2>3, <2>4
  <2>6. partial' \subseteq Procs BY <1>4, <2>1
  <2> QED BY <1>1, <2>2, <2>5, <2>6, WriteKeeps
<1>9. CASE WriteBroken(p) BY <1>9, PlainDone DEF WriteBroken
<1> QED BY <1>5, <1>6, <1>7, <1>8, <1>9 DEF do_write

----------------------------------------------------------------------------
(* The other calls; nobody is REVIVING when FS takes them.                 *)

\* pipe()
LEMMA do_pipeKeeps ==
  ASSUME IInv, NEW p \in alive, do_pipe(p)
  PROVE  IInv'
<1>0. TypeOK /\ SuspCovers /\ RevivingCounted /\ Unborn /\ Contents /\ Sleepers BY DEF IInv
<1>1. /\ kind = "pipe" /\ kind' = kind /\ adrift' = adrift /\ data' = data /\ alive' = alive /\ hang' = hang /\ revived' = revived
      /\ partial' = partial /\ susp_count' = susp_count /\ reviving' = reviving
      /\ fds' = [fds EXCEPT ![p] = @ \cup Ends] /\ \A q \in Procs : fds[q] = {}
      /\ pos' = [e \in Ends |-> 0] /\ flags' = [e \in Ends |-> {}]
  BY DEF do_pipe, Opens
<1>2. p \in Procs /\ fds \in [Procs -> SUBSET Ends] /\ PIPE_SIZE \in Nat BY <1>0, ConstantFacts DEF TypeOK
<1>3. fds' \in [Procs -> SUBSET Ends] /\ \A q \in Procs \ {p} : fds'[q] = fds[q] BY <1>1, <1>2
<1>4. data = <<>> /\ ~find_filp("W") /\ ~find_filp("R") BY <1>0, <1>1 DEF Contents, find_filp
<1>5. pos' \in [Ends -> 0..PIPE_SIZE] /\ pos'["R"] = 0 /\ pos'["W"] = 0 BY <1>1, <1>2 DEF Ends
<1>6. TypeOK' BY <1>0, <1>1, <1>3, <1>5 DEF TypeOK, Ends
<1>7. Contents' BY <1>0, <1>1, <1>4, <1>5 DEF Contents
<1>8. /\ Hanging' = Hanging /\ Releasable("READ")' = Releasable("READ")
      /\ Releasable("WRITE")' = Releasable("WRITE") /\ Suspended("OPEN")' = Suspended("OPEN")
      /\ Suspended("READ")' = Suspended("READ") /\ Suspended("WRITE")' = Suspended("WRITE")
  BY <1>1 DEF Hanging, Releasable, Suspended
<1>9. SuspCovers' /\ RevivingCounted' BY <1>0, <1>1, <1>8 DEF SuspCovers, RevivingCounted
<1>10. Unborn' BY <1>0, <1>1, <1>3 DEF Unborn
<1>11. Releasable("READ") = {} /\ Releasable("WRITE") = {} BY <1>0, <1>4 DEF Sleepers
<1>12. Suspended("OPEN") = {} BY <1>0, <1>1 DEF Sleepers, Suspended
<1>13. Sleepers' BY <1>8, <1>11, <1>12 DEF Sleepers
<1> QED BY <1>6, <1>7, <1>9, <1>10, <1>13 DEF IInv

\* What an open() of end e that proceeds does to the ends.
LEMMA ShareFacts ==
  ASSUME IInv, NEW p \in alive, NEW e \in Ends, NEW fl \in Flags(e), kind = "fifo", ShareFilp(p, e, fl)
  PROVE  /\ kind' = kind /\ adrift' = adrift /\ data' = data /\ pos' = pos /\ alive' = alive /\ revived' = revived
         /\ partial' = partial /\ reviving' = reviving
         /\ fds' \in [Procs -> SUBSET Ends] /\ fds'[p] = fds[p] \cup {e}
         /\ \A q \in Procs \ {p} : fds'[q] = fds[q]
         /\ \A f \in Ends : find_filp(f)' <=> find_filp(f) \/ f = e
         /\ flags' \in [Ends -> SUBSET {"NONBLOCK", "APPEND"}] /\ "APPEND" \notin flags'["R"]
         /\ Contents' /\ p \in Procs
<1>0. TypeOK /\ Contents BY DEF IInv
<1>1. /\ kind' = kind /\ adrift' = adrift /\ data' = data /\ pos' = pos /\ alive' = alive /\ revived' = revived
      /\ partial' = partial /\ reviving' = reviving
      /\ fds' = [fds EXCEPT ![p] = @ \cup {e}]
      /\ flags' = [flags EXCEPT ![e] = fl \cup Forced(e)]
  BY DEF ShareFilp, Opens
<1>2. /\ p \in Procs /\ fds \in [Procs -> SUBSET Ends]
      /\ flags \in [Ends -> SUBSET {"NONBLOCK", "APPEND"}] /\ "APPEND" \notin flags["R"]
  BY <1>0 DEF TypeOK
<1>3. /\ fds' \in [Procs -> SUBSET Ends] /\ fds'[p] = fds[p] \cup {e}
      /\ \A q \in Procs \ {p} : fds'[q] = fds[q]
  BY <1>1, <1>2
<1>4. \A f \in Ends : find_filp(f)' <=> find_filp(f) \/ f = e BY <1>2, <1>3 DEF find_filp
<1>5. /\ fl \cup Forced(e) \in SUBSET {"NONBLOCK", "APPEND"}
      /\ e = "R" => "APPEND" \notin fl \cup Forced(e)
      /\ e = "W" => "APPEND" \in fl \cup Forced(e)
  BY DEF Flags, Forced, Ends
<1>6. /\ flags' \in [Ends -> SUBSET {"NONBLOCK", "APPEND"}] /\ "APPEND" \notin flags'["R"]
      /\ e = "W" => "APPEND" \in flags'["W"]
      /\ e # "W" => flags'["W"] = flags["W"]
  BY <1>1, <1>2, <1>5 DEF Ends
<1>7. Contents'
  <2>1. find_filp("W")' => pos'["W"] = Len(data') \/ "APPEND" \in flags'["W"]
    BY <1>0, <1>1, <1>4, <1>6 DEF Contents, Ends
  <2>2. \E q \in Procs : fds'[q] # {} BY <1>2, <1>3
  <2>3. kind' # "pipe" BY <1>1
  <2> QED BY <1>0, <1>1, <2>1, <2>2, <2>3 DEF Contents
<1> QED BY <1>1, <1>2, <1>3, <1>4, <1>6, <1>7

\* open() that waits for the other side, or with O_NONBLOCK for nobody
LEMMA OpenWaitsKeeps ==
  ASSUME IInv, reviving = 0, NEW p \in alive, hang[p] = NoCall, NEW e \in Ends, NEW fl \in Flags(e),
         kind = "fifo", e \notin fds[p], OpenWaits(p, e, fl)
  PROVE  IInv'
<1>0. TypeOK /\ SuspCovers /\ RevivingCounted /\ Unborn /\ Contents /\ Sleepers BY DEF IInv
<1>1. /\ ~find_filp(Other(e)) /\ ShareFilp(p, e, fl)
      /\ \/ UNCHANGED <<hang, susp_count>>
         \/ hang' = [hang EXCEPT ![p] = Parked("OPEN", 0)] /\ susp_count' = susp_count + 1
  BY DEF OpenWaits
<1>2. /\ kind' = kind /\ adrift' = adrift /\ data' = data /\ pos' = pos /\ alive' = alive /\ revived' = revived
      /\ partial' = partial /\ reviving' = reviving
      /\ fds' \in [Procs -> SUBSET Ends] /\ fds'[p] = fds[p] \cup {e}
      /\ \A q \in Procs \ {p} : fds'[q] = fds[q]
      /\ \A f \in Ends : find_filp(f)' <=> find_filp(f) \/ f = e
      /\ flags' \in [Ends -> SUBSET {"NONBLOCK", "APPEND"}] /\ "APPEND" \notin flags'["R"]
      /\ Contents' /\ p \in Procs
  BY <1>1, ShareFacts
<1>3. revived = {} BY <1>0, NoneRevived
<1>4. /\ hang \in [Procs -> [call : {"none", "READ", "WRITE", "OPEN"}, n : 0..MaxBytes]]
      /\ fds \in [Procs -> SUBSET Ends] /\ susp_count \in Int /\ MaxBytes \in Nat
  BY <1>0, ConstantFacts DEF TypeOK
<1>5. fds[p] = {} /\ fds'[p] = {e}
  <2>1. Other(e) \notin fds[p] /\ e \notin fds[p] /\ fds[p] \subseteq Ends
    BY <1>1, <1>2, <1>4 DEF find_filp
  <2>2. fds[p] = {} BY <2>1 DEF Ends, Other
  <2> QED BY <1>2, <2>2
<1>6. Other(e) \in Ends /\ Other(e) # e /\ ~find_filp(Other(e))'
  <2>1. Other(e) \in Ends /\ Other(e) # e BY DEF Ends, Other
  <2> QED BY <1>1, <1>2, <2>1
<1>7. \A q \in Procs \ {p} : hang'[q] = hang[q] BY <1>1, <1>4
<1>8. hang' \in [Procs -> [call : {"none", "READ", "WRITE", "OPEN"}, n : 0..MaxBytes]]
      /\ hang'[p].call \in {"none", "OPEN"} /\ hang[p].call = "none"
  <2>1. p \in Procs /\ hang' \in {hang, [hang EXCEPT ![p] = Parked("OPEN", 0)]} BY <1>1, <1>2
  <2> QED BY <1>4, <2>1 DEF Parked, NoCall
<1>9. /\ Suspended("READ")' = Suspended("READ") /\ Suspended("WRITE")' = Suspended("WRITE")
      /\ Suspended("OPEN")' \subseteq Suspended("OPEN") \cup {p}
  BY <1>7, <1>8 DEF Suspended
<1>10. Releasable("READ")' = Releasable("READ") /\ Releasable("WRITE")' = Releasable("WRITE")
  BY <1>2, <1>9 DEF Releasable
<1>11. SuspCovers'
  <2>1. susp_count >= Cardinality(Hanging) /\ IsFiniteSet(Hanging) /\ Cardinality(Hanging) \in Nat
    BY <1>0, HangingFacts DEF SuspCovers
  <2>2. CASE UNCHANGED <<hang, susp_count>>
    <3>1. Hanging' = Hanging BY <1>2, <2>2 DEF Hanging
    <3> QED BY <2>1, <2>2, <3>1 DEF SuspCovers
  <2>3. CASE hang' = [hang EXCEPT ![p] = Parked("OPEN", 0)] /\ susp_count' = susp_count + 1
    <3>1. Hanging' = Hanging \cup {p} /\ p \notin Hanging
      BY <1>2, <1>3, <1>4, <2>3 DEF Hanging, Parked, NoCall
    <3>2. Cardinality(Hanging \cup {p}) = Cardinality(Hanging) + 1 BY <2>1, <3>1, FS_AddElement
    <3>3. Cardinality(Hanging') = Cardinality(Hanging) + 1 BY <3>1, <3>2
    <3>4. susp_count' >= Cardinality(Hanging') BY <1>4, <2>1, <2>3, <3>3
    <3> QED BY <3>4 DEF SuspCovers
  <2> QED BY <1>1, <2>2, <2>3
<1>12. RevivingCounted' BY <1>0, <1>2, <1>9 DEF RevivingCounted
<1>13. Unborn' BY <1>0, <1>2, <1>7 DEF Unborn
<1>14. TypeOK'
  <2>1. susp_count' \in Int BY <1>1, <1>4
  <2> QED BY <1>0, <1>2, <1>8, <2>1 DEF TypeOK
<1>15. ASSUME NEW q \in Suspended("OPEN")'
       PROVE  \E f \in Ends : fds'[q] = {f} /\ ~find_filp(Other(f))'
  <2>1. CASE q = p BY <1>5, <1>6, <2>1
  <2>2. CASE q # p
    <3>1. q \in Suspended("OPEN") /\ q \in Procs BY <1>9, <2>2 DEF Suspended
    <3>2. PICK f \in Ends : fds[q] = {f} /\ ~find_filp(Other(f)) BY <1>0, <3>1 DEF Sleepers
    <3>3. f = e
      <4>1. find_filp(f) BY <3>1, <3>2 DEF find_filp
      <4> QED BY <1>1, <4>1 DEF Ends, Other
    <3> QED BY <1>2, <1>6, <2>2, <3>1, <3>2, <3>3
  <2> QED BY <2>1, <2>2
<1>16. Sleepers'
  <2>1. Releasable("READ")' # {} => data' = <<>> /\ find_filp("W")' BY <1>0, <1>2, <1>10 DEF Sleepers, Ends
  <2>2. Releasable("WRITE")' # {} => find_filp("R")' /\ Releasable("READ")' = {}
    BY <1>0, <1>2, <1>10 DEF Sleepers, Ends
  <2> QED BY <1>15, <2>1, <2>2 DEF Sleepers
<1> QED BY <1>2, <1>11, <1>12, <1>13, <1>14, <1>16 DEF IInv

\* open() that meets the other side: all who hang in open() return.
LEMMA OpenMeetsKeeps ==
  ASSUME IInv, reviving = 0, NEW p \in alive, hang[p] = NoCall, NEW e \in Ends, NEW fl \in Flags(e),
         kind = "fifo", OpenMeets(p, e, fl)
  PROVE  IInv'
<1>0. TypeOK /\ SuspCovers /\ RevivingCounted /\ Unborn /\ Contents /\ Sleepers BY DEF IInv
<1> DEFINE S == IF susp_count > 0 THEN release("OPEN", susp_count) ELSE {}
<1>1. /\ find_filp(Other(e)) /\ ShareFilp(p, e, fl)
      /\ hang' = [q \in Procs |-> IF q \in S THEN NoCall ELSE hang[q]]
      /\ susp_count' = susp_count - Cardinality(S)
  BY DEF OpenMeets
<1>2. /\ kind' = kind /\ adrift' = adrift /\ data' = data /\ pos' = pos /\ alive' = alive /\ revived' = revived
      /\ partial' = partial /\ reviving' = reviving
      /\ fds' \in [Procs -> SUBSET Ends] /\ fds'[p] = fds[p] \cup {e}
      /\ \A q \in Procs \ {p} : fds'[q] = fds[q]
      /\ \A f \in Ends : find_filp(f)' <=> find_filp(f) \/ f = e
      /\ flags' \in [Ends -> SUBSET {"NONBLOCK", "APPEND"}] /\ "APPEND" \notin flags'["R"]
      /\ Contents' /\ p \in Procs
  BY <1>1, ShareFacts
<1>3. revived = {} BY <1>0, NoneRevived
<1>4. /\ hang \in [Procs -> [call : {"none", "READ", "WRITE", "OPEN"}, n : 0..MaxBytes]]
      /\ susp_count \in Int /\ MaxBytes \in Nat /\ susp_count >= Cardinality(Hanging)
  BY <1>0, ConstantFacts DEF TypeOK, SuspCovers
<1>5. S = Suspended("OPEN") /\ S \subseteq Hanging /\ S \subseteq Procs
  <2>1. /\ Cardinality(Releasable("OPEN")) \in Nat /\ Cardinality(Hanging) \in Nat
        /\ Cardinality(Releasable("OPEN")) <= Cardinality(Hanging)
        /\ Releasable("OPEN") # {} => Cardinality(Hanging) >= 1
        /\ Releasable("OPEN") \subseteq Hanging /\ Releasable("OPEN") \subseteq Procs
    BY HangingFacts
  <2>2. Cardinality(Releasable("OPEN")) <= susp_count BY <1>4, <2>1
  <2>3. release("OPEN", susp_count) = Releasable("OPEN") BY <1>4, <2>2, ReleaseAll
  <2>4. ~(susp_count > 0) => Releasable("OPEN") = {} BY <1>4, <2>1
  <2>5. Releasable("OPEN") = Suspended("OPEN") BY <1>3 DEF Releasable
  <2> QED BY <2>1, <2>3, <2>4, <2>5
<1> HIDE DEF S
<1>6. /\ hang' \in [Procs -> [call : {"none", "READ", "WRITE", "OPEN"}, n : 0..MaxBytes]]
      /\ \A q \in Procs : hang'[q] = IF q \in S THEN NoCall ELSE hang[q]
  BY <1>1, <1>4 DEF NoCall
<1>7. /\ Suspended("READ")' = Suspended("READ") /\ Suspended("WRITE")' = Suspended("WRITE")
      /\ Suspended("OPEN")' = {}
  BY <1>5, <1>6 DEF Suspended, NoCall
<1>8. Releasable("READ")' = Releasable("READ") /\ Releasable("WRITE")' = Releasable("WRITE")
  BY <1>2, <1>7 DEF Releasable
<1>9. /\ IsFiniteSet(Hanging) /\ Cardinality(Hanging) \in Nat
      /\ IsFiniteSet(S) /\ Cardinality(S) \in Nat
  <2>1. IsFiniteSet(Hanging) /\ Cardinality(Hanging) \in Nat BY HangingFacts
  <2>2. IsFiniteSet(S) BY <1>5, <2>1, FS_Subset
  <2> QED BY <2>1, <2>2, FS_CardinalityType
<1>10. SuspCovers'
  <2>1. Hanging' = Hanging \ S BY <1>2, <1>6 DEF Hanging
  <2>2. Hanging \cap S = S BY <1>5
  <2>3. Cardinality(Hanging \ S) = Cardinality(Hanging) - Cardinality(S) BY <1>9, <2>2, FS_Difference
  <2>4. susp_count' >= Cardinality(Hanging') BY <1>1, <1>4, <1>9, <2>1, <2>3
  <2> QED BY <2>4 DEF SuspCovers
<1>11. RevivingCounted' BY <1>0, <1>2, <1>7 DEF RevivingCounted
<1>12. Unborn' BY <1>0, <1>2, <1>6 DEF Unborn
<1>13. TypeOK'
  <2>1. susp_count' \in Int BY <1>1, <1>4, <1>9
  <2> QED BY <1>0, <1>2, <1>6, <2>1 DEF TypeOK
<1>14. Sleepers'
  <2>1. Releasable("READ")' # {} => data' = <<>> /\ find_filp("W")' BY <1>0, <1>2, <1>8 DEF Sleepers, Ends
  <2>2. Releasable("WRITE")' # {} => find_filp("R")' /\ Releasable("READ")' = {}
    BY <1>0, <1>2, <1>8 DEF Sleepers, Ends
  <2> QED BY <1>7, <2>1, <2>2 DEF Sleepers
<1> QED BY <1>2, <1>10, <1>11, <1>12, <1>13, <1>14 DEF IInv

\* Closing the ends E of p, which hangs in nothing or stops to hang: all on
\* the other side are released, and those who still sleep have their reason.
LEMMA CloseKeeps ==
  ASSUME IInv, reviving = 0, NEW p \in alive, NEW E, E \subseteq fds[p], CloseEnds(p, E),
         hang' = [hang EXCEPT ![p] = NoCall], hang[p].call = "OPEN" => E = fds[p],
         susp_count' = susp_count - (IF hang[p] = NoCall THEN 0 ELSE 1) - Cardinality(Freed(p, E)),
         kind' = kind /\ adrift' = adrift, partial' \subseteq Procs,
         alive' = alive \/ (alive' = alive \ {p} /\ E = fds[p])
  PROVE  IInv'
<1>0. TypeOK /\ SuspCovers /\ RevivingCounted /\ Unborn /\ Contents /\ Sleepers BY DEF IInv
<1>1. /\ hang \in [Procs -> [call : {"none", "READ", "WRITE", "OPEN"}, n : 0..MaxBytes]]
      /\ fds \in [Procs -> SUBSET Ends] /\ susp_count \in Int /\ MaxBytes \in Nat /\ PIPE_SIZE \in Nat
      /\ susp_count >= Cardinality(Hanging) /\ p \in Procs /\ alive \subseteq Procs /\ E \subseteq Ends
  BY <1>0, ConstantFacts DEF TypeOK, SuspCovers
<1>2. revived = {} BY <1>0, NoneRevived
<1> DEFINE S == Freed(p, E)
           used(e) == \E q \in Procs : e \in fds'[q]
           keep == \E e \in Ends : used(e)
<1>3. /\ fds' = [fds EXCEPT ![p] = @ \ E]
      /\ data' = (IF keep THEN data ELSE <<>>)
      /\ pos' = (IF keep THEN pos ELSE [e \in Ends |-> 0])
      /\ flags' = [e \in Ends |-> IF used(e) THEN flags[e] ELSE {}]
      /\ revived' = revived \cup S /\ reviving' = reviving + Cardinality(S)
  BY DEF CloseEnds
<1>4. /\ fds' \in [Procs -> SUBSET Ends] /\ fds'[p] = fds[p] \ E
      /\ \A q \in Procs \ {p} : fds'[q] = fds[q]
  BY <1>1, <1>3
<1>5. /\ \A e \in Ends : find_filp(e)' <=> used(e)
      /\ \A e \in Ends : find_filp(e)' => find_filp(e)
      /\ \A e \in Ends \ E : find_filp(e)' <=> find_filp(e)
  BY <1>1, <1>4 DEF find_filp
<1>6. /\ S \subseteq (Suspended("READ") \cup Suspended("WRITE")) \ {p}
      /\ "R" \in E => Suspended("WRITE") \ {p} \subseteq S
      /\ "W" \in E => Suspended("READ") \ {p} \subseteq S
  <2>1. \A c \in {"READ", "WRITE"} : release(c, Cardinality(Procs)) = Suspended(c)
    <3> SUFFICES ASSUME NEW c \in {"READ", "WRITE"} PROVE release(c, Cardinality(Procs)) = Suspended(c)
      OBVIOUS
    <3>1. Cardinality(Releasable(c)) <= Cardinality(Procs) BY HangingFacts
    <3>2. Cardinality(Procs) \in Int BY ConstantFacts
    <3>3. release(c, Cardinality(Procs)) = Releasable(c) BY <3>1, <3>2, ReleaseAll
    <3> QED BY <1>2, <3>3 DEF Releasable
  <2>2. \A e \in E : ReleasedBy(e) = IF e = "R" THEN "WRITE" ELSE "READ" BY DEF ReleasedBy
  <2> QED BY <1>1, <2>1, <2>2 DEF Freed, Ends
<1> HIDE DEF S
<1>7. hang' \in [Procs -> [call : {"none", "READ", "WRITE", "OPEN"}, n : 0..MaxBytes]]
      /\ hang'[p] = NoCall /\ \A q \in Procs \ {p} : hang'[q] = hang[q]
  BY <1>1 DEF NoCall
<1>8. \A c \in {"READ", "WRITE", "OPEN"} : Suspended(c)' = Suspended(c) \ {p}
  BY <1>7 DEF Suspended, NoCall
<1>9. \A c \in {"READ", "WRITE"} : /\ Releasable(c)' = (Suspended(c) \ {p}) \ S
                                   /\ Releasable(c) = Suspended(c)
  BY <1>2, <1>3, <1>8 DEF Releasable
<1>10. S \subseteq Procs /\ S \subseteq Hanging /\ p \notin S
  BY <1>2, <1>6 DEF Suspended, Hanging, NoCall
<1>11. /\ IsFiniteSet(Hanging) /\ Cardinality(Hanging) \in Nat
       /\ IsFiniteSet(S) /\ Cardinality(S) \in Nat
  <2>1. IsFiniteSet(Hanging) /\ Cardinality(Hanging) \in Nat BY HangingFacts
  <2>2. IsFiniteSet(S) BY <1>10, <2>1, FS_Subset
  <2> QED BY <2>1, <2>2, FS_CardinalityType
<1>12. SuspCovers'
  <2> DEFINE Z == Hanging \ S
             one == IF hang[p] = NoCall THEN 0 ELSE 1
  <2>1. Hanging' = Z \ {p} BY <1>2, <1>3, <1>7 DEF Hanging
  <2>2. p \in Z <=> hang[p] # NoCall BY <1>1, <1>2, <1>10 DEF Hanging
  <2>3. Hanging \cap S = S BY <1>10
  <2>4. IsFiniteSet(Z) /\ Cardinality(Z) = Cardinality(Hanging) - Cardinality(S)
    BY <1>11, <2>3, FS_Difference
  <2> HIDE DEF Z
  <2>5. Cardinality(Z) \in Nat BY <2>4, FS_CardinalityType
  <2>6. Cardinality(Hanging') = Cardinality(Z) - one
    <3>1. CASE p \in Z
      <4>1. Cardinality(Z \ {p}) = Cardinality(Z) - 1 BY <2>4, <3>1, FS_RemoveElement
      <4> QED BY <2>1, <2>2, <3>1, <4>1
    <3>2. CASE p \notin Z
      <4>1. Hanging' = Z BY <2>1, <3>2
      <4>2. Cardinality(Hanging') = Cardinality(Z) BY <4>1
      <4> QED BY <2>2, <2>5, <3>2, <4>2
    <3> QED BY <3>1, <3>2
  <2>7. susp_count' = susp_count - one - Cardinality(S) BY DEF S
  <2>8. susp_count' >= Cardinality(Hanging') BY <1>1, <1>11, <2>4, <2>5, <2>6, <2>7
  <2> QED BY <2>8 DEF SuspCovers
<1>13. RevivingCounted'
  <2>1. revived' = S /\ reviving' = Cardinality(S) BY <1>2, <1>3, <1>11
  <2>2. revived' \subseteq Suspended("READ")' \cup Suspended("WRITE")' BY <1>6, <1>8, <2>1
  <2>3. reviving' = Cardinality(revived') BY <2>1
  <2> QED BY <2>2, <2>3 DEF RevivingCounted
<1>14. Unborn'
  <2> SUFFICES ASSUME NEW c \in Procs, c \notin alive' PROVE fds'[c] = {} /\ hang'[c] = NoCall
    BY DEF Unborn
  <2>1. CASE c = p BY <1>4, <1>7, <2>1
  <2>2. CASE c # p BY <1>0, <1>4, <1>7, <2>2 DEF Unborn
  <2> QED BY <2>1, <2>2
<1>15. keep => kind' = kind /\ adrift' = adrift /\ data' = data /\ pos' = pos BY <1>3
<1>16. ~keep => data' = <<>> /\ pos' = [e \in Ends |-> 0] BY <1>3
<1>17. \A e \in Ends : find_filp(e)' => keep /\ flags'[e] = flags[e] BY <1>3, <1>5
<1>18. TypeOK'
  <2>1. data' \in Seq(Procs \cup {0}) /\ Len(data') <= PIPE_SIZE
    <3>1. CASE data' = data BY <1>0, <3>1 DEF TypeOK
    <3>2. CASE data' = <<>> BY <1>1, <3>2
    <3> QED BY <1>3, <3>1, <3>2
  <2>2. pos' \in [Ends -> 0..PIPE_SIZE] BY <1>0, <1>1, <1>15, <1>16 DEF TypeOK
  <2>3. flags' \in [Ends -> SUBSET {"NONBLOCK", "APPEND"}] /\ "APPEND" \notin flags'["R"]
    BY <1>0, <1>3 DEF TypeOK, Ends
  <2>4. susp_count' \in Int BY <1>1, <1>11 DEF S
  <2>5. reviving' \in Nat /\ revived' \subseteq Procs BY <1>2, <1>3, <1>10, <1>11
  <2>6. alive' \subseteq Procs /\ kind' \in Kinds BY <1>0, <1>1 DEF TypeOK
  <2>7. adrift' \in BOOLEAN BY <1>0 DEF TypeOK
  <2> QED BY <1>4, <1>7, <2>1, <2>2, <2>3, <2>4, <2>5, <2>6, <2>7 DEF TypeOK
<1>19. Contents'
  <2>1. CASE keep
    <3>1. (\A q \in Procs : fds'[q] = {}) => FALSE BY <2>1
    <3>2. find_filp("W")' => find_filp("W") /\ flags'["W"] = flags["W"] BY <1>5, <1>17 DEF Ends
    <3>3. kind' = kind /\ adrift' = adrift /\ data' = data /\ pos' = pos BY <1>15, <2>1
    <3> HIDE DEF keep
    <3> QED BY <1>0, <3>1, <3>2, <3>3 DEF Contents
  <2>2. CASE ~keep
    <3>1. data' = <<>> /\ pos'["R"] = 0 BY <1>16, <2>2 DEF Ends
    <3>2. ~find_filp("W")' BY <1>5, <2>2 DEF Ends
    <3> HIDE DEF keep
    <3>3. data' \in Seq(Procs) BY <3>1
    <3> QED BY <3>1, <3>2, <3>3 DEF Contents
  <2> QED BY <2>1, <2>2
<1>20. Sleepers'
  <2>1. ASSUME Releasable("READ")' # {} PROVE data' = <<>> /\ find_filp("W")'
    <3>1. "W" \notin E /\ Releasable("READ") # {} BY <1>6, <1>9, <2>1
    <3>2. data = <<>> /\ find_filp("W") BY <1>0, <3>1 DEF Sleepers
    <3>3. find_filp("W")' BY <1>5, <3>1, <3>2 DEF Ends
    <3>4. keep BY <1>17, <3>3 DEF Ends
    <3> QED BY <1>15, <3>2, <3>3, <3>4
  <2>2. ASSUME Releasable("WRITE")' # {} PROVE find_filp("R")' /\ Releasable("READ")' = {}
    <3>1. "R" \notin E /\ Releasable("WRITE") # {} BY <1>6, <1>9, <2>2
    <3>2. find_filp("R") /\ Releasable("READ") = {} BY <1>0, <3>1 DEF Sleepers
    <3>3. find_filp("R")' BY <1>5, <3>1, <3>2 DEF Ends
    <3>4. Releasable("READ")' = {} BY <1>9, <3>2
    <3> QED BY <3>3, <3>4
  <2>3. ASSUME NEW q \in Suspended("OPEN")'
        PROVE  \E f \in Ends : fds'[q] = {f} /\ ~find_filp(Other(f))'
    <3>1. q # p /\ q \in Suspended("OPEN") /\ q \in Procs BY <1>8, <2>3 DEF Suspended
    <3>2. PICK f \in Ends : fds[q] = {f} /\ ~find_filp(Other(f)) BY <1>0, <3>1 DEF Sleepers
    <3>3. Other(f) \in Ends BY DEF Other, Ends
    <3>4. ~find_filp(Other(f))' BY <1>5, <3>2, <3>3
    <3> QED BY <1>4, <3>1, <3>2, <3>4
  <2> QED BY <2>1, <2>2, <2>3 DEF Sleepers
<1> QED BY <1>12, <1>13, <1>14, <1>18, <1>19, <1>20 DEF IInv

\* fork(): the child has the files of its parent and no call.
LEMMA do_forkKeeps ==
  ASSUME IInv, NEW p \in alive, NEW c \in Procs, do_fork(p, c)
  PROVE  IInv'
<1>0. TypeOK /\ SuspCovers /\ RevivingCounted /\ Unborn /\ Contents /\ Sleepers BY DEF IInv
<1>1. /\ c \notin alive /\ alive' = alive \cup {c} /\ fds' = [fds EXCEPT ![c] = fds[p]]
      /\ partial' = (IF p \in partial THEN partial \cup {c} ELSE partial \ {c})
      /\ hang' = hang /\ revived' = revived /\ susp_count' = susp_count /\ reviving' = reviving
      /\ kind' = kind /\ adrift' = adrift /\ data' = data /\ pos' = pos /\ flags' = flags
  BY DEF do_fork, file
<1>2. p \in Procs /\ alive \subseteq Procs /\ fds \in [Procs -> SUBSET Ends] /\ partial \subseteq Procs
  BY <1>0 DEF TypeOK
<1>3. fds[c] = {} /\ hang[c] = NoCall BY <1>0, <1>1 DEF Unborn
<1>4. /\ fds' \in [Procs -> SUBSET Ends] /\ fds'[c] = fds[p]
      /\ \A q \in Procs \ {c} : fds'[q] = fds[q]
  BY <1>1, <1>2
<1>5. \A e : find_filp(e)' <=> find_filp(e) BY <1>2, <1>3, <1>4 DEF find_filp
<1>6. /\ Hanging' = Hanging /\ Releasable("READ")' = Releasable("READ")
      /\ Releasable("WRITE")' = Releasable("WRITE") /\ Suspended("OPEN")' = Suspended("OPEN")
      /\ Suspended("READ")' = Suspended("READ") /\ Suspended("WRITE")' = Suspended("WRITE")
  BY <1>1 DEF Hanging, Releasable, Suspended
<1>7. SuspCovers' /\ RevivingCounted' BY <1>0, <1>1, <1>6 DEF SuspCovers, RevivingCounted
<1>8. Unborn' BY <1>0, <1>1, <1>4 DEF Unborn
<1>9. TypeOK'
  <2>1. partial' \subseteq Procs /\ alive' \subseteq Procs BY <1>1, <1>2
  <2> QED BY <1>0, <1>1, <1>4, <2>1 DEF TypeOK
<1>10. Contents'
  <2>1. (\A q \in Procs : fds'[q] = {}) => \A q \in Procs : fds[q] = {} BY <1>3, <1>4
  <2> QED BY <1>0, <1>1, <1>5, <2>1 DEF Contents
<1>11. Sleepers'
  <2>1. ASSUME NEW q \in Suspended("OPEN")
        PROVE  \E f \in Ends : fds'[q] = {f} /\ ~find_filp(Other(f))'
    <3>1. q # c /\ q \in Procs BY <1>3 DEF Suspended, NoCall
    <3>2. PICK f \in Ends : fds[q] = {f} /\ ~find_filp(Other(f)) BY <1>0 DEF Sleepers
    <3> QED BY <1>4, <1>5, <3>1, <3>2
  <2> QED BY <1>0, <1>1, <1>5, <1>6, <2>1 DEF Sleepers
<1> QED BY <1>7, <1>8, <1>9, <1>10, <1>11 DEF IInv

\* A signal that ends a wait.
LEMMA do_unpauseKeeps ==
  ASSUME IInv, reviving = 0, NEW p \in alive, do_unpause(p)
  PROVE  IInv'
<1>0. TypeOK /\ SuspCovers /\ RevivingCounted /\ Unborn /\ Contents /\ Sleepers BY DEF IInv
<1>1. /\ hang' = [hang EXCEPT ![p] = NoCall] /\ susp_count' = susp_count - 0
      /\ alive' = alive /\ fds' = fds /\ revived' = revived /\ partial' = partial /\ reviving' = reviving
      /\ kind' = kind /\ adrift' = adrift /\ data' = data /\ pos' = pos /\ flags' = flags
  BY DEF do_unpause, file, Uncounted
<1>2. /\ p \in Procs /\ susp_count \in Int /\ revived = {} /\ MaxBytes \in Nat
      /\ hang \in [Procs -> [call : {"none", "READ", "WRITE", "OPEN"}, n : 0..MaxBytes]]
  BY <1>0, NoneRevived, ConstantFacts DEF TypeOK
<1>3. /\ hang' \in [Procs -> [call : {"none", "READ", "WRITE", "OPEN"}, n : 0..MaxBytes]]
      /\ hang'[p] = NoCall /\ \A q \in Procs \ {p} : hang'[q] = hang[q]
      /\ susp_count' = susp_count
  BY <1>1, <1>2 DEF NoCall
<1>4. \A c \in {"READ", "WRITE", "OPEN"} : Suspended(c)' = Suspended(c) \ {p}
  BY <1>3 DEF Suspended, NoCall
<1>5. \A c \in {"READ", "WRITE"} : Releasable(c)' \subseteq Releasable(c)
  BY <1>1, <1>4 DEF Releasable
<1>6. \A e : find_filp(e)' <=> find_filp(e) BY <1>1 DEF find_filp
<1>7. SuspCovers'
  <2>1. Hanging' \in SUBSET Hanging BY <1>1, <1>3 DEF Hanging
  <2>2. IsFiniteSet(Hanging) /\ Cardinality(Hanging) \in Nat BY HangingFacts
  <2>3. IsFiniteSet(Hanging') /\ Cardinality(Hanging') <= Cardinality(Hanging) BY <2>1, <2>2, FS_Subset
  <2>4. Cardinality(Hanging') \in Nat BY <2>3, FS_CardinalityType
  <2>5. susp_count >= Cardinality(Hanging) BY <1>0 DEF SuspCovers
  <2>6. susp_count' >= Cardinality(Hanging') BY <1>2, <1>3, <2>2, <2>3, <2>4, <2>5
  <2> QED BY <2>6 DEF SuspCovers
<1>8. RevivingCounted' BY <1>0, <1>1, <1>2 DEF RevivingCounted
<1>9. Unborn' BY <1>0, <1>1, <1>3 DEF Unborn
<1>10. TypeOK' BY <1>0, <1>1, <1>3 DEF TypeOK
<1>11. Contents' BY <1>0, <1>1, <1>6 DEF Contents
<1>12. Sleepers' BY <1>0, <1>1, <1>4, <1>5, <1>6 DEF Sleepers
<1> QED BY <1>7, <1>8, <1>9, <1>10, <1>11, <1>12 DEF IInv

\* fcntl(F_SETFL) that leaves the writers where they are, or to O_APPEND
LEMMA SetFlKeeps ==
  ASSUME IInv, NEW p \in alive, NEW e \in Ends, NEW fl \in Flags(e), SetFl(p, e, fl), ~adrift'
  PROVE  IInv'
<1>0. TypeOK /\ SuspCovers /\ RevivingCounted /\ Unborn /\ Contents /\ Sleepers BY DEF IInv
<1>1. /\ flags' = [flags EXCEPT ![e] = fl]
      /\ adrift' = (adrift \/ (e = "W" /\ "APPEND" \notin fl /\ pos["W"] # Len(data)))
      /\ alive' = alive /\ fds' = fds /\ hang' = hang /\ revived' = revived /\ partial' = partial
      /\ susp_count' = susp_count /\ reviving' = reviving
      /\ kind' = kind /\ data' = data /\ pos' = pos
  BY DEF SetFl, table
<1>2. /\ flags' \in [Ends -> SUBSET {"NONBLOCK", "APPEND"}] /\ "APPEND" \notin flags'["R"]
      /\ e = "W" => flags'["W"] = fl
      /\ e # "W" => flags'["W"] = flags["W"]
  BY <1>0, <1>1 DEF TypeOK, Ends, Flags
<1>3. /\ Hanging' = Hanging /\ Releasable("READ")' = Releasable("READ")
      /\ Releasable("WRITE")' = Releasable("WRITE") /\ Suspended("OPEN")' = Suspended("OPEN")
      /\ Suspended("READ")' = Suspended("READ") /\ Suspended("WRITE")' = Suspended("WRITE")
      /\ \A f : find_filp(f)' <=> find_filp(f)
  BY <1>1 DEF Hanging, Releasable, Suspended, find_filp
<1>4. SuspCovers' /\ RevivingCounted' BY <1>0, <1>1, <1>3 DEF SuspCovers, RevivingCounted
<1>5. Unborn' BY <1>0, <1>1 DEF Unborn
<1>6. TypeOK'
  <2>1. adrift' \in BOOLEAN BY <1>1
  <2> QED BY <1>0, <1>1, <1>2, <2>1 DEF TypeOK
<1>7. Contents'
  <2>1. find_filp("W")' => pos'["W"] = Len(data') \/ "APPEND" \in flags'["W"]
    BY <1>0, <1>1, <1>2, <1>3 DEF Contents
  <2> QED BY <1>0, <1>1, <1>3, <2>1 DEF Contents
<1>8. Sleepers' BY <1>0, <1>1, <1>3 DEF Sleepers
<1> QED BY <1>4, <1>5, <1>6, <1>7, <1>8 DEF IInv

----------------------------------------------------------------------------
(* The theorems.                                                           *)

\* A step is the read() or write() of a process that is served, or another
\* call while nobody is REVIVING.
LEMMA NextCases ==
  ASSUME IInv, Next
  PROVE  \/ \E p \in Procs, n \in 0..MaxBytes : Served(p) /\ (do_read(p, n) \/ do_write(p, n))
         \/ /\ reviving = 0
            /\ \E p \in alive :
                 \/ do_pipe(p) \/ do_unpause(p) \/ do_exit(p)
                 \/ \E c \in Procs : do_fork(p, c)
                 \/ \E e \in Ends : \/ hang[p] = NoCall /\ do_close(p, e)
                                    \/ \E fl \in Flags(e) : \/ hang[p] = NoCall /\ do_open(p, e, fl)
                                                            \/ SetFl(p, e, fl)
<1>0. /\ TypeOK /\ RevivingCounted /\ Unborn /\ alive \subseteq Procs /\ revived \subseteq Procs
      /\ hang \in [Procs -> [call : {"none", "READ", "WRITE", "OPEN"}, n : 0..MaxBytes]]
      /\ PIPE_SIZE \in Nat \ {0} /\ MaxBytes \in Nat /\ PIPE_SIZE <= MaxBytes
  BY ConstantFacts DEF IInv, TypeOK
<1>1. CASE get_work
  <2>1. PICK p \in revived : \/ hang[p].call = "READ" /\ do_read(p, hang[p].n)
                             \/ hang[p].call = "WRITE" /\ do_write(p, hang[p].n)
    BY <1>1 DEF get_work
  <2>2. p \in Procs /\ hang[p].n \in 0..MaxBytes BY <1>0
  <2>3. p \in alive BY <1>0, <2>1, <2>2 DEF Unborn, NoCall
  <2>4. Served(p) BY <2>3 DEF Served
  <2>5. do_read(p, hang[p].n) \/ do_write(p, hang[p].n) BY <2>1
  <2> HIDE DEF do_read, do_write
  <2> QED BY <2>2, <2>4, <2>5
<1>2. CASE UserCall
  <2>1. reviving = 0 BY <1>2 DEF UserCall
  <2>2. PICK p \in alive :
          /\ hang[p] = NoCall
          /\ \/ \E n \in 1..PIPE_SIZE : do_read(p, n)
             \/ \E n \in 1..MaxBytes : do_write(p, n)
             \/ do_pipe(p)
             \/ \E e \in Ends :
                  \/ do_close(p, e)
                  \/ \E fl \in Flags(e) : do_open(p, e, fl) \/ SetFl(p, e, fl)
    BY <1>2 DEF UserCall
  <2>3. p \in Procs /\ Served(p) BY <1>0, <2>2 DEF Served
  <2>4. (\A n \in 1..PIPE_SIZE : n \in 0..MaxBytes) /\ \A n \in 1..MaxBytes : n \in 0..MaxBytes BY <1>0
  <2> QED BY <2>1, <2>2, <2>3, <2>4
<1>3. CASE MmCall
  <2>1. reviving = 0 BY <1>3 DEF MmCall
  <2> QED BY <1>3, <2>1 DEF MmCall
<1> QED BY <1>1, <1>2, <1>3 DEF Next

\* Every step keeps the invariant where F_SETFL leaves the writers at the end.
LEMMA StepKeeps ==
  ASSUME IInv, [Next]_vars, ~adrift'
  PROVE  IInv'
<1>0. TypeOK /\ alive \subseteq Procs BY DEF IInv, TypeOK
<1>1. ASSUME NEW p \in Procs, NEW n \in 0..MaxBytes, Served(p), do_read(p, n) PROVE IInv'
  BY <1>1, ReadEmptyKeeps, ReadBytesKeeps DEF do_read
<1>2. ASSUME NEW p \in Procs, NEW n \in 0..MaxBytes, Served(p), do_write(p, n) PROVE IInv'
  BY <1>2, do_writeKeeps
<1>3. ASSUME NEW p \in alive, reviving = 0, do_exit(p) PROVE IInv'
  <2>1. /\ CloseEnds(p, fds[p]) /\ kind' = kind /\ adrift' = adrift /\ alive' = alive \ {p} /\ partial' = partial \ {p}
        /\ hang' = [hang EXCEPT ![p] = NoCall]
        /\ susp_count' = susp_count - (IF hang[p] = NoCall THEN 0 ELSE 1 + Uncounted)
                           - Cardinality(Freed(p, fds[p]))
    BY <1>3 DEF do_exit
  <2>2. 1 + Uncounted = 1 BY DEF Uncounted
  <2>3. susp_count' = susp_count - (IF hang[p] = NoCall THEN 0 ELSE 1) - Cardinality(Freed(p, fds[p]))
    BY <2>1, <2>2
  <2>4. partial' \subseteq Procs BY <1>0, <2>1 DEF TypeOK
  <2> HIDE DEF do_exit
  <2> QED BY <1>3, <2>1, <2>3, <2>4, CloseKeeps
<1>4. ASSUME NEW p \in alive, NEW e \in Ends, reviving = 0, hang[p] = NoCall, do_close(p, e) PROVE IInv'
  <2>1. /\ e \in fds[p] /\ CloseEnds(p, {e}) /\ kind' = kind /\ adrift' = adrift /\ alive' = alive /\ hang' = hang
        /\ partial' = partial /\ susp_count' = susp_count - Cardinality(Freed(p, {e}))
    BY <1>4 DEF do_close
  <2>2. p \in Procs /\ hang \in [Procs -> [call : {"none", "READ", "WRITE", "OPEN"}, n : 0..MaxBytes]]
        /\ susp_count \in Int /\ partial \subseteq Procs
    BY <1>0 DEF TypeOK
  <2>3. hang' = [hang EXCEPT ![p] = NoCall] BY <1>4, <2>1, <2>2
  <2>4. susp_count' = susp_count - (IF hang[p] = NoCall THEN 0 ELSE 1) - Cardinality(Freed(p, {e}))
    <3>1. susp_count - (IF hang[p] = NoCall THEN 0 ELSE 1) = susp_count BY <1>4, <2>2
    <3> QED BY <2>1, <3>1
  <2>5. hang[p].call # "OPEN" /\ {e} \subseteq fds[p] /\ partial' \subseteq Procs
    BY <1>4, <2>1, <2>2 DEF NoCall
  <2> DEFINE E == {e}
  <2>6. /\ E \subseteq fds[p] /\ CloseEnds(p, E)
        /\ susp_count' = susp_count - (IF hang[p] = NoCall THEN 0 ELSE 1) - Cardinality(Freed(p, E))
    BY <2>1, <2>4, <2>5
  <2> HIDE DEF E, do_close
  <2> QED BY <1>4, <2>1, <2>3, <2>5, <2>6, CloseKeeps
<1>5. ASSUME NEW p \in alive, NEW e \in Ends, NEW fl \in Flags(e), reviving = 0, hang[p] = NoCall,
             do_open(p, e, fl)
      PROVE  IInv'
  BY <1>5, OpenWaitsKeeps, OpenMeetsKeeps DEF do_open
<1>6. CASE Next
  BY <1>1, <1>2, <1>3, <1>4, <1>5, <1>6, NextCases, do_pipeKeeps, do_forkKeeps, do_unpauseKeeps, SetFlKeeps
<1>7. CASE UNCHANGED vars
  <2>1. /\ alive' = alive /\ fds' = fds /\ hang' = hang /\ revived' = revived /\ partial' = partial
        /\ susp_count' = susp_count /\ reviving' = reviving
        /\ kind' = kind /\ adrift' = adrift /\ data' = data /\ pos' = pos /\ flags' = flags
    BY <1>7 DEF vars, table, file
  <2>2. /\ Hanging' = Hanging /\ Releasable("READ")' = Releasable("READ")
        /\ Releasable("WRITE")' = Releasable("WRITE") /\ Suspended("OPEN")' = Suspended("OPEN")
        /\ Suspended("READ")' = Suspended("READ") /\ Suspended("WRITE")' = Suspended("WRITE")
        /\ \A f : find_filp(f)' <=> find_filp(f)
    BY <2>1 DEF Hanging, Releasable, Suspended, find_filp
  <2>3. TypeOK' /\ Unborn' BY <2>1 DEF IInv, TypeOK, Unborn
  <2>4. SuspCovers' /\ RevivingCounted' BY <2>1, <2>2 DEF IInv, SuspCovers, RevivingCounted
  <2>5. Contents' /\ Sleepers' BY <2>1, <2>2 DEF IInv, Contents, Sleepers
  <2> QED BY <2>3, <2>4, <2>5 DEF IInv
<1> QED BY <1>6, <1>7

\* Writers that are adrift stay so; those of a pipe() never are.
LEMMA DriftKeeps ==
  ASSUME IInv \/ adrift, [Next]_vars
  PROVE  /\ kind' = kind
         /\ adrift => adrift'
         /\ kind = "pipe" /\ ~adrift => ~adrift'
<1>1. CASE UNCHANGED vars BY <1>1 DEF vars, file
<1>2. CASE Next
  <2>1. ASSUME NEW p, NEW n, do_read(p, n) \/ do_write(p, n) PROVE kind' = kind /\ adrift' = adrift
    <3>1. CASE do_read(p, n) BY <3>1 DEF do_read, ReadEmpty, ReadBytes, file
    <3>2. CASE do_write(p, n)
      BY <3>2 DEF do_write, WriteFits, WritePart, WriteFull, WriteFails, WriteBroken, Store, file
    <3> QED BY <2>1, <3>1, <3>2
  <2>2. ASSUME NEW p, do_pipe(p) \/ do_unpause(p) \/ do_exit(p) \/ \E c : do_fork(p, c)
        PROVE  kind' = kind /\ adrift' = adrift
    BY <2>2 DEF do_pipe, do_unpause, do_exit, do_fork, file
  <2>3. ASSUME NEW p, NEW e, do_close(p, e) \/ \E fl : do_open(p, e, fl)
        PROVE  kind' = kind /\ adrift' = adrift
    BY <2>3 DEF do_close, do_open, OpenWaits, OpenMeets, ShareFilp
  <2>4. ASSUME NEW p \in alive, NEW e, NEW fl, SetFl(p, e, fl)
        PROVE  /\ kind' = kind
               /\ adrift => adrift'
               /\ kind = "pipe" /\ ~adrift => ~adrift'
    <3>1. /\ e \in fds[p] /\ kind' = kind
          /\ adrift' = (adrift \/ (e = "W" /\ "APPEND" \notin fl /\ pos["W"] # Len(data)))
      BY <2>4 DEF SetFl
    <3>2. ASSUME IInv, kind = "pipe", e = "W" PROVE pos["W"] = Len(data)
      <4>1. p \in Procs BY <3>2 DEF IInv, TypeOK
      <4>2. find_filp("W") BY <3>1, <3>2, <4>1 DEF find_filp
      <4> QED BY <3>2, <4>2 DEF IInv, Contents
    <3> QED BY <3>1, <3>2
  <2>5. CASE get_work
    <3>1. PICK p \in revived : do_read(p, hang[p].n) \/ do_write(p, hang[p].n) BY <2>5 DEF get_work
    <3> QED BY <2>1, <3>1
  <2>6. CASE UserCall BY <2>1, <2>2, <2>3, <2>4, <2>6 DEF UserCall
  <2>7. CASE MmCall BY <2>2, <2>7 DEF MmCall
  <2> QED BY <1>2, <2>5, <2>6, <2>7 DEF Next
<1> QED BY <1>1, <1>2

\* The inductive invariant, until writers of a FIFO are adrift.
Anchored == (adrift \/ IInv) /\ (kind = "pipe" => ~adrift)

\* The invariant holds as long as F_SETFL has not taken O_APPEND from writers
\* that do not stand at the end of the file; from those of a pipe() it cannot.
THEOREM Invariance == Spec => []Anchored
<1>1. Init => Anchored
  <2> SUFFICES ASSUME Init PROVE IInv /\ ~adrift BY DEF Anchored
  <2>1. /\ alive \subseteq Procs /\ hang = [p \in Procs |-> NoCall] /\ fds = [p \in Procs |-> {}]
        /\ revived = {} /\ partial = {} /\ susp_count = 0 /\ reviving = 0 /\ data = <<>>
        /\ pos = [e \in Ends |-> 0] /\ flags = [e \in Ends |-> {}] /\ kind \in Kinds
        /\ adrift = FALSE
    BY ConstantFacts DEF Init
  <2>2. TypeOK
    <3>1. NoCall \in [call : {"none", "READ", "WRITE", "OPEN"}, n : 0..MaxBytes]
      BY ConstantFacts DEF NoCall
    <3>2. data \in Seq(Procs \cup {0}) /\ Len(data) <= PIPE_SIZE BY <2>1, ConstantFacts
    <3>3. pos \in [Ends -> 0..PIPE_SIZE] BY <2>1, ConstantFacts
    <3>4. adrift \in BOOLEAN BY <2>1
    <3> QED BY <2>1, <3>1, <3>2, <3>3, <3>4 DEF TypeOK, Ends
  <2>3. Hanging = {} /\ \A c \in {"READ", "WRITE", "OPEN"} : Suspended(c) = {} /\ Releasable(c) = {}
    BY <2>1 DEF Hanging, Suspended, Releasable, NoCall
  <2>4. SuspCovers /\ RevivingCounted BY <2>1, <2>3, FS_EmptySet DEF SuspCovers, RevivingCounted
  <2>5. Unborn BY <2>1 DEF Unborn
  <2>6. Contents
    <3>1. ~find_filp("W") /\ pos["R"] = 0 /\ data \in Seq(Procs) BY <2>1 DEF find_filp, Ends
    <3> QED BY <2>1, <3>1 DEF Contents
  <2>7. Sleepers BY <2>3 DEF Sleepers
  <2> QED BY <2>1, <2>2, <2>4, <2>5, <2>6, <2>7 DEF IInv
<1>2. Anchored /\ [Next]_vars => Anchored'
  <2> SUFFICES ASSUME Anchored, [Next]_vars PROVE Anchored' OBVIOUS
  <2>1. /\ kind' = kind /\ (adrift => adrift') /\ (kind = "pipe" /\ ~adrift => ~adrift')
    BY DriftKeeps DEF Anchored
  <2>2. adrift' \/ IInv' BY <2>1, StepKeeps DEF Anchored
  <2> QED BY <2>1, <2>2 DEF Anchored
<1> QED BY <1>1, <1>2, PTL DEF Spec

\* Theorem: parked calls are counted, released in time and none is forgotten
\* (pipe_check, release, suspend, revive): when FS waits for a message, a
\* parked reader has nothing to read and a writer left, a parked writer has
\* a reader and never waits together with one, and an open() hangs only while
\* the other side is not open.  For what pipe() makes this always holds, for a
\* FIFO until F_SETFL has taken the forced O_APPEND from writers that do not
\* stand at its end (misc.c:112).
THEOREM NobodyForgotten == Spec => [](kind = "pipe" \/ ~adrift => WakeupsSound /\ NoLostWakeup)
<1>1. Anchored => (kind = "pipe" \/ ~adrift => WakeupsSound /\ NoLostWakeup)
  <2> SUFFICES ASSUME IInv, ~adrift PROVE WakeupsSound /\ NoLostWakeup BY DEF Anchored
  <2>0. TypeOK /\ SuspCovers /\ RevivingCounted /\ Unborn /\ Contents /\ Sleepers BY DEF IInv
  <2>1. ASSUME reviving = 0
        PROVE  /\ Suspended("READ") # {} => Unread = <<>> /\ find_filp("W")
               /\ Suspended("WRITE") # {} => find_filp("R") /\ Suspended("READ") = {}
    <3>1. revived = {} BY <2>0, <2>1, NoneRevived
    <3>2. \A c : Releasable(c) = Suspended(c) BY <3>1 DEF Releasable
    <3> QED BY <2>0, <3>2, UnreadFacts DEF Sleepers
  <2>2. ASSUME NEW p \in Suspended("OPEN"), NEW q \in Procs, fds[q] # {} PROVE fds[q] = fds[p]
    <3>1. PICK e \in Ends : fds[p] = {e} /\ ~find_filp(Other(e)) BY <2>0 DEF Sleepers
    <3>2. fds[q] \subseteq Ends /\ Other(e) \notin fds[q] BY <2>0, <3>1 DEF TypeOK, find_filp
    <3> QED BY <2>2, <3>1, <3>2 DEF Ends, Other
  <2>3. NoLostWakeup BY <2>1, <2>2 DEF NoLostWakeup
  <2> QED BY <2>0, <2>3 DEF WakeupsSound
<1> QED BY <1>1, Invariance, PTL

----------------------------------------------------------------------------
(* The pipe is a queue.                                                    *)

\* The rest of a sequence.
LEMMA RestOf ==
  ASSUME NEW d \in Seq(Procs), NEW m \in Nat, m <= Len(d)
  PROVE  /\ SubSeq(d, m + 1, Len(d)) \in Seq(Procs) /\ Len(SubSeq(d, m + 1, Len(d))) = Len(d) - m
         /\ \A i \in 1..Len(d) - m : SubSeq(d, m + 1, Len(d))[i] = d[m + i]
<1>1. Len(d) \in Nat OBVIOUS
<1>2. SubSeq(d, m + 1, Len(d)) \in Seq(Procs) /\ Len(SubSeq(d, m + 1, Len(d))) = Len(d) - m BY <1>1
<1>3. \A i \in 1..Len(d) - m : SubSeq(d, m + 1, Len(d))[i] = d[m + i] BY <1>1
<1> QED BY <1>2, <1>3

\* How prefixes and suffixes are recognised.
LEMMA PrefixFacts ==
  ASSUME NEW s \in Seq(Procs), NEW t \in Seq(Procs), Len(s) <= Len(t), \A i \in 1..Len(s) : s[i] = t[i]
  PROVE  IsPrefix(s, t)
BY DEF IsPrefix

\* The same for suffixes, through the reversals that define IsSuffix.
LEMMA SuffixFacts ==
  ASSUME NEW s \in Seq(Procs), NEW t \in Seq(Procs), Len(s) <= Len(t),
         \A i \in 1..Len(s) : s[i] = t[Len(t) - Len(s) + i]
  PROVE  IsSuffix(s, t)
<1>1. Len(s) \in Nat /\ Len(t) \in Nat OBVIOUS
<1>2. ASSUME NEW u \in Seq(Procs)
      PROVE  /\ Reverse(u) \in Seq(Procs) /\ Len(Reverse(u)) = Len(u)
             /\ \A i \in 1..Len(u) : Reverse(u)[i] = u[(Len(u) - i) + 1]
  <2>1. Len(u) \in Nat OBVIOUS
  <2>2. \A i \in 1..Len(u) : (Len(u) - i) + 1 \in 1..Len(u) BY <2>1
  <2>3. \A i \in 1..Len(u) : u[(Len(u) - i) + 1] \in Procs BY <2>2
  <2>4. Reverse(u) \in [1..Len(u) -> Procs] BY <2>3 DEF Reverse
  <2>5. Reverse(u) \in Seq(Procs) /\ Len(Reverse(u)) = Len(u) BY <2>1, <2>4
  <2> QED BY <2>5 DEF Reverse
<1>3. ASSUME NEW i \in 1..Len(s) PROVE Reverse(s)[i] = Reverse(t)[i]
  <2>1. i \in 1..Len(t) /\ (Len(s) - i) + 1 \in 1..Len(s) BY <1>1
  <2>2. Reverse(s)[i] = s[(Len(s) - i) + 1] /\ Reverse(t)[i] = t[(Len(t) - i) + 1] BY <1>2, <2>1
  <2>3. s[(Len(s) - i) + 1] = t[Len(t) - Len(s) + ((Len(s) - i) + 1)] BY <2>1
  <2>4. Len(t) - Len(s) + ((Len(s) - i) + 1) = (Len(t) - i) + 1 BY <1>1
  <2> QED BY <2>2, <2>3, <2>4
<1> DEFINE a == Reverse(s)
           b == Reverse(t)
<1>4. a \in Seq(Procs) /\ b \in Seq(Procs) /\ Len(a) <= Len(b) /\ \A i \in 1..Len(a) : a[i] = b[i]
  BY <1>2, <1>3
<1> HIDE DEF a, b
<1>5. IsPrefix(a, b) BY <1>4, PrefixFacts
<1> QED BY <1>5 DEF IsSuffix, a, b

\* A step appends, takes from the front, or drops what nobody has open.
LEMMA StepsQueue ==
  ASSUME IInv, IInv', Next
  PROVE  QueueStep
<1> DEFINE old == Unread
           new == Unread'
           m == pos["R"]
           m2 == pos'["R"]
<1>0. /\ TypeOK /\ Contents /\ data \in Seq(Procs) /\ data' \in Seq(Procs)
      /\ m \in Nat /\ m <= Len(data) /\ Len(data) \in Nat /\ Len(data') \in Nat
      /\ 0 \notin Procs /\ alive \subseteq Procs
  <2>1. /\ TypeOK /\ Contents /\ data \in Seq(Procs) /\ data' \in Seq(Procs) /\ alive \subseteq Procs
    BY DEF IInv, Contents, TypeOK
  <2>2. m \in Nat /\ m <= Len(data) /\ Len(data) \in Nat BY <2>1, UnreadFacts
  <2>3. Len(data') \in Nat BY <2>1
  <2> QED BY <2>1, <2>2, <2>3, ConstantFacts
<1>1. /\ old \in Seq(Procs) /\ Len(old) = Len(data) - m /\ Len(old) \in Nat
      /\ \A i \in 1..Len(old) : old[i] = data[m + i]
  BY <1>0, UnreadFacts
<1>2. m2 \in Nat /\ m2 <= Len(data')
  <2>1. /\ m2 \in 0..PIPE_SIZE /\ PIPE_SIZE \in Nat /\ (data' = <<>> => m2 = 0)
        /\ (data' # <<>> => m2 < Len(data'))
    BY ConstantFacts DEF IInv, TypeOK, Contents, Ends
  <2> QED BY <1>0, <2>1
<1>3. /\ new \in Seq(Procs) /\ Len(new) = Len(data') - m2 /\ Len(new) \in Nat
      /\ \A i \in 1..Len(new) : new[i] = data'[m2 + i]
  <2> DEFINE d == data'
  <2>1. new = SubSeq(d, m2 + 1, Len(d)) BY DEF Unread
  <2>2. d \in Seq(Procs) /\ m2 \in Nat /\ m2 <= Len(d) /\ Len(d) \in Nat BY <1>0, <1>2
  <2> HIDE DEF new, d, m2
  <2>3. /\ new \in Seq(Procs) /\ Len(new) = Len(d) - m2
        /\ \A i \in 1..Len(d) - m2 : new[i] = d[m2 + i]
    BY <2>1, <2>2, RestOf
  <2>4. Len(d) - m2 \in Nat BY <2>2
  <2> QED BY <2>3, <2>4 DEF d
<1>4. \A i \in 1..Len(new) : new[i] # 0
  <2> HIDE DEF new
  <2> QED BY <1>0, <1>3
<1> HIDE DEF old, new, m, m2
<1>5. ASSUME data' = data, m2 = m PROVE IsPrefix(old, new)
  <2>1. Len(old) = Len(new) BY <1>1, <1>3, <1>5
  <2>2. \A i \in 1..Len(old) : old[i] = new[i] BY <1>1, <1>3, <1>5, <2>1
  <2>3. Len(old) <= Len(new) BY <1>1, <2>1
  <2> QED BY <1>1, <1>3, <2>2, <2>3, PrefixFacts
<1>6. ASSUME NEW p \in Procs, NEW n \in 0..MaxBytes, Served(p), do_read(p, n)
      PROVE  IsPrefix(old, new) \/ IsSuffix(new, old)
  <2>1. CASE ReadEmpty(p, n)
    <3>1. data' = data /\ pos' = pos BY <2>1 DEF ReadEmpty, file
    <3> QED BY <1>5, <3>1 DEF m, m2
  <2>2. CASE ReadBytes(p, n)
    <3>1. CASE data' = <<>>
      <4>1. Len(new) = 0 BY <1>2, <1>3, <3>1
      <4>2. Len(new) <= Len(old) /\ \A i \in 1..Len(new) : new[i] = old[Len(old) - Len(new) + i]
        BY <1>1, <4>1
      <4> QED BY <1>1, <1>3, <4>2, SuffixFacts
    <3>2. CASE data' # <<>>
      <4>1. data' = data /\ m2 = m + n
        <5>1. data' = data /\ pos' = [pos EXCEPT !["R"] = pos["R"] + n] BY <2>2, <3>2 DEF ReadBytes
        <5>2. pos \in [Ends -> 0..PIPE_SIZE] BY <1>0 DEF TypeOK
        <5> QED BY <5>1, <5>2 DEF m, m2, Ends
      <4>2. n \in Nat BY ConstantFacts
      <4>3. Len(new) = Len(old) - n BY <1>0, <1>1, <1>3, <4>1, <4>2
      <4>4. Len(new) <= Len(old) BY <1>1, <1>3, <4>2, <4>3
      <4>5. ASSUME NEW i \in 1..Len(new) PROVE new[i] = old[Len(old) - Len(new) + i]
        <5>1. Len(old) - Len(new) + i = n + i /\ n + i \in 1..Len(old) BY <1>1, <1>3, <4>2, <4>3
        <5>2. old[n + i] = data[m + (n + i)] BY <1>1, <5>1
        <5>3. new[i] = data[(m + n) + i] BY <1>3, <4>1
        <5>4. m + (n + i) = (m + n) + i BY <1>0, <1>3, <4>2
        <5> QED BY <5>1, <5>2, <5>3, <5>4
      <4> QED BY <1>1, <1>3, <4>4, <4>5, SuffixFacts
    <3> QED BY <3>1, <3>2
  <2> QED BY <1>6, <2>1, <2>2 DEF do_read
<1>7. ASSUME NEW p \in Procs, NEW n \in 0..MaxBytes, Served(p), do_write(p, n)
      PROVE  IsPrefix(old, new)
  <2>1. find_filp("W") BY <1>7 DEF do_write, find_filp
  <2>2. Room \in Nat /\ n \in Nat BY <1>0, <2>1, AtTheEnd, ConstantFacts
  <2>3. UNCHANGED file \/ \E k \in Nat : k <= Room /\ Store(p, k)
    <3>1. CASE WriteFits(p, n) BY <2>2, <3>1 DEF WriteFits
    <3>2. CASE WritePart(p, n) BY <2>2, <3>2 DEF WritePart
    <3>3. CASE WriteFull(p, n) BY <3>3 DEF WriteFull
    <3>4. CASE WriteFails(p, n)
      <4>1. PICK k \in 0 .. (IF n <= Room THEN n ELSE Room) - 1 : Store(p, k) BY <3>4 DEF WriteFails
      <4>2. k \in Nat /\ k <= Room BY <2>2
      <4> QED BY <4>1, <4>2
    <3>5. CASE WriteBroken(p) BY <3>5 DEF WriteBroken
    <3> QED BY <1>7, <3>1, <3>2, <3>3, <3>4, <3>5 DEF do_write
  <2>4. CASE UNCHANGED file
    <3>1. data' = data /\ pos' = pos BY <2>4 DEF file
    <3> QED BY <1>5, <3>1 DEF m, m2
  <2>5. CASE \E k \in Nat : k <= Room /\ Store(p, k)
    <3>1. PICK k \in Nat : k <= Room /\ Store(p, k) BY <2>5
    <3>2. /\ Len(data') = Len(data) + k /\ pos'["R"] = pos["R"]
          /\ \A i \in 1..Len(data) : data'[i] = data[i]
      BY <1>0, <2>1, <3>1, StoreFacts
    <3>3. m2 = m BY <3>2 DEF m, m2
    <3>4. Len(old) <= Len(new) BY <1>0, <1>1, <1>3, <3>2, <3>3
    <3>5. ASSUME NEW i \in 1..Len(old) PROVE old[i] = new[i]
      <4>1. i \in 1..Len(new) /\ m + i \in 1..Len(data) BY <1>0, <1>1, <1>3, <3>4
      <4> QED BY <1>1, <1>3, <3>2, <3>3, <4>1
    <3> QED BY <1>1, <1>3, <3>4, <3>5, PrefixFacts
  <2> QED BY <2>3, <2>4, <2>5
<1>8. ASSUME NEW p \in alive, NEW E, CloseEnds(p, E), \E e \in Ends : \E q \in Procs : e \in fds'[q]
      PROVE  IsPrefix(old, new)
  <2>1. data' = data /\ pos' = pos BY <1>8 DEF CloseEnds
  <2> QED BY <1>5, <2>1 DEF m, m2
<1>9. ASSUME NEW p \in alive, NEW E, CloseEnds(p, E)
      PROVE  IsPrefix(old, new) \/ \A q \in Procs : fds'[q] = {}
  <2>1. fds' \in [Procs -> SUBSET Ends] BY DEF IInv, TypeOK
  <2>2. (\A q \in Procs : fds'[q] = {}) \/ \E e \in Ends : \E q \in Procs : e \in fds'[q] BY <2>1
  <2> QED BY <1>8, <1>9, <2>2
<1>10. ASSUME NEW p \in alive, do_pipe(p) PROVE IsPrefix(old, new)
  <2>1. /\ data' = data /\ pos' = [e \in Ends |-> 0] /\ \A q \in Procs : fds[q] = {}
    BY <1>10 DEF do_pipe
  <2>2. data = <<>> /\ m = 0 BY <1>0, <2>1 DEF Contents, m
  <2>3. m2 = m BY <2>1, <2>2 DEF m2, Ends
  <2> QED BY <1>5, <2>1, <2>3
<1>11. ASSUME NEW p \in alive, NEW e \in Ends, NEW fl,
              do_unpause(p) \/ (\E c \in Procs : do_fork(p, c)) \/ SetFl(p, e, fl) \/ do_open(p, e, fl)
       PROVE  IsPrefix(old, new)
  <2>1. data' = data /\ pos' = pos
    BY <1>11 DEF do_unpause, do_fork, SetFl, do_open, OpenWaits, OpenMeets, ShareFilp, file
  <2> QED BY <1>5, <2>1 DEF m, m2
<1>12. ASSUME NEW p \in alive, NEW e \in Ends, do_close(p, e)
       PROVE  IsPrefix(old, new) \/ \A q \in Procs : fds'[q] = {}
  BY <1>9, <1>12 DEF do_close
<1>13. ASSUME NEW p \in alive, do_exit(p)
       PROVE  IsPrefix(old, new) \/ \A q \in Procs : fds'[q] = {}
  BY <1>9, <1>13 DEF do_exit
<1>14. IsPrefix(old, new) \/ IsSuffix(new, old) \/ \A q \in Procs : fds'[q] = {}
  <2>1. CASE \E p \in Procs, n \in 0..MaxBytes : Served(p) /\ (do_read(p, n) \/ do_write(p, n))
    BY <1>6, <1>7, <2>1
  <2>2. ASSUME NEW p \in alive,
               \/ do_pipe(p) \/ do_unpause(p) \/ do_exit(p)
               \/ \E c \in Procs : do_fork(p, c)
               \/ \E e \in Ends : \/ hang[p] = NoCall /\ do_close(p, e)
                                  \/ \E fl \in Flags(e) : \/ hang[p] = NoCall /\ do_open(p, e, fl)
                                                          \/ SetFl(p, e, fl)
        PROVE  IsPrefix(old, new) \/ \A q \in Procs : fds'[q] = {}
    <3>1. "R" \in Ends BY DEF Ends
    <3> QED BY <1>10, <1>11, <1>12, <1>13, <2>2, <3>1
  <2> QED BY <2>1, <2>2, NextCases
<1> QED BY <1>4, <1>14 DEF QueueStep, old, new

\* The step that takes O_APPEND away leaves the bytes alone.
LEMMA DriftQueues ==
  ASSUME IInv, Next, ~adrift, adrift'
  PROVE  QueueStep
<1>1. PICK p, e, fl : SetFl(p, e, fl)
  <2>1. ASSUME NEW p, NEW n, do_read(p, n) \/ do_write(p, n) PROVE adrift' = adrift
    <3>1. CASE do_read(p, n) BY <3>1 DEF do_read, ReadEmpty, ReadBytes, file
    <3>2. CASE do_write(p, n)
      BY <3>2 DEF do_write, WriteFits, WritePart, WriteFull, WriteFails, WriteBroken, Store, file
    <3> QED BY <2>1, <3>1, <3>2
  <2>2. ASSUME NEW p, do_pipe(p) \/ do_unpause(p) \/ do_exit(p) \/ \E c : do_fork(p, c)
        PROVE  adrift' = adrift
    BY <2>2 DEF do_pipe, do_unpause, do_exit, do_fork, file
  <2>3. ASSUME NEW p, NEW e, do_close(p, e) \/ \E fl : do_open(p, e, fl) PROVE adrift' = adrift
    BY <2>3 DEF do_close, do_open, OpenWaits, OpenMeets, ShareFilp
  <2> HIDE DEF do_read, do_write, do_pipe, do_unpause, do_exit, do_fork, do_close, do_open
  <2> QED BY <2>1, <2>2, <2>3, NextCases
<1>2. data' = data /\ pos' = pos BY <1>1 DEF SetFl
<1>3. Unread' = Unread BY <1>2 DEF Unread
<1> DEFINE u == Unread
<1>4. u \in Seq(Procs) BY UnreadFacts DEF IInv, u
<1>5. \A i \in 1..Len(u) : u[i] # 0 BY <1>4, ConstantFacts
<1> HIDE DEF u
<1>6. IsPrefix(u, u) BY <1>4, PrefixFacts
<1> QED BY <1>3, <1>5, <1>6 DEF QueueStep, u

\* Theorem: the pipe is a queue of bytes (rw_chunk, the rewinding of
\* read_write, the positions kept in the inode): a step only appends bytes of
\* a writer, takes bytes from the front, or drops all when nobody has it open,
\* until F_SETFL has taken O_APPEND from writers of a FIFO that do not stand at
\* its end (misc.c:112).
THEOREM PipeIsQueue == Spec => QueueOrder
<1>1. Anchored /\ Anchored' /\ [Next]_vars => [adrift \/ QueueStep]_vars
  BY StepsQueue, DriftQueues DEF Anchored
<1> QED BY <1>1, Invariance, PTL DEF Spec, QueueOrder

\* Theorem: what pipe() makes is a queue of bytes whatever F_SETFL does, since
\* its writers never leave the end of the file.
THEOREM PipeAlwaysQueue == Spec => [][kind = "pipe" => QueueStep]_vars
<1>1. Anchored /\ Anchored' /\ [Next]_vars => [kind = "pipe" => QueueStep]_vars
  BY StepsQueue, DriftQueues DEF Anchored
<1> QED BY <1>1, Invariance, PTL DEF Spec
=============================================================================
