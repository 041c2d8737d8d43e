----------------------------- MODULE HolesProofs -----------------------------
(***************************************************************************)
(* Proofs about Holes: whatever programs are loaded, forked and left, the  *)
(* holes and the images partition memory, free clicks in a row are one     *)
(* hole, and so the hole table never overflows: until a process leaves     *)
(* whose text is shared (astray).                                          *)
(***************************************************************************)
EXTENDS Holes, FiniteSetTheorems, WellFoundedInduction, TLAPS

----------------------------------------------------------------------------
(* Lists of holes.                                                         *)

\* A piece of memory, where it ends, and pieces without a common click.
Piece == [base : Nat \ {0}, len : Nat \ {0}]
End(b) == b.base + b.len
Apart(a, b) == End(a) <= b.base \/ End(b) <= a.base
In(k, b) == b.base <= k /\ k < End(b)

\* A sorted list; only the holes at T may touch their successors.
Sorted(s, T) ==
  /\ s \in Seq(Piece)
  /\ \A i, j \in 1..Len(s) : i < j => /\ End(s[i]) <= s[j].base
                                      /\ End(s[i]) = s[j].base => i \in T
Has(s, k) == \E i \in 1..Len(s) : In(k, s[i])

\* A non-empty set of numbers has a least one.
LEMMA LeastOfNat ==
  ASSUME NEW S \in SUBSET Nat, S # {}
  PROVE  \E x \in S : \A y \in S : x <= y
<1> DEFINE R == OpToRel(<, Nat)
<1>1. IsWellFoundedOn(R, Nat) BY NatLessThanWellFounded
<1>2. \A x, y \in Nat : y < x => <<y, x>> \in R BY DEF OpToRel
<1> HIDE DEF R
<1>3. PICK x \in S : \A y \in S : ~(<<y, x>> \in R) BY <1>1, WFMin
<1>4. ASSUME NEW y \in S PROVE x <= y
  <2>1. ~(y < x) BY <1>2, <1>3
  <2> QED BY <2>1
<1> QED BY <1>4

\* A part of a list.
LEMMA PartOfList ==
  ASSUME NEW s \in Seq(Piece), NEW m \in 1..Len(s)+1, NEW n \in m-1..Len(s)
  PROVE  /\ SubSeq(s, m, n) \in Seq(Piece)
         /\ Len(SubSeq(s, m, n)) = n - m + 1
         /\ \A j \in 1..n-m+1 : SubSeq(s, m, n)[j] = s[m+j-1]
<1>1. m \in Nat /\ n \in Int /\ Len(s) \in Nat OBVIOUS
<1>2. SubSeq(s, m, n) \in Seq(Piece)
  <2>1. \A j \in m..n : j \in 1..Len(s) BY <1>1
  <2> QED BY <2>1, <1>1
<1>3. Len(SubSeq(s, m, n)) = n - m + 1 BY <1>1
<1>4. \A j \in 1..n-m+1 : SubSeq(s, m, n)[j] = s[m+j-1] BY <1>1
<1> QED BY <1>2, <1>3, <1>4

\* Two lists, one behind the other.
LEMMA InARow ==
  ASSUME NEW s \in Seq(Piece), NEW t \in Seq(Piece)
  PROVE  /\ s \o t \in Seq(Piece)
         /\ Len(s \o t) = Len(s) + Len(t)
         /\ \A j \in 1..Len(s)+Len(t) : (s \o t)[j] = IF j <= Len(s) THEN s[j] ELSE t[j - Len(s)]
<1>1. s \o t \in Seq(Piece) OBVIOUS
<1>2. Len(s \o t) = Len(s) + Len(t) OBVIOUS
<1>3. \A j \in 1..Len(s)+Len(t) : (s \o t)[j] = IF j <= Len(s) THEN s[j] ELSE t[j - Len(s)] OBVIOUS
<1> QED BY <1>1, <1>2, <1>3

\* Taking an element out of a list (del_slot).
LEMMA TakenOut ==
  ASSUME NEW s \in Seq(Piece), NEW i \in 1..Len(s)
  PROVE  /\ RemoveAt(s, i) \in Seq(Piece)
         /\ Len(RemoveAt(s, i)) = Len(s) - 1
         /\ \A j \in 1..Len(s)-1 : RemoveAt(s, i)[j] = IF j < i THEN s[j] ELSE s[j+1]
<1> DEFINE a == SubSeq(s, 1, i-1)
           b == SubSeq(s, i+1, Len(s))
<1>0. i \in Nat /\ Len(s) \in Nat OBVIOUS
<1>1. /\ a \in Seq(Piece) /\ Len(a) = i - 1
      /\ \A j \in 1..i-1 : a[j] = s[j]
  <2>1. 1 \in 1..Len(s)+1 /\ i-1 \in 1-1..Len(s) BY <1>0
  <2>2. /\ a \in Seq(Piece) /\ Len(a) = (i-1) - 1 + 1
        /\ \A j \in 1..(i-1)-1+1 : a[j] = s[1+j-1]
    BY <2>1, PartOfList
  <2> QED BY <2>2, <1>0
<1>2. /\ b \in Seq(Piece) /\ Len(b) = Len(s) - i
      /\ \A j \in 1..Len(s)-i : b[j] = s[i+j]
  <2>1. i+1 \in 1..Len(s)+1 /\ Len(s) \in (i+1)-1..Len(s) BY <1>0
  <2>2. /\ b \in Seq(Piece) /\ Len(b) = Len(s) - (i+1) + 1
        /\ \A j \in 1..Len(s)-(i+1)+1 : b[j] = s[(i+1)+j-1]
    BY <2>1, PartOfList
  <2> QED BY <2>2, <1>0
<1>3. RemoveAt(s, i) = a \o b BY DEF RemoveAt
<1> HIDE DEF a, b
<1>4. /\ a \o b \in Seq(Piece) /\ Len(a \o b) = Len(a) + Len(b)
      /\ \A j \in 1..Len(a)+Len(b) : (a \o b)[j] = IF j <= Len(a) THEN a[j] ELSE b[j - Len(a)]
  BY <1>1, <1>2, InARow
<1>5. ASSUME NEW j \in 1..Len(s)-1 PROVE (a \o b)[j] = IF j < i THEN s[j] ELSE s[j+1]
  <2>1. j \in 1..Len(a)+Len(b) BY <1>0, <1>1, <1>2
  <2>2. CASE j < i BY <2>1, <2>2, <1>0, <1>1, <1>4
  <2>3. CASE ~(j < i)
    <3>1. ~(j <= Len(a)) /\ j - Len(a) \in 1..Len(s)-i /\ i + (j - Len(a)) = j + 1
      BY <2>3, <1>0, <1>1
    <3>2. (a \o b)[j] = b[j - Len(a)] BY <2>1, <3>1, <1>4
    <3>3. b[j - Len(a)] = s[i + (j - Len(a))] BY <3>1, <1>2
    <3> QED BY <3>1, <3>2, <3>3, <2>3
  <2> QED BY <2>2, <2>3
<1>6. Len(a \o b) = Len(s) - 1 BY <1>0, <1>1, <1>2, <1>4
<1>8. RemoveAt(s, i) \in Seq(Piece) /\ Len(RemoveAt(s, i)) = Len(s) - 1 BY <1>3, <1>4, <1>6
<1>9. ASSUME NEW j \in 1..Len(s)-1
      PROVE  RemoveAt(s, i)[j] = IF j < i THEN s[j] ELSE s[j+1]
  BY <1>3, <1>5
<1> QED BY <1>8, <1>9

\* Linking an element in (free_mem).
LEMMA PutIn ==
  ASSUME NEW s \in Seq(Piece), NEW k \in 0..Len(s), NEW p \in Piece
  PROVE  /\ InsertAt(s, k+1, p) \in Seq(Piece)
         /\ Len(InsertAt(s, k+1, p)) = Len(s) + 1
         /\ \A j \in 1..Len(s)+1 :
              InsertAt(s, k+1, p)[j] = IF j <= k THEN s[j] ELSE IF j = k+1 THEN p ELSE s[j-1]
<1> DEFINE a == SubSeq(s, 1, (k+1)-1)
           b == SubSeq(s, k+1, Len(s))
<1>0. k \in Nat /\ Len(s) \in Nat /\ k <= Len(s) OBVIOUS
<1>1. /\ a \in Seq(Piece) /\ Len(a) = k
      /\ \A j \in 1..k : a[j] = s[j]
  <2>1. 1 \in 1..Len(s)+1 /\ (k+1)-1 \in 1-1..Len(s) BY <1>0
  <2>2. /\ a \in Seq(Piece) /\ Len(a) = ((k+1)-1) - 1 + 1
        /\ \A j \in 1..((k+1)-1)-1+1 : a[j] = s[1+j-1]
    BY <2>1, PartOfList
  <2> QED BY <2>2, <1>0
<1>2. /\ b \in Seq(Piece) /\ Len(b) = Len(s) - k
      /\ \A j \in 1..Len(s)-k : b[j] = s[k+j]
  <2>1. k+1 \in 1..Len(s)+1 /\ Len(s) \in (k+1)-1..Len(s) BY <1>0
  <2>2. /\ b \in Seq(Piece) /\ Len(b) = Len(s) - (k+1) + 1
        /\ \A j \in 1..Len(s)-(k+1)+1 : b[j] = s[(k+1)+j-1]
    BY <2>1, PartOfList
  <2> QED BY <2>2, <1>0
<1>3. <<p>> \in Seq(Piece) /\ Len(<<p>>) = 1 /\ <<p>>[1] = p OBVIOUS
<1>4. InsertAt(s, k+1, p) = a \o <<p>> \o b BY DEF InsertAt
<1> DEFINE q == <<p>>
           c == a \o q
<1> HIDE DEF a, b, q
<1>5. /\ c \in Seq(Piece) /\ Len(c) = k + 1
      /\ \A j \in 1..k+1 : c[j] = IF j <= k THEN s[j] ELSE p
  <2>1. /\ c \in Seq(Piece) /\ Len(c) = Len(a) + Len(q)
        /\ \A j \in 1..Len(a)+Len(q) : c[j] = IF j <= Len(a) THEN a[j] ELSE q[j - Len(a)]
    BY <1>1, <1>3, InARow DEF q
  <2>2. ASSUME NEW j \in 1..k+1 PROVE c[j] = IF j <= k THEN s[j] ELSE p
    <3>1. j \in 1..Len(a)+Len(q) BY <1>0, <1>1, <1>3 DEF q
    <3>2. CASE j <= k BY <3>1, <3>2, <2>1, <1>0, <1>1
    <3>3. CASE ~(j <= k)
      <4>1. j - Len(a) = 1 BY <3>3, <1>0, <1>1
      <4> QED BY <4>1, <3>1, <3>3, <2>1, <1>1, <1>3 DEF q
    <3> QED BY <3>2, <3>3
  <2> QED BY <2>1, <2>2, <1>0, <1>1, <1>3 DEF q
<1> HIDE DEF c
<1>6. /\ c \o b \in Seq(Piece) /\ Len(c \o b) = Len(c) + Len(b)
      /\ \A j \in 1..Len(c)+Len(b) : (c \o b)[j] = IF j <= Len(c) THEN c[j] ELSE b[j - Len(c)]
  BY <1>2, <1>5, InARow
<1>7. ASSUME NEW j \in 1..Len(s)+1
      PROVE  (c \o b)[j] = IF j <= k THEN s[j] ELSE IF j = k+1 THEN p ELSE s[j-1]
  <2>1. j \in 1..Len(c)+Len(b) BY <1>0, <1>2, <1>5
  <2>2. CASE j <= k+1 BY <2>1, <2>2, <1>0, <1>5, <1>6
  <2>3. CASE ~(j <= k+1)
    <3>1. ~(j <= Len(c)) /\ j - Len(c) \in 1..Len(s)-k /\ k + (j - Len(c)) = j - 1
      BY <2>3, <1>0, <1>5
    <3>2. (c \o b)[j] = b[j - Len(c)] BY <2>1, <3>1, <1>6
    <3>3. b[j - Len(c)] = s[k + (j - Len(c))] BY <3>1, <1>2
    <3> QED BY <3>1, <3>2, <3>3, <2>3
  <2> QED BY <2>2, <2>3
<1>8. InsertAt(s, k+1, p) = c \o b BY <1>4 DEF c, q
<1>9. Len(c \o b) = Len(s) + 1 BY <1>0, <1>2, <1>5, <1>6
<1> QED BY <1>6, <1>7, <1>8, <1>9

----------------------------------------------------------------------------
(* merge().                                                                *)

\* Numbers in pieces.
LEMMA PieceFacts ==
  ASSUME NEW b \in Piece
  PROVE  /\ b.base \in Nat \ {0} /\ b.len \in Nat \ {0} /\ End(b) \in Nat /\ b.base < End(b)
         /\ b = [base |-> b.base, len |-> b.len]
BY DEF Piece, End

\* The hole at i touches its successor; the places T, when these two are one.
Touch(s, i) == i < Len(s) /\ End(s[i]) = s[i+1].base
Moved(T, i) == {j \in Nat : (j < i /\ j \in T) \/ (j >= i /\ j + 1 \in T)}

\* A hole absorbs its successor if they touch: the free clicks remain, and the
\* place where they touched is gone.
LEMMA AbsorbKeeps ==
  ASSUME NEW s, NEW T, Sorted(s, T), NEW i \in Nat \ {0}
  PROVE  /\ \A k \in Int : Has(Absorb(s, i), k) <=> Has(s, k)
         /\ Touch(s, i) => Len(Absorb(s, i)) = Len(s) - 1 /\ Sorted(Absorb(s, i), Moved(T, i))
         /\ ~Touch(s, i) => Absorb(s, i) = s /\ Sorted(s, T \ {i})
<1> DEFINE r == Absorb(s, i)
           touch == Touch(s, i)
           U == Moved(T, i)
<1> USE DEF Touch, Moved
<1>1. s \in Seq(Piece) /\ Len(s) \in Nat BY DEF Sorted
<1>2. \A j \in 1..Len(s) : s[j] \in Piece BY <1>1
<1>3. \A j \in 1..Len(s) : /\ s[j].base \in Nat \ {0} /\ s[j].len \in Nat \ {0} /\ End(s[j]) \in Nat
                           /\ s[j].base < End(s[j])
  BY <1>2, PieceFacts
<1>4. \A a, b \in 1..Len(s) : a < b => End(s[a]) <= s[b].base /\ (End(s[a]) = s[b].base => a \in T)
  BY DEF Sorted
<1>5. ASSUME ~touch PROVE r = s /\ Sorted(s, T \ {i})
  <2>1. r = s
    <3>1. ~(i < Len(s) /\ s[i].base + s[i].len = s[i+1].base) BY <1>5 DEF End
    <3> QED BY <3>1 DEF Absorb
  <2>2. ASSUME NEW a \in 1..Len(s), NEW b \in 1..Len(s), a < b, End(s[a]) = s[b].base PROVE a # i
    <3> SUFFICES ASSUME a = i PROVE FALSE OBVIOUS
    <3>1. i < Len(s) /\ i + 1 \in 1..Len(s) BY <2>2, <1>1
    <3>2. CASE b = i + 1 BY <3>1, <3>2, <2>2, <1>5
    <3>3. CASE b # i + 1
      <4>1. End(s[i]) <= s[i+1].base /\ End(s[i+1]) <= s[b].base BY <3>1, <3>3, <2>2, <1>4
      <4> QED BY <4>1, <3>1, <2>2, <1>3
    <3> QED BY <3>2, <3>3
  <2>3. Sorted(s, T \ {i}) BY <2>2, <1>1, <1>4 DEF Sorted
  <2> QED BY <2>1, <2>3
<1>6. ASSUME touch PROVE Len(r) = Len(s) - 1 /\ Sorted(r, U) /\ \A k \in Int : Has(r, k) <=> Has(s, k)
  <2> DEFINE m == RemoveAt(s, i + 1)
             h == [base |-> s[i].base, len |-> s[i].len + s[i+1].len]
  <2>1. i \in 1..Len(s) /\ i + 1 \in 1..Len(s) /\ End(s[i]) = s[i+1].base BY <1>6, <1>1
  <2>2. /\ m \in Seq(Piece) /\ Len(m) = Len(s) - 1
        /\ \A j \in 1..Len(s)-1 : m[j] = IF j < i + 1 THEN s[j] ELSE s[j+1]
    BY <2>1, <1>1, TakenOut
  <2>3. r = [m EXCEPT ![i].len = s[i].len + s[i+1].len] BY <2>1, <1>6 DEF Absorb, End
  <2> HIDE DEF r, m
  <2>4. i \in 1..Len(m) /\ m[i] = s[i] BY <2>1, <2>2, <1>1
  <2>5. [m[i] EXCEPT !.len = s[i].len + s[i+1].len] = h
    <3>1. m[i] = [base |-> s[i].base, len |-> s[i].len] BY <2>1, <2>4, <1>2, PieceFacts
    <3> QED BY <3>1
  <2>6. r = [m EXCEPT ![i] = h] BY <2>3, <2>5
  <2>7. h \in Piece /\ h.base = s[i].base /\ End(h) = End(s[i+1])
    <3>1. h.base = s[i].base /\ h.len = s[i].len + s[i+1].len OBVIOUS
    <3>2. h \in Piece BY <2>1, <1>3 DEF Piece
    <3>3. End(h) = End(s[i+1]) BY <3>1, <2>1, <1>3 DEF End
    <3> QED BY <3>1, <3>2, <3>3
  <2> HIDE DEF h
  <2>8. r \in Seq(Piece) /\ Len(r) = Len(s) - 1 BY <2>2, <2>4, <2>6, <2>7
  <2>9. \A j \in 1..Len(s)-1 : r[j] = IF j = i THEN h ELSE IF j < i THEN s[j] ELSE s[j+1]
    <3> SUFFICES ASSUME NEW j \in 1..Len(s)-1
                 PROVE  r[j] = IF j = i THEN h ELSE IF j < i THEN s[j] ELSE s[j+1]
      OBVIOUS
    <3>1. r[j] = IF j = i THEN h ELSE m[j] BY <2>2, <2>4, <2>6, <1>1
    <3>2. m[j] = IF j < i + 1 THEN s[j] ELSE s[j+1] BY <2>2
    <3>3. j # i => (j < i + 1 <=> j < i) BY <1>1
    <3> QED BY <3>1, <3>2, <3>3
  <2>10. ASSUME NEW a \in 1..Len(s)-1, NEW b \in 1..Len(s)-1, a < b
         PROVE  End(r[a]) <= r[b].base /\ (End(r[a]) = r[b].base => a \in U)
    <3>1. a \in Nat /\ b \in Nat /\ a \in 1..Len(s) /\ b \in 1..Len(s) /\ a + 1 \in 1..Len(s) /\ b + 1 \in 1..Len(s)
      BY <1>1
    <3>2. End(r[a]) = IF a < i THEN End(s[a]) ELSE End(s[a+1]) BY <2>7, <2>9, <3>1
    <3>3. r[b].base = IF b <= i THEN s[b].base ELSE s[b+1].base BY <2>7, <2>9, <3>1
    <3>4. CASE a < i
      <4>1. a < b /\ a < b + 1 BY <2>10, <3>1
      <4>2. End(r[a]) <= r[b].base /\ (End(r[a]) = r[b].base => a \in T) BY <3>1, <3>2, <3>3, <3>4, <4>1, <1>4
      <4> QED BY <4>2, <3>1, <3>4
    <3>5. CASE ~(a < i)
      <4>1. a + 1 < b + 1 /\ ~(b <= i) BY <2>10, <3>1, <3>5
      <4>2. End(r[a]) <= r[b].base /\ (End(r[a]) = r[b].base => a + 1 \in T) BY <3>1, <3>2, <3>3, <3>5, <4>1, <1>4
      <4> QED BY <4>2, <3>1, <3>5
    <3> QED BY <3>4, <3>5
  <2>11. Sorted(r, U)
    <3> HIDE DEF U
    <3> QED BY <2>8, <2>10 DEF Sorted
  <2>12. ASSUME NEW k \in Int PROVE Has(r, k) <=> Has(s, k)
    <3>1. In(k, h) <=> In(k, s[i]) \/ In(k, s[i+1])
      BY <2>1, <2>7, <1>3 DEF In
    <3>2. ASSUME NEW j \in 1..Len(r), In(k, r[j]) PROVE Has(s, k)
      <4>1. j \in 1..Len(s)-1 /\ j \in 1..Len(s) /\ j + 1 \in 1..Len(s) BY <2>8, <1>1
      <4> QED BY <4>1, <2>1, <2>9, <3>1, <3>2 DEF Has
    <3>3. ASSUME NEW j \in 1..Len(s), In(k, s[j]) PROVE Has(r, k)
      <4>1. CASE j = i \/ j = i + 1
        <5>1. i \in 1..Len(s)-1 /\ i \in 1..Len(r) BY <2>1, <2>8, <1>1
        <5>2. r[i] = h BY <5>1, <2>9
        <5> QED BY <5>1, <5>2, <4>1, <3>1, <3>3 DEF Has
      <4>2. CASE j < i
        <5>1. j \in 1..Len(s)-1 /\ j \in 1..Len(r) /\ j # i BY <2>1, <2>8, <1>1, <4>2
        <5>2. r[j] = s[j] BY <5>1, <4>2, <2>9
        <5> QED BY <5>1, <5>2, <3>3 DEF Has
      <4>3. CASE j > i + 1
        <5>1. j-1 \in 1..Len(s)-1 /\ j-1 \in 1..Len(r) /\ j-1 # i /\ ~(j-1 < i) /\ (j-1)+1 = j
          BY <2>1, <2>8, <1>1, <4>3
        <5>2. r[j-1] = s[j] BY <5>1, <2>9
        <5> QED BY <5>1, <5>2, <3>3 DEF Has
      <4>4. j < i \/ j = i \/ j = i + 1 \/ j > i + 1 BY <1>1
      <4> QED BY <4>1, <4>2, <4>3, <4>4
    <3> QED BY <3>2, <3>3 DEF Has
  <2> QED BY <2>8, <2>11, <2>12
<1> QED BY <1>5, <1>6

\* Only the hole at k, and the one before it, may touch their successors:
\* merge() leaves none that touch.
LEMMA MergeKeeps ==
  ASSUME NEW s, NEW k \in Nat, Sorted(s, {k, k + 1})
  PROVE  LET r == merge(s, IF k = 0 THEN 1 ELSE k)
         IN  /\ Sorted(r, {}) /\ Len(r) <= Len(s)
             /\ \A c \in Int : Has(r, c) <=> Has(s, c)
<1> DEFINE i == IF k = 0 THEN 1 ELSE k
           t == Absorb(s, i)
           touch == Touch(s, i)
           j == IF Len(t) < Len(s) THEN i ELSE i + 1
           r == Absorb(t, j)
<1>0. r = merge(s, i) BY DEF merge
<1>1. i \in Nat \ {0} /\ i + 1 \in Nat \ {0} /\ Len(s) \in Nat BY DEF Sorted
<1>2. \A c \in Int : Has(t, c) <=> Has(s, c) BY <1>1, AbsorbKeeps
<1>3. \E T : Sorted(t, T) /\ (\A n \in T : n >= 1 => n = j) /\ Len(t) <= Len(s) /\ j \in Nat \ {0}
  <2>1. CASE touch
    <3> DEFINE U == Moved({k, k+1}, i)
    <3>1. Len(t) = Len(s) - 1 /\ Sorted(t, U) BY <2>1, <1>1, AbsorbKeeps
    <3>2. j = i BY <3>1, <1>1
    <3>3. \A n \in U : n >= 1 => n = i BY DEF Moved
    <3> HIDE DEF U, t, j, i
    <3> QED BY <3>1, <3>2, <3>3, <1>1
  <2>2. CASE ~touch
    <3>0. t = s /\ Sorted(s, {k, k+1} \ {i})
      <4> HIDE DEF i
      <4> QED BY <2>2, <1>1, AbsorbKeeps
    <3>1. t = s /\ Sorted(t, {k, k+1} \ {i}) BY <3>0
    <3>2. j = i + 1 BY <3>1, <1>1
    <3>3. \A n \in {k, k+1} \ {i} : n >= 1 => n = i + 1 OBVIOUS
    <3> HIDE DEF t, j, i
    <3> QED BY <3>1, <3>2, <3>3, <1>1
  <2> QED BY <2>1, <2>2
<1>4. PICK T : Sorted(t, T) /\ (\A n \in T : n >= 1 => n = j) /\ Len(t) <= Len(s) /\ j \in Nat \ {0} BY <1>3
<1> HIDE DEF j, t, i
<1>5. \A c \in Int : Has(r, c) <=> Has(t, c) BY <1>4, AbsorbKeeps
<1>6. /\ Len(t) \in Nat
      /\ \/ Len(r) = Len(t) - 1 /\ Sorted(r, Moved(T, j))
         \/ r = t /\ Sorted(r, T \ {j})
  <2>1. Touch(t, j) => Len(r) = Len(t) - 1 /\ Sorted(r, Moved(T, j)) BY <1>4, AbsorbKeeps
  <2>2. ~Touch(t, j) => r = t /\ Sorted(t, T \ {j}) BY <1>4, AbsorbKeeps
  <2>3. Len(t) \in Nat BY <1>4 DEF Sorted
  <2> HIDE DEF r
  <2> QED BY <2>1, <2>2, <2>3
<1>7. \E U : Sorted(r, U) /\ \A n \in U : ~(n >= 1)
  <2>1. ASSUME NEW n \in Moved(T, j) PROVE ~(n >= 1) BY <2>1, <1>4 DEF Moved
  <2>2. ASSUME NEW n \in T \ {j} PROVE ~(n >= 1) BY <1>4
  <2> QED BY <1>6, <2>1, <2>2
<1>8. Sorted(r, {}) BY <1>7 DEF Sorted
<1>9. Len(r) <= Len(s) BY <1>4, <1>6, <1>1
<1> QED BY <1>0, <1>2, <1>5, <1>8, <1>9 DEF i
----------------------------------------------------------------------------
(* free_mem() and alloc_mem().                                             *)

\* The place of a block: behind the holes below it.
LEMMA BeforeFacts ==
  ASSUME NEW s \in Seq(Piece), NEW base \in Nat
  PROVE  /\ Before(s, base) \in 0..Len(s)
         /\ \A j \in 1..Before(s, base) : s[j].base < base
         /\ Before(s, base) < Len(s) => s[Before(s, base) + 1].base >= base
<1> DEFINE B == {i \in DOMAIN s : \A j \in 1..i : s[j].base < base}
           F == {i \in 1..Len(s) : ~(s[i].base < base)}
<1>1. Len(s) \in Nat /\ DOMAIN s = 1..Len(s) OBVIOUS
<1>2. \A j \in 1..Len(s) : s[j].base \in Nat BY PieceFacts
<1>3. \E k \in 0..Len(s) : B = 1..k /\ (k < Len(s) => s[k+1].base >= base)
  <2>1. CASE F = {}
    <3>1. \A i \in 1..Len(s) : s[i].base < base BY <2>1
    <3>2. B = 1..Len(s)
      <4>1. ASSUME NEW i \in 1..Len(s), NEW j \in 1..i PROVE s[j].base < base
        <5>1. j \in 1..Len(s) BY <1>1
        <5> QED BY <5>1, <3>1
      <4> QED BY <4>1, <1>1
    <3>3. Len(s) \in 0..Len(s) /\ ~(Len(s) < Len(s)) BY <1>1
    <3> HIDE DEF B
    <3> QED BY <3>2, <3>3
  <2>2. CASE F # {}
    <3>1. F \in SUBSET Nat BY <1>1
    <3>2. PICK m \in F : \A n \in F : m <= n BY <2>2, <3>1, LeastOfNat
    <3>3. m \in 1..Len(s) /\ ~(s[m].base < base) BY <3>2
    <3>4. \A i \in 1..m-1 : i \in 1..Len(s) /\ s[i].base < base
      <4> SUFFICES ASSUME NEW i \in 1..m-1 PROVE i \in 1..Len(s) /\ s[i].base < base OBVIOUS
      <4>1. i \in 1..Len(s) /\ ~(m <= i) BY <3>3, <1>1
      <4> QED BY <4>1, <3>2
    <3>5. B = 1..m-1
      <4>1. ASSUME NEW i \in B PROVE i \in 1..m-1
        <5>1. i \in 1..Len(s) /\ \A j \in 1..i : s[j].base < base BY <1>1
        <5>2. ~(m \in 1..i) BY <5>1, <3>3
        <5> QED BY <5>1, <5>2, <3>3, <1>1
      <4>2. ASSUME NEW i \in 1..m-1 PROVE i \in B
        <5>1. i \in 1..Len(s) /\ \A j \in 1..i : j \in 1..m-1 BY <3>4, <3>3, <1>1
        <5> QED BY <5>1, <3>4, <1>1
      <4> HIDE DEF B
      <4> QED BY <4>1, <4>2
    <3>6. m-1 \in 0..Len(s) /\ (m-1)+1 = m /\ s[m].base >= base
      BY <3>3, <1>1, <1>2
    <3> HIDE DEF B
    <3> QED BY <3>5, <3>6
  <2> QED BY <2>1, <2>2
<1>4. PICK k \in 0..Len(s) : B = 1..k /\ (k < Len(s) => s[k+1].base >= base) BY <1>3
<1>5. k \in Nat BY <1>1
<1>6. Cardinality(1..k) = k
  <2>1. Cardinality(1..k) = IF 1 > k THEN 0 ELSE k - 1 + 1 BY <1>5, FS_Interval
  <2> QED BY <2>1, <1>5
<1>7. Before(s, base) = k BY <1>4, <1>6 DEF Before
<1>8. \A j \in 1..k : s[j].base < base
  <2> SUFFICES ASSUME NEW j \in 1..k PROVE s[j].base < base OBVIOUS
  <2>1. j \in B BY <1>4
  <2>2. j \in 1..j BY <1>5
  <2> QED BY <2>1, <2>2
<1> HIDE DEF B
<1> QED BY <1>4, <1>7, <1>8

\* A block that no hole overlaps is put on the list: its clicks are free, and
\* no two holes touch.
LEMMA FreeKeeps ==
  ASSUME NEW s, Sorted(s, {}), NEW b \in Piece, \A i \in 1..Len(s) : Apart(s[i], b)
  PROVE  /\ Sorted(free_mem(s, b.base, b.len), {})
         /\ Len(free_mem(s, b.base, b.len)) <= Len(s) + 1
         /\ \A c \in Int : Has(free_mem(s, b.base, b.len), c) <=> Has(s, c) \/ In(c, b)
<1> DEFINE k == Before(s, b.base)
           t == InsertAt(s, k + 1, b)
<1>1. s \in Seq(Piece) /\ Len(s) \in Nat BY DEF Sorted
<1>2. \A j \in 1..Len(s) : s[j] \in Piece BY <1>1
<1>3. \A j \in 1..Len(s) : /\ s[j].base \in Nat \ {0} /\ s[j].len \in Nat \ {0} /\ End(s[j]) \in Nat
                           /\ s[j].base < End(s[j])
  BY <1>2, PieceFacts
<1>4. /\ b.base \in Nat \ {0} /\ b.len \in Nat \ {0} /\ End(b) \in Nat /\ b.base < End(b)
      /\ b = [base |-> b.base, len |-> b.len]
  BY PieceFacts
<1>5. \A i, j \in 1..Len(s) : i < j => End(s[i]) < s[j].base
  <2> SUFFICES ASSUME NEW i \in 1..Len(s), NEW j \in 1..Len(s), i < j PROVE End(s[i]) < s[j].base
    OBVIOUS
  <2>1. End(s[i]) <= s[j].base /\ End(s[i]) # s[j].base BY DEF Sorted
  <2> QED BY <2>1, <1>3
<1>6. /\ k \in 0..Len(s)
      /\ \A j \in 1..k : s[j].base < b.base
      /\ k < Len(s) => s[k+1].base >= b.base
  BY <1>1, <1>4, BeforeFacts
<1>7. free_mem(s, b.base, b.len) = merge(t, IF k = 0 THEN 1 ELSE k)
  BY <1>4 DEF free_mem
<1> HIDE DEF k
<1>8. k \in Nat /\ k <= Len(s) BY <1>1, <1>6
<1>9. /\ t \in Seq(Piece) /\ Len(t) = Len(s) + 1
      /\ \A j \in 1..Len(s)+1 : t[j] = IF j <= k THEN s[j] ELSE IF j = k+1 THEN b ELSE s[j-1]
  <2>1. s \in Seq(Piece) /\ k \in 0..Len(s) /\ b \in Piece BY <1>1, <1>6
  <2>2. t \in Seq(Piece) BY <2>1, PutIn
  <2>3. Len(t) = Len(s) + 1 BY <2>1, PutIn
  <2>4. \A j \in 1..Len(s)+1 : t[j] = IF j <= k THEN s[j] ELSE IF j = k+1 THEN b ELSE s[j-1]
    BY <2>1, PutIn
  <2> QED BY <2>2, <2>3, <2>4
<1> HIDE DEF t
<1>10. ASSUME NEW j \in 1..k
       PROVE  j \in 1..Len(s) /\ End(s[j]) <= b.base /\ (End(s[j]) = b.base => j = k)
  <2>1. j \in 1..Len(s) /\ j \in Nat BY <1>8, <1>1
  <2>2. s[j].base < b.base /\ Apart(s[j], b) BY <1>6, <2>1
  <2>3. End(s[j]) <= b.base BY <2>1, <2>2, <1>3, <1>4 DEF Apart
  <2>4. ASSUME j # k PROVE End(s[j]) # b.base
    <3>1. j < k /\ k \in 1..k /\ k \in 1..Len(s) BY <2>1, <2>4, <1>8
    <3>2. End(s[j]) < s[k].base /\ s[k].base < b.base BY <3>1, <2>1, <1>5, <1>6
    <3> QED BY <3>1, <3>2, <2>1, <1>3, <1>4
  <2> QED BY <2>1, <2>3, <2>4
<1>11. ASSUME NEW j \in k+1..Len(s)
       PROVE  j \in 1..Len(s) /\ End(b) <= s[j].base
  <2>1. j \in 1..Len(s) /\ k+1 \in 1..Len(s) /\ j \in Nat /\ k < Len(s) BY <1>8, <1>1
  <2>2. s[j].base >= b.base
    <3>1. CASE j = k+1 BY <3>1, <2>1, <1>6
    <3>2. CASE j # k+1
      <4>1. End(s[k+1]) < s[j].base BY <3>2, <2>1, <1>5, <1>8
      <4> QED BY <4>1, <2>1, <1>3, <1>4, <1>6
    <3> QED BY <3>1, <3>2
  <2>3. Apart(s[j], b) BY <2>1
  <2> QED BY <2>1, <2>2, <2>3, <1>3, <1>4 DEF Apart
<1>12. ASSUME NEW i \in 1..Len(t), NEW j \in 1..Len(t), i < j
       PROVE  End(t[i]) <= t[j].base /\ (End(t[i]) = t[j].base => i \in {k, k + 1})
  <2>1. i \in 1..Len(s)+1 /\ j \in 1..Len(s)+1 /\ i \in Nat /\ j \in Nat BY <1>9, <1>1
  <2>2. CASE j <= k
    <3>1. i \in 1..Len(s) /\ j \in 1..Len(s) /\ i <= k BY <2>1, <2>2, <1>12, <1>8
    <3>2. t[i] = s[i] /\ t[j] = s[j] BY <3>1, <2>1, <2>2, <1>9
    <3> QED BY <3>1, <3>2, <1>3, <1>5, <1>12
  <2>3. CASE i <= k /\ j = k + 1
    <3>1. i \in 1..k BY <2>1, <2>3
    <3>2. t[i] = s[i] /\ t[j] = b BY <2>1, <2>3, <1>8, <1>9
    <3> QED BY <3>1, <3>2, <1>10
  <2>4. CASE i <= k /\ j > k + 1
    <3>1. i \in 1..Len(s) /\ j-1 \in 1..Len(s) /\ i < j-1 BY <2>1, <2>4, <1>8, <1>1
    <3>2. ~(j <= k) /\ j # k + 1 BY <2>1, <2>4, <1>8
    <3>3. t[i] = s[i] /\ t[j] = s[j-1] BY <3>2, <2>1, <2>4, <1>9
    <3> QED BY <3>1, <3>3, <1>3, <1>5
  <2>5. CASE i = k + 1
    <3>1. j-1 \in k+1..Len(s) /\ ~(j <= k) /\ j # k + 1 /\ ~(i <= k) BY <2>1, <2>5, <1>8, <1>1, <1>12
    <3>2. t[i] = b /\ t[j] = s[j-1] BY <3>1, <2>1, <2>5, <1>9
    <3> QED BY <3>1, <3>2, <2>5, <1>11
  <2>6. CASE i > k + 1
    <3>1. i-1 \in 1..Len(s) /\ j-1 \in 1..Len(s) /\ i-1 < j-1 /\ ~(i <= k) /\ ~(j <= k) /\ j # k + 1
      BY <2>1, <2>6, <1>8, <1>1, <1>12
    <3>2. i # k + 1 BY <2>6, <1>8
    <3>3. t[i] = s[i-1] BY <3>1, <3>2, <2>1, <1>9
    <3>4. t[j] = s[j-1] BY <3>1, <2>1, <1>9
    <3>5. End(s[i-1]) < s[j-1].base BY <3>1, <1>5
    <3>6. End(s[i-1]) \in Nat /\ s[j-1].base \in Nat BY <3>1, <1>3
    <3> QED BY <3>3, <3>4, <3>5, <3>6
  <2>7. j <= k \/ (i <= k /\ j = k + 1) \/ (i <= k /\ j > k + 1) \/ i = k + 1 \/ i > k + 1
    BY <2>1, <1>8
  <2> QED BY <2>2, <2>3, <2>4, <2>5, <2>6, <2>7
<1>13. Sorted(t, {k, k + 1}) BY <1>9, <1>12 DEF Sorted
<1>14. ASSUME NEW c \in Int PROVE Has(t, c) <=> Has(s, c) \/ In(c, b)
  <2>1. ASSUME NEW j \in 1..Len(t), In(c, t[j]) PROVE Has(s, c) \/ In(c, b)
    <3>1. j \in 1..Len(s)+1 BY <1>9, <1>1
    <3>2. CASE j <= k
      <4>1. j \in 1..Len(s) BY <3>1, <3>2, <1>8
      <4> QED BY <4>1, <3>1, <3>2, <2>1, <1>9 DEF Has
    <3>3. CASE j = k + 1 BY <3>1, <3>3, <2>1, <1>8, <1>9
    <3>4. CASE j > k + 1
      <4>1. j-1 \in 1..Len(s) /\ ~(j <= k) /\ j # k + 1 BY <3>1, <3>4, <1>8, <1>1
      <4> QED BY <4>1, <3>1, <2>1, <1>9 DEF Has
    <3> QED BY <3>1, <3>2, <3>3, <3>4, <1>8
  <2>2. ASSUME NEW j \in 1..Len(s), In(c, s[j]) PROVE Has(t, c)
    <3>1. CASE j <= k
      <4>1. j \in 1..Len(s)+1 BY <1>1
      <4> QED BY <4>1, <3>1, <2>2, <1>9 DEF Has
    <3>2. CASE ~(j <= k)
      <4>1. j+1 \in 1..Len(s)+1 /\ ~(j+1 <= k) /\ j+1 # k + 1 /\ (j+1)-1 = j BY <3>2, <1>8, <1>1
      <4>2. t[j+1] = s[j] BY <4>1, <1>9
      <4> QED BY <4>1, <4>2, <2>2, <1>9 DEF Has
    <3> QED BY <3>1, <3>2
  <2>3. ASSUME In(c, b) PROVE Has(t, c)
    <3>1. k+1 \in 1..Len(s)+1 /\ ~(k+1 <= k) BY <1>8, <1>1
    <3>2. t[k+1] = b BY <3>1, <1>9
    <3> QED BY <3>1, <3>2, <2>3, <1>9 DEF Has
  <2> QED BY <2>1, <2>2, <2>3 DEF Has
<1> DEFINE r == merge(t, IF k = 0 THEN 1 ELSE k)
<1>15. Sorted(r, {}) /\ Len(r) <= Len(t) /\ \A c \in Int : Has(r, c) <=> Has(t, c)
  BY <1>8, <1>13, MergeKeeps
<1> HIDE DEF r
<1>16. Len(r) <= Len(s) + 1 BY <1>9, <1>15
<1>17. \A c \in Int : Has(r, c) <=> Has(s, c) \/ In(c, b) BY <1>14, <1>15
<1>18. free_mem(s, b.base, b.len) = r BY <1>7 DEF r
<1> QED BY <1>15, <1>16, <1>17, <1>18

\* A piece is bitten off a hole that is long enough.
LEMMA BiteKeeps ==
  ASSUME Sorted(hole, {}), NEW i \in 1..Len(hole), NEW n \in Nat \ {0}, hole[i].len >= n
  PROVE  /\ Sorted(Bite(i, n), {})
         /\ Len(Bite(i, n)) <= Len(hole)
         /\ [base |-> hole[i].base, len |-> n] \in Piece
         /\ \A c \in Int : Has(Bite(i, n), c) <=>
              Has(hole, c) /\ ~In(c, [base |-> hole[i].base, len |-> n])
         /\ \A c \in Int : In(c, [base |-> hole[i].base, len |-> n]) => Has(hole, c)
<1> DEFINE b == [base |-> hole[i].base, len |-> n]
           r == Bite(i, n)
<1>1. hole \in Seq(Piece) /\ Len(hole) \in Nat BY DEF Sorted
<1>2. \A j \in 1..Len(hole) : hole[j] \in Piece BY <1>1
<1>3. \A j \in 1..Len(hole) : /\ hole[j].base \in Nat \ {0} /\ hole[j].len \in Nat \ {0}
                              /\ End(hole[j]) \in Nat /\ hole[j].base < End(hole[j])
  BY <1>2, PieceFacts
<1>4. \A a, c \in 1..Len(hole) : a < c => End(hole[a]) < hole[c].base
  <2> SUFFICES ASSUME NEW a \in 1..Len(hole), NEW c \in 1..Len(hole), a < c
               PROVE  End(hole[a]) < hole[c].base
    OBVIOUS
  <2>1. End(hole[a]) <= hole[c].base /\ End(hole[a]) # hole[c].base BY DEF Sorted
  <2> QED BY <2>1, <1>3
<1>5. b \in Piece BY <1>3 DEF Piece
<1>6. \A c \in Int : In(c, b) <=> hole[i].base <= c /\ c < hole[i].base + n BY DEF In, End
<1> HIDE DEF b
<1>7. \A c \in Int : In(c, b) => In(c, hole[i]) BY <1>3, <1>6 DEF In, End
<1>8. ASSUME NEW c \in Int, NEW j \in 1..Len(hole), j # i, In(c, hole[j]) PROVE ~In(c, b)
  <2>1. ~In(c, hole[i])
    <3>1. CASE j < i
      <4>1. End(hole[j]) < hole[i].base BY <3>1, <1>4
      <4> QED BY <4>1, <1>3, <1>8 DEF In
    <3>2. CASE i < j
      <4>1. End(hole[i]) < hole[j].base BY <3>2, <1>4
      <4> QED BY <4>1, <1>3, <1>8 DEF In
    <3> QED BY <3>1, <3>2, <1>1, <1>8
  <2> QED BY <2>1, <1>7
<1>9. CASE hole[i].len = n
  <2>1. /\ r \in Seq(Piece) /\ Len(r) = Len(hole) - 1
        /\ \A j \in 1..Len(hole)-1 : r[j] = IF j < i THEN hole[j] ELSE hole[j+1]
    BY <1>1, <1>9, TakenOut DEF Bite
  <2> HIDE DEF r
  <2>2. ASSUME NEW a \in 1..Len(r), NEW c \in 1..Len(r), a < c PROVE End(r[a]) < r[c].base
    <3>1. a \in 1..Len(hole)-1 /\ c \in 1..Len(hole)-1 /\ a \in Nat /\ c \in Nat /\ i \in Nat
      BY <2>1, <1>1
    <3>2. /\ a \in 1..Len(hole) /\ c \in 1..Len(hole) /\ a+1 \in 1..Len(hole) /\ c+1 \in 1..Len(hole)
          /\ a < c + 1 /\ a + 1 < c + 1
      BY <3>1, <2>2, <1>1
    <3>3. CASE c < i
      <4>1. r[a] = hole[a] /\ r[c] = hole[c] BY <2>1, <2>2, <3>1, <3>3
      <4> QED BY <4>1, <3>2, <2>2, <1>4
    <3>4. CASE a < i /\ ~(c < i)
      <4>1. r[a] = hole[a] /\ r[c] = hole[c+1] BY <2>1, <2>2, <3>1, <3>4
      <4> QED BY <4>1, <3>2, <1>4
    <3>5. CASE ~(a < i)
      <4>1. ~(c < i) BY <2>2, <3>1, <3>5
      <4>2. r[a] = hole[a+1] /\ r[c] = hole[c+1] BY <4>1, <2>1, <3>1, <3>5
      <4> QED BY <4>2, <3>2, <1>4
    <3> QED BY <3>3, <3>4, <3>5
  <2>3. \A j \in 1..Len(r) : r[j] \in Piece BY <2>1
  <2>4. \A j \in 1..Len(r) : End(r[j]) \in Nat /\ r[j].base \in Nat BY <2>3, PieceFacts
  <2>5. Sorted(r, {}) BY <2>1, <2>2, <2>4 DEF Sorted
  <2>6. \A c \in Int : In(c, b) <=> In(c, hole[i]) BY <1>3, <1>6, <1>9 DEF In, End
  <2>7. ASSUME NEW c \in Int PROVE Has(r, c) <=> Has(hole, c) /\ ~In(c, b)
    <3>1. ASSUME NEW j \in 1..Len(r), In(c, r[j]) PROVE Has(hole, c) /\ ~In(c, b)
      <4>1. j \in 1..Len(hole)-1 BY <2>1, <1>1
      <4>2. CASE j < i
        <5>1. j \in 1..Len(hole) /\ j # i BY <4>1, <4>2, <1>1
        <5>2. r[j] = hole[j] BY <4>1, <4>2, <2>1
        <5> QED BY <5>1, <5>2, <3>1, <1>8 DEF Has
      <4>3. CASE ~(j < i)
        <5>1. j+1 \in 1..Len(hole) /\ j+1 # i BY <4>1, <4>3, <1>1
        <5>2. r[j] = hole[j+1] BY <4>1, <4>3, <2>1
        <5> QED BY <5>1, <5>2, <3>1, <1>8 DEF Has
      <4> QED BY <4>2, <4>3
    <3>2. ASSUME NEW j \in 1..Len(hole), In(c, hole[j]), ~In(c, b) PROVE Has(r, c)
      <4>1. j # i BY <3>2, <2>6
      <4>2. CASE j < i
        <5>1. j \in 1..Len(hole)-1 BY <4>2, <1>1
        <5>2. r[j] = hole[j] BY <5>1, <4>2, <2>1
        <5> QED BY <5>1, <5>2, <3>2, <2>1 DEF Has
      <4>3. CASE j > i
        <5>1. j-1 \in 1..Len(hole)-1 /\ ~(j-1 < i) /\ (j-1)+1 = j BY <4>3, <1>1
        <5>2. r[j-1] = hole[j] BY <5>1, <2>1
        <5> QED BY <5>1, <5>2, <3>2, <2>1 DEF Has
      <4> QED BY <4>1, <4>2, <4>3, <1>1
    <3> QED BY <3>1, <3>2 DEF Has
  <2>8. Len(r) <= Len(hole) BY <2>1, <1>1
  <2> QED BY <2>5, <2>7, <2>8, <1>5, <1>7 DEF Has, r, b
<1>10. CASE hole[i].len # n
  <2> DEFINE h == [base |-> hole[i].base + n, len |-> hole[i].len - n]
  <2>1. r = [hole EXCEPT ![i] = h] BY <1>10 DEF Bite
  <2>2. h.base = hole[i].base + n /\ h.len = hole[i].len - n OBVIOUS
  <2>3. h \in Piece
    <3>1. hole[i].base + n \in Nat \ {0} /\ hole[i].len - n \in Nat \ {0} BY <1>3, <1>10
    <3> QED BY <3>1 DEF Piece
  <2>4. End(h) = End(hole[i]) BY <2>2, <1>3 DEF End
  <2> HIDE DEF h, r
  <2>5. /\ r \in Seq(Piece) /\ Len(r) = Len(hole)
        /\ \A j \in 1..Len(hole) : r[j] = IF j = i THEN h ELSE hole[j]
    BY <1>1, <2>1, <2>3
  <2>6. ASSUME NEW a \in 1..Len(hole), NEW c \in 1..Len(hole), a < c PROVE End(r[a]) < r[c].base
    <3>1. End(hole[a]) < hole[c].base BY <2>6, <1>4
    <3>2. End(r[a]) = End(hole[a]) BY <2>4, <2>5
    <3>3. r[c].base >= hole[c].base /\ r[c].base \in Nat
      <4>1. CASE c = i BY <4>1, <2>2, <2>5, <1>3
      <4>2. CASE c # i BY <4>2, <2>5, <1>3
      <4> QED BY <4>1, <4>2
    <3> QED BY <3>1, <3>2, <3>3, <1>3
  <2>7. \A j \in 1..Len(r) : r[j] \in Piece BY <2>5
  <2>8. \A j \in 1..Len(r) : End(r[j]) \in Nat /\ r[j].base \in Nat BY <2>7, PieceFacts
  <2>9. Sorted(r, {}) BY <2>5, <2>6, <2>8 DEF Sorted
  <2>10. \A c \in Int : In(c, h) <=> In(c, hole[i]) /\ ~In(c, b)
    <3>1. \A c \in Int : In(c, h) <=> hole[i].base + n <= c /\ c < End(hole[i]) BY <2>2, <2>4 DEF In
    <3> QED BY <3>1, <1>3, <1>6 DEF In
  <2>11. ASSUME NEW c \in Int PROVE Has(r, c) <=> Has(hole, c) /\ ~In(c, b)
    <3>1. ASSUME NEW j \in 1..Len(r), In(c, r[j]) PROVE Has(hole, c) /\ ~In(c, b)
      <4>1. j \in 1..Len(hole) BY <2>5
      <4>2. CASE j = i BY <4>1, <4>2, <3>1, <2>5, <2>10 DEF Has
      <4>3. CASE j # i
        <5>1. r[j] = hole[j] BY <4>1, <4>3, <2>5
        <5> QED BY <5>1, <4>1, <4>3, <3>1, <1>8 DEF Has
      <4> QED BY <4>2, <4>3
    <3>2. ASSUME NEW j \in 1..Len(hole), In(c, hole[j]), ~In(c, b) PROVE Has(r, c)
      <4>1. CASE j = i
        <5>1. In(c, h) /\ r[i] = h BY <4>1, <3>2, <2>5, <2>10
        <5> QED BY <5>1, <2>5 DEF Has
      <4>2. CASE j # i
        <5>1. r[j] = hole[j] BY <4>2, <2>5
        <5> QED BY <5>1, <3>2, <2>5 DEF Has
      <4> QED BY <4>1, <4>2
    <3> QED BY <3>1, <3>2 DEF Has
  <2>12. Len(r) <= Len(hole) BY <2>5, <1>1
  <2> QED BY <2>9, <2>11, <2>12, <1>5, <1>7 DEF Has, r, b
<1> QED BY <1>9, <1>10
----------------------------------------------------------------------------
(* Memory, divided into holes and blocks.                                  *)

\* The clicks of the first m chunks; s and B have each of them once.
Known(c, m) == \E i \in 1..m : In(c, Chunks[i])
Layout(s, B, m) ==
  /\ Sorted(s, {})
  /\ B \subseteq Piece
  /\ \A c \in Int : \A b \in B : In(c, b) => ~Has(s, c)
  /\ \A c \in Int : \A a, b \in B : In(c, a) /\ In(c, b) => a = b
  /\ \A c \in Int : Known(c, m) <=> Has(s, c) \/ \E b \in B : In(c, b)

\* Pieces that have no click in common lie one behind the other.
LEMMA ApartClicks ==
  ASSUME NEW a \in Piece, NEW b \in Piece
  PROVE  Apart(a, b) <=> \A c \in Int : ~(In(c, a) /\ In(c, b))
<1>1. /\ a.base \in Nat /\ End(a) \in Nat /\ a.base < End(a)
      /\ b.base \in Nat /\ End(b) \in Nat /\ b.base < End(b)
  BY PieceFacts
<1>2. Apart(a, b) => \A c \in Int : ~(In(c, a) /\ In(c, b)) BY <1>1 DEF Apart, In
<1>3. ASSUME ~Apart(a, b) PROVE \E c \in Int : In(c, a) /\ In(c, b)
  <2>1. b.base < End(a) /\ a.base < End(b) BY <1>1, <1>3 DEF Apart
  <2>2. CASE a.base <= b.base
    <3>1. In(b.base, a) /\ In(b.base, b) BY <2>1, <2>2, <1>1 DEF In
    <3> QED BY <3>1, <1>1
  <2>3. CASE b.base < a.base
    <3>1. In(a.base, a) /\ In(a.base, b) BY <2>1, <2>3, <1>1 DEF In
    <3> QED BY <3>1, <1>1
  <2> QED BY <2>2, <2>3, <1>1
<1> QED BY <1>2, <1>3

\* The holes of a list, as pieces.
LEMMA HoleFacts ==
  ASSUME NEW s, Sorted(s, {})
  PROVE  /\ Len(s) \in Nat /\ DOMAIN s = 1..Len(s)
         /\ \A i \in 1..Len(s) : /\ s[i] \in Piece /\ s[i].base \in Nat \ {0} /\ s[i].len \in Nat \ {0}
                                 /\ End(s[i]) \in Nat /\ s[i].base < End(s[i])
         /\ \A i, j \in 1..Len(s) : i < j => End(s[i]) < s[j].base
<1>1. s \in Seq(Piece) BY DEF Sorted
<1>2. Len(s) \in Nat /\ DOMAIN s = 1..Len(s) /\ \A i \in 1..Len(s) : s[i] \in Piece BY <1>1
<1>3. \A i \in 1..Len(s) : /\ s[i].base \in Nat \ {0} /\ s[i].len \in Nat \ {0}
                           /\ End(s[i]) \in Nat /\ s[i].base < End(s[i])
  BY <1>2, PieceFacts
<1>4. ASSUME NEW i \in 1..Len(s), NEW j \in 1..Len(s), i < j PROVE End(s[i]) < s[j].base
  <2>1. End(s[i]) <= s[j].base /\ End(s[i]) # s[j].base BY <1>4 DEF Sorted
  <2> QED BY <2>1, <1>3
<1> QED BY <1>2, <1>3, <1>4

\* The chunks.
LEMMA ChunkFacts ==
  /\ Len(Chunks) \in Nat /\ NR_HOLES \in Nat \ {0} /\ NR_PROCS \in Nat \ {0}
  /\ NR_PROCS + Len(Chunks) <= NR_HOLES
  /\ \A i \in 1..Len(Chunks) : /\ Chunks[i] \in Piece /\ Chunks[i].base \in Nat \ {0}
                               /\ Chunks[i].len \in Nat \ {0}
                               /\ End(Chunks[i]) \in Nat /\ Chunks[i].base < End(Chunks[i])
  /\ \A i, j \in 1..Len(Chunks) : i # j => Apart(Chunks[i], Chunks[j])
<1>1. Chunks \in Seq(Piece) BY HolesAssumption DEF Piece
<1>2. Len(Chunks) \in Nat /\ DOMAIN Chunks = 1..Len(Chunks) /\ \A i \in 1..Len(Chunks) : Chunks[i] \in Piece
  BY <1>1
<1>3. \A i \in 1..Len(Chunks) : /\ Chunks[i].base \in Nat \ {0} /\ Chunks[i].len \in Nat \ {0}
                                /\ End(Chunks[i]) \in Nat /\ Chunks[i].base < End(Chunks[i])
  BY <1>2, PieceFacts
<1>4. \A i, j \in 1..Len(Chunks) : i # j => Apart(Chunks[i], Chunks[j])
  BY <1>2, HolesAssumption DEF Apart, End
<1> QED BY <1>2, <1>3, <1>4, HolesAssumption

\* A hole, or the front of it, becomes a block.
LEMMA TakeKeeps ==
  ASSUME NEW B, NEW m, Layout(hole, B, m), NEW i \in 1..Len(hole), NEW n \in Nat \ {0},
         hole[i].len >= n
  PROVE  LET b == [base |-> hole[i].base, len |-> n]
         IN  /\ Layout(Bite(i, n), B \cup {b}, m)
             /\ Len(Bite(i, n)) <= Len(hole)
             /\ b.base \in Nat \ {0}
             /\ \A a \in B : a.base # b.base
<1> DEFINE b == [base |-> hole[i].base, len |-> n]
<1>1. Sorted(hole, {}) BY DEF Layout
<1>2. /\ Sorted(Bite(i, n), {}) /\ Len(Bite(i, n)) <= Len(hole) /\ b \in Piece
      /\ \A c \in Int : Has(Bite(i, n), c) <=> Has(hole, c) /\ ~In(c, b)
      /\ \A c \in Int : In(c, b) => Has(hole, c)
  BY <1>1, BiteKeeps
<1> HIDE DEF b
<1>3. Layout(Bite(i, n), B \cup {b}, m)
  <2>1. B \cup {b} \subseteq Piece BY <1>2 DEF Layout
  <2>2. ASSUME NEW c \in Int, NEW a \in B \cup {b}, In(c, a) PROVE ~Has(Bite(i, n), c)
    BY <2>2, <1>2 DEF Layout
  <2>3. ASSUME NEW c \in Int, NEW a \in B \cup {b}, NEW d \in B \cup {b}, In(c, a), In(c, d) PROVE a = d
    BY <2>3, <1>2 DEF Layout
  <2>4. ASSUME NEW c \in Int
        PROVE  Known(c, m) <=> Has(Bite(i, n), c) \/ \E a \in B \cup {b} : In(c, a)
    <3>1. Known(c, m) <=> Has(hole, c) \/ \E a \in B : In(c, a) BY DEF Layout
    <3>2. \A a \in B : In(c, a) => ~In(c, b) BY <1>2 DEF Layout
    <3> QED BY <3>1, <3>2, <1>2
  <2> QED BY <2>1, <2>2, <2>3, <2>4, <1>2 DEF Layout
<1>4. b.base \in Nat \ {0} /\ In(b.base, b) BY <1>2, PieceFacts DEF In
<1>5. ASSUME NEW a \in B, a.base = b.base PROVE FALSE
  <2>1. a \in Piece BY DEF Layout
  <2>2. In(b.base, a) BY <2>1, <1>5, PieceFacts DEF In
  <2>3. Has(hole, b.base) BY <1>2, <1>4
  <2> QED BY <2>2, <2>3, <1>4 DEF Layout
<1> QED BY <1>2, <1>3, <1>4, <1>5 DEF b

\* A block becomes free.
LEMMA GiveKeeps ==
  ASSUME NEW s, NEW B, NEW m, Layout(s, B, m), NEW b \in B
  PROVE  /\ Layout(free_mem(s, b.base, b.len), B \ {b}, m)
         /\ Len(free_mem(s, b.base, b.len)) <= Len(s) + 1
<1> DEFINE r == free_mem(s, b.base, b.len)
<1>1. Sorted(s, {}) /\ b \in Piece BY DEF Layout
<1>2. ASSUME NEW i \in 1..Len(s) PROVE Apart(s[i], b)
  <2>1. s[i] \in Piece BY <1>1, HoleFacts
  <2>2. ASSUME NEW c \in Int, In(c, s[i]), In(c, b) PROVE FALSE
    <3>1. Has(s, c) BY <2>2 DEF Has
    <3> QED BY <3>1, <2>2 DEF Layout
  <2> QED BY <2>1, <2>2, <1>1, ApartClicks
<1>3. Sorted(r, {}) /\ Len(r) <= Len(s) + 1 /\ \A c \in Int : Has(r, c) <=> Has(s, c) \/ In(c, b)
  BY <1>1, <1>2, FreeKeeps
<1> HIDE DEF r
<1>4. Layout(r, B \ {b}, m)
  <2>1. ASSUME NEW c \in Int, NEW a \in B \ {b}, In(c, a) PROVE ~Has(r, c)
    <3>1. ~In(c, b) /\ ~Has(s, c) BY <2>1 DEF Layout
    <3> QED BY <3>1, <1>3
  <2>2. ASSUME NEW c \in Int PROVE Known(c, m) <=> Has(r, c) \/ \E a \in B \ {b} : In(c, a)
    <3>1. Known(c, m) <=> Has(s, c) \/ \E a \in B : In(c, a) BY DEF Layout
    <3> QED BY <3>1, <1>3
  <2> QED BY <2>1, <2>2, <1>3 DEF Layout
<1> QED BY <1>3, <1>4 DEF r

\* A chunk becomes known.
LEMMA GrowKeeps ==
  ASSUME NEW B, NEW m \in 0..Len(Chunks), m < Len(Chunks), Layout(hole, B, m)
  PROVE  LET r == free_mem(hole, Chunks[m+1].base, Chunks[m+1].len)
         IN  Layout(r, B, m + 1) /\ Len(r) <= Len(hole) + 1
<1> DEFINE b == Chunks[m+1]
           r == free_mem(hole, b.base, b.len)
<1>0. m \in Nat /\ m + 1 \in 1..Len(Chunks) BY ChunkFacts
<1>1. Sorted(hole, {}) /\ b \in Piece BY <1>0, ChunkFacts DEF Layout
<1>2. ASSUME NEW c \in Int, In(c, b) PROVE ~Known(c, m)
  <2> SUFFICES ASSUME NEW i \in 1..m, In(c, Chunks[i]) PROVE FALSE BY DEF Known
  <2>1. i \in 1..Len(Chunks) /\ i # m + 1 BY <1>0, ChunkFacts
  <2>2. Apart(Chunks[i], b) /\ Chunks[i] \in Piece BY <2>1, <1>0, ChunkFacts
  <2> HIDE DEF b
  <2> QED BY <2>2, <1>1, <1>2, ApartClicks
<1>3. \A c \in Int : Known(c, m + 1) <=> Known(c, m) \/ In(c, b)
  <2>1. 1..m+1 = 1..m \cup {m+1} BY <1>0
  <2> QED BY <2>1 DEF Known
<1> HIDE DEF b
<1>4. ASSUME NEW i \in 1..Len(hole) PROVE Apart(hole[i], b)
  <2>1. hole[i] \in Piece BY <1>1, HoleFacts
  <2>2. ASSUME NEW c \in Int, In(c, hole[i]), In(c, b) PROVE FALSE
    <3>1. Has(hole, c) BY <2>2 DEF Has
    <3> QED BY <3>1, <2>2, <1>2 DEF Layout
  <2> QED BY <2>1, <2>2, <1>1, ApartClicks
<1>5. /\ Sorted(r, {}) /\ Len(r) <= Len(hole) + 1
      /\ \A c \in Int : Has(r, c) <=> Has(hole, c) \/ In(c, b)
  BY <1>1, <1>4, FreeKeeps
<1> HIDE DEF r
<1>6. Layout(r, B, m + 1)
  <2>1. ASSUME NEW c \in Int, NEW a \in B, In(c, a) PROVE ~Has(r, c)
    <3>1. ~Has(hole, c) /\ Known(c, m) BY <2>1 DEF Layout
    <3> QED BY <3>1, <1>2, <1>5
  <2>2. ASSUME NEW c \in Int PROVE Known(c, m + 1) <=> Has(r, c) \/ \E a \in B : In(c, a)
    <3>1. Known(c, m) <=> Has(hole, c) \/ \E a \in B : In(c, a) BY DEF Layout
    <3> QED BY <3>1, <1>3, <1>5
  <2> QED BY <2>1, <2>2, <1>5 DEF Layout
<1> QED BY <1>5, <1>6 DEF r, b

\* Each hole ends where a chunk ends or where a block begins: there are no more
\* of them than blocks and chunks.
LEMMA HolesCounted ==
  ASSUME NEW s, NEW B, NEW m \in 0..Len(Chunks), Layout(s, B, m),
         NEW I, IsFiniteSet(I), \A b \in B : b.base \in I
  PROVE  Len(s) <= Cardinality(I) + m
<1> DEFINE f == [i \in 1..Len(s) |-> End(s[i])]
           g == [i \in 1..m |-> End(Chunks[i])]
           E == {End(Chunks[i]) : i \in 1..m}
<1>0. m \in Nat /\ m <= Len(Chunks) /\ Len(Chunks) \in Nat BY ChunkFacts
<1>1. /\ Sorted(s, {}) /\ Len(s) \in Nat
      /\ \A i \in 1..Len(s) : s[i].base \in Nat /\ End(s[i]) \in Nat /\ s[i].base < End(s[i])
      /\ \A i, j \in 1..Len(s) : i < j => End(s[i]) < s[j].base
  BY HoleFacts DEF Layout
<1>2. ASSUME NEW i \in 1..Len(s) PROVE End(s[i]) \in I \cup E
  <2> DEFINE e == End(s[i])
  <2>1. e \in Int /\ e - 1 \in Int /\ In(e - 1, s[i]) BY <1>1 DEF In
  <2>2. Has(s, e - 1) BY <2>1 DEF Has
  <2>3. ~Has(s, e)
    <3> SUFFICES ASSUME NEW j \in 1..Len(s), In(e, s[j]) PROVE FALSE BY DEF Has
    <3>1. CASE i < j
      <4>1. End(s[i]) < s[j].base BY <3>1, <1>1
      <4> QED BY <4>1, <1>1 DEF In
    <3>2. CASE j < i
      <4>1. End(s[j]) < s[i].base BY <3>2, <1>1
      <4> QED BY <4>1, <1>1 DEF In
    <3>3. CASE j = i BY <3>3, <1>1 DEF In
    <3> QED BY <3>1, <3>2, <3>3, <1>1
  <2>4. PICK c \in 1..m : In(e - 1, Chunks[c]) BY <2>1, <2>2 DEF Layout, Known
  <2>5. /\ c \in 1..Len(Chunks) /\ Chunks[c].base \in Nat /\ End(Chunks[c]) \in Nat
        /\ Chunks[c].base < End(Chunks[c])
    BY <1>0, ChunkFacts
  <2> HIDE DEF e
  <2>6. CASE e = End(Chunks[c]) BY <2>6 DEF e
  <2>7. CASE e # End(Chunks[c])
    <3>1. In(e, Chunks[c]) BY <2>1, <2>4, <2>5, <2>7 DEF In
    <3>2. Known(e, m) BY <3>1 DEF Known
    <3>3. PICK b \in B : In(e, b) BY <3>2, <2>1, <2>3 DEF Layout
    <3>4. ~In(e - 1, b) BY <2>1, <2>2 DEF Layout
    <3>5. b \in Piece BY DEF Layout
    <3>6. b.base \in Nat /\ End(b) \in Nat BY <3>5, PieceFacts
    <3>7. e = b.base BY <3>3, <3>4, <3>6, <2>1 DEF In
    <3> QED BY <3>7 DEF e
  <2> QED BY <2>6, <2>7
<1>3. f \in Injection(1..Len(s), I \cup E)
  <2>1. f \in [1..Len(s) -> I \cup E] BY <1>2
  <2>2. ASSUME NEW i \in 1..Len(s), NEW j \in 1..Len(s), f[i] = f[j] PROVE i = j
    <3>1. End(s[i]) = End(s[j]) BY <2>2
    <3>2. i < j => End(s[i]) < End(s[j])
      <4>1. i < j => End(s[i]) < s[j].base BY <1>1
      <4> QED BY <4>1, <1>1
    <3>3. j < i => End(s[j]) < End(s[i])
      <4>1. j < i => End(s[j]) < s[i].base BY <1>1
      <4> QED BY <4>1, <1>1
    <3> QED BY <3>1, <3>2, <3>3, <1>1
  <2>3. DOMAIN f = 1..Len(s) OBVIOUS
  <2> HIDE DEF f
  <2> QED BY <2>1, <2>2, <2>3 DEF Injection, IsInjective
<1>4. IsFiniteSet(1..m) /\ Cardinality(1..m) = m
  <2>1. IsFiniteSet(1..m) /\ Cardinality(1..m) = IF 1 > m THEN 0 ELSE m - 1 + 1 BY <1>0, FS_Interval
  <2> QED BY <2>1, <1>0
<1>5. IsFiniteSet(E) /\ Cardinality(E) <= m
  <2>1. g \in Surjection(1..m, E) BY DEF Surjection
  <2> HIDE DEF E, g
  <2> QED BY <2>1, <1>4, FS_Surjection
<1> HIDE DEF E, f
<1>6. /\ IsFiniteSet(I \cup E)
      /\ Cardinality(I \cup E) = Cardinality(I) + Cardinality(E) - Cardinality(I \cap E)
  BY <1>5, FS_Union
<1>7. IsFiniteSet(I \cap E)
  <2>1. I \cap E \in SUBSET I OBVIOUS
  <2> QED BY <2>1, FS_Subset
<1>8. /\ Cardinality(I) \in Nat /\ Cardinality(E) \in Nat /\ Cardinality(I \cap E) \in Nat
      /\ Cardinality(I \cup E) \in Nat
  BY <1>5, <1>6, <1>7, FS_CardinalityType
<1>9. Cardinality(1..Len(s)) = Len(s)
  <2>0. 1 \in Int /\ Len(s) \in Int BY <1>1
  <2>1. Cardinality(1..Len(s)) = IF 1 > Len(s) THEN 0 ELSE Len(s) - 1 + 1 BY <2>0, FS_Interval
  <2> QED BY <2>1, <1>1
<1>10. Len(s) <= Cardinality(I \cup E) BY <1>3, <1>6, <1>9, FS_Injection
<1> QED BY <1>0, <1>1, <1>5, <1>6, <1>8, <1>10
----------------------------------------------------------------------------
(* Programs.                                                               *)

\* The images of p, and the blocks they are in.
ImagesOf(p) == DOMAIN p \cup UNION {p[h].shadows : h \in DOMAIN p}
HomeOf(p, h) == [base |-> h, len |-> p[h].text + p[h].data]
ShadowOf(p, h, s) == [base |-> s, len |-> p[h].data]
BlocksOf(p) ==
  {HomeOf(p, h) : h \in DOMAIN p \ {InitHome}}
  \cup UNION {{ShadowOf(p, h, s) : s \in p[h].shadows} : h \in DOMAIN p}

\* Every image has an address of its own.
Program == [text : Nat, data : Nat \ {0}, shadows : SUBSET (Nat \ {0})]
ProgsOK(p) ==
  /\ InitHome \in DOMAIN p
  /\ DOMAIN p \subseteq Nat
  /\ \A h \in DOMAIN p : /\ p[h] \in Program
                         /\ \A g \in DOMAIN p : /\ g \notin p[h].shadows
                                                /\ g # h => p[g].shadows \cap p[h].shadows = {}

\* The images and blocks of the state.
LEMMA ImagesBlocks == Images = ImagesOf(prog) /\ Blocks = BlocksOf(prog)
BY DEF Images, ImagesOf, Blocks, BlocksOf, HomeOf, ShadowOf

\* What is in these sets, and where.
LEMMA BlockFacts ==
  ASSUME NEW p
  PROVE  /\ \A b : b \in BlocksOf(p) <=> \/ \E h \in DOMAIN p \ {InitHome} : b = HomeOf(p, h)
                                         \/ \E h \in DOMAIN p : \E s \in p[h].shadows : b = ShadowOf(p, h, s)
         /\ \A x : x \in ImagesOf(p) <=> x \in DOMAIN p \/ \E h \in DOMAIN p : x \in p[h].shadows
         /\ \A h : HomeOf(p, h).base = h
         /\ \A h, s : ShadowOf(p, h, s).base = s
BY DEF BlocksOf, ImagesOf, HomeOf, ShadowOf

\* The addresses of the blocks are those of the images, without INIT's.
LEMMA BlocksAreImages ==
  ASSUME NEW p, ProgsOK(p)
  PROVE  /\ \A b \in BlocksOf(p) : b.base \in ImagesOf(p) \ {InitHome}
         /\ \A x \in ImagesOf(p) \ {InitHome} : \E b \in BlocksOf(p) : b.base = x
<1>1. ASSUME NEW b \in BlocksOf(p) PROVE b.base \in ImagesOf(p) \ {InitHome}
  <2>1. CASE \E h \in DOMAIN p \ {InitHome} : b = HomeOf(p, h) BY <2>1, BlockFacts
  <2>2. CASE \E h \in DOMAIN p : \E s \in p[h].shadows : b = ShadowOf(p, h, s)
    <3>0. PICK h \in DOMAIN p : \E s \in p[h].shadows : b = ShadowOf(p, h, s) BY <2>2
    <3>1. PICK s \in p[h].shadows : b = ShadowOf(p, h, s) BY <3>0
    <3>2. b.base = s BY <3>1, BlockFacts
    <3>3. s # InitHome
      <4>1. p[h].shadows \subseteq Nat \ {0} BY DEF ProgsOK, Program
      <4> QED BY <4>1 DEF InitHome
    <3>4. s \in ImagesOf(p) BY BlockFacts
    <3> QED BY <3>2, <3>3, <3>4
  <2> QED BY <2>1, <2>2, BlockFacts
<1>2. ASSUME NEW x \in ImagesOf(p) \ {InitHome} PROVE \E b \in BlocksOf(p) : b.base = x
  <2>1. CASE x \in DOMAIN p
    <3>1. HomeOf(p, x) \in BlocksOf(p) /\ HomeOf(p, x).base = x BY <2>1, BlockFacts
    <3> QED BY <3>1
  <2>2. CASE \E h \in DOMAIN p : x \in p[h].shadows
    <3>1. PICK h \in DOMAIN p : x \in p[h].shadows BY <2>2
    <3>2. ShadowOf(p, h, x) \in BlocksOf(p) /\ ShadowOf(p, h, x).base = x BY <3>1, BlockFacts
    <3> QED BY <3>2
  <2> QED BY <2>1, <2>2, BlockFacts
<1> QED BY <1>1, <1>2

\* q is p with one more shadow, with one more program.
Forked(p, q, h, x) ==
  /\ DOMAIN q = DOMAIN p
  /\ \A g \in DOMAIN p : /\ q[g] \in Program
                         /\ q[g].text = p[g].text /\ q[g].data = p[g].data
                         /\ q[g].shadows = IF g = h THEN p[g].shadows \cup {x} ELSE p[g].shadows
Loaded(p, q, x, t, d) ==
  /\ DOMAIN q = DOMAIN p \cup {x}
  /\ \A g \in DOMAIN p : q[g] = p[g]
  /\ q[x] = [text |-> t, data |-> d, shadows |-> {}]

\* FORK: one more shadow.
LEMMA ForkProg ==
  ASSUME NEW p, ProgsOK(p), NEW h \in DOMAIN p, NEW x \in Nat \ {0}, x \notin ImagesOf(p),
         NEW q, Forked(p, q, h, x)
  PROVE  /\ ProgsOK(q)
         /\ ImagesOf(q) = ImagesOf(p) \cup {x}
         /\ BlocksOf(q) = BlocksOf(p) \cup {[base |-> x, len |-> p[h].data]}
<1>2. /\ DOMAIN q = DOMAIN p
      /\ \A g \in DOMAIN p : /\ q[g] \in Program
                             /\ q[g].text = p[g].text /\ q[g].data = p[g].data
                             /\ q[g].shadows = IF g = h THEN p[g].shadows \cup {x} ELSE p[g].shadows
  BY DEF Forked
<1>3. \A g \in DOMAIN p : x # g /\ x \notin p[g].shadows BY BlockFacts
<1>4. ProgsOK(q)
  <2>1. InitHome \in DOMAIN q /\ DOMAIN q \subseteq Nat BY <1>2 DEF ProgsOK
  <2>2. ASSUME NEW f \in DOMAIN p, NEW g \in DOMAIN p
        PROVE  g \notin q[f].shadows /\ (g # f => q[g].shadows \cap q[f].shadows = {})
    <3>1. g \notin p[f].shadows /\ (g # f => p[g].shadows \cap p[f].shadows = {}) BY DEF ProgsOK
    <3>2. x # g /\ x \notin p[g].shadows /\ x \notin p[f].shadows BY <1>3
    <3> QED BY <3>1, <3>2, <1>2
  <2> QED BY <2>1, <2>2, <1>2 DEF ProgsOK
<1>5. ASSUME NEW y PROVE y \in ImagesOf(q) <=> y \in ImagesOf(p) \/ y = x
  <2>1. y \in ImagesOf(q) <=> y \in DOMAIN p \/ \E g \in DOMAIN p : y \in q[g].shadows BY <1>2, BlockFacts
  <2>2. (\E g \in DOMAIN p : y \in q[g].shadows) <=> y = x \/ \E g \in DOMAIN p : y \in p[g].shadows
    BY <1>2
  <2> QED BY <2>1, <2>2, BlockFacts
<1>6. \A g \in DOMAIN p : HomeOf(q, g) = HomeOf(p, g) BY <1>2 DEF HomeOf
<1>7. \A g \in DOMAIN p : \A s : ShadowOf(q, g, s) = ShadowOf(p, g, s) BY <1>2 DEF ShadowOf
<1>8. ASSUME NEW b PROVE b \in BlocksOf(q) <=> b \in BlocksOf(p) \/ b = ShadowOf(p, h, x)
  <2>0. b \in BlocksOf(q) <=> \/ \E g \in DOMAIN q \ {InitHome} : b = HomeOf(q, g)
                              \/ \E g \in DOMAIN q : \E s \in q[g].shadows : b = ShadowOf(q, g, s)
    BY BlockFacts
  <2>1. b \in BlocksOf(q) <=> \/ \E g \in DOMAIN p \ {InitHome} : b = HomeOf(p, g)
                              \/ \E g \in DOMAIN p : \E s \in q[g].shadows : b = ShadowOf(p, g, s)
    BY <2>0, <1>2, <1>6, <1>7
  <2>2. (\E g \in DOMAIN p : \E s \in q[g].shadows : b = ShadowOf(p, g, s)) <=>
          b = ShadowOf(p, h, x) \/ \E g \in DOMAIN p : \E s \in p[g].shadows : b = ShadowOf(p, g, s)
    BY <1>2
  <2> QED BY <2>1, <2>2, BlockFacts
<1>9. BlocksOf(q) = BlocksOf(p) \cup {ShadowOf(p, h, x)} BY <1>8
<1>10. ImagesOf(q) = ImagesOf(p) \cup {x} BY <1>5
<1> QED BY <1>4, <1>9, <1>10 DEF ShadowOf

\* EXEC: one more program.
LEMMA LoadProg ==
  ASSUME NEW p, ProgsOK(p), NEW x \in Nat \ {0}, x \notin ImagesOf(p), NEW t \in Nat, NEW d \in Nat \ {0},
         NEW q, Loaded(p, q, x, t, d)
  PROVE  /\ ProgsOK(q)
         /\ ImagesOf(q) = ImagesOf(p) \cup {x}
         /\ BlocksOf(q) = BlocksOf(p) \cup {[base |-> x, len |-> t + d]}
<1>1. \A g \in DOMAIN p : x # g /\ x \notin p[g].shadows BY BlockFacts
<1>2. DOMAIN q = DOMAIN p \cup {x} /\ \A g \in DOMAIN p : q[g] = p[g] BY DEF Loaded
<1>3. q[x].shadows = {} /\ q[x].text = t /\ q[x].data = d BY DEF Loaded
<1>4. q[x] \in Program BY DEF Program, Loaded
<1>5. ProgsOK(q) BY <1>1, <1>2, <1>3, <1>4 DEF ProgsOK, InitHome
<1>6. ASSUME NEW y PROVE y \in ImagesOf(q) <=> y \in ImagesOf(p) \/ y = x
  BY <1>2, <1>3, BlockFacts
<1>7. \A g \in DOMAIN p : HomeOf(q, g) = HomeOf(p, g) BY <1>2 DEF HomeOf
<1>8. \A g \in DOMAIN p : \A s : ShadowOf(q, g, s) = ShadowOf(p, g, s) BY <1>2 DEF ShadowOf
<1>9. HomeOf(q, x) = [base |-> x, len |-> t + d] BY <1>3 DEF HomeOf
<1>10. ASSUME NEW b PROVE b \in BlocksOf(q) <=> b \in BlocksOf(p) \/ b = HomeOf(q, x)
  <2>1. (\E g \in DOMAIN q \ {InitHome} : b = HomeOf(q, g)) <=>
          b = HomeOf(q, x) \/ \E g \in DOMAIN p \ {InitHome} : b = HomeOf(p, g)
    BY <1>2, <1>7 DEF InitHome
  <2>2. (\E g \in DOMAIN q : \E s \in q[g].shadows : b = ShadowOf(q, g, s)) <=>
          \E g \in DOMAIN p : \E s \in p[g].shadows : b = ShadowOf(p, g, s)
    BY <1>2, <1>3, <1>8
  <2>3. b \in BlocksOf(q) <=> \/ \E g \in DOMAIN q \ {InitHome} : b = HomeOf(q, g)
                              \/ \E g \in DOMAIN q : \E s \in q[g].shadows : b = ShadowOf(q, g, s)
    BY BlockFacts
  <2> QED BY <2>1, <2>2, <2>3, BlockFacts
<1>11. BlocksOf(q) = BlocksOf(p) \cup {HomeOf(q, x)} BY <1>10
<1>12. ImagesOf(q) = ImagesOf(p) \cup {x} BY <1>6
<1> QED BY <1>5, <1>9, <1>11, <1>12

\* EXIT and EXEC, unless a shared text is freed: the block that the kernel names
\* is one, and no image is in it any more.
LEMMA LeaveProg ==
  ASSUME ProgsOK(prog), NEW h \in DOMAIN prog, Leaves(h), NEW b \in Freed(h), ~Stray(h)
  PROVE  /\ b \in BlocksOf(prog)
         /\ ProgsOK(Leave(h, b))
         /\ ImagesOf(Leave(h, b)) = ImagesOf(prog) \ {b.base}
         /\ BlocksOf(Leave(h, b)) = BlocksOf(prog) \ {b}
<1> DEFINE p == prog
           q == Leave(h, b)
<1>1. \A g \in DOMAIN p : /\ p[g] \in Program
                          /\ p[g].text \in Nat /\ p[g].data \in Nat \ {0} /\ p[g].shadows \subseteq Nat \ {0}
  BY DEF ProgsOK, Program
<1>2. \A f, g \in DOMAIN p : f \notin p[g].shadows /\ (f # g => p[f].shadows \cap p[g].shadows = {})
  BY DEF ProgsOK
<1>3. CASE p[h].shadows # {}
  <2>1. PICK s \in p[h].shadows : b = ShadowOf(p, h, s) BY <1>3 DEF Freed, ShadowOf
  <2>2. b.base = s /\ b \in BlocksOf(p) BY <2>1, BlockFacts
  <2>3. q = [p EXCEPT ![h].shadows = @ \ {s}] BY <1>3, <2>2 DEF Leave
  <2>4. /\ DOMAIN q = DOMAIN p
        /\ \A g \in DOMAIN p : /\ q[g] \in Program
                               /\ q[g].text = p[g].text /\ q[g].data = p[g].data
                               /\ q[g].shadows = p[g].shadows \ {s}
    <3>1. DOMAIN q = DOMAIN p BY <2>3
    <3>2. ASSUME NEW g \in DOMAIN p
          PROVE  /\ q[g] \in Program
                 /\ q[g].text = p[g].text /\ q[g].data = p[g].data
                 /\ q[g].shadows = p[g].shadows \ {s}
      <4>1. q[g] = IF g = h THEN [p[g] EXCEPT !.shadows = p[g].shadows \ {s}] ELSE p[g] BY <2>3
      <4>2. g # h => s \notin p[g].shadows BY <1>2
      <4> HIDE DEF q, p
      <4>3. CASE g = h BY <4>1, <4>3, <1>1 DEF Program
      <4>4. CASE g # h BY <4>1, <4>2, <4>4, <1>1 DEF Program
      <4> QED BY <4>3, <4>4
    <3> QED BY <3>1, <3>2
  <2> HIDE DEF q
  <2>5. ProgsOK(q) BY <1>2, <2>4 DEF ProgsOK
  <2>6. s \notin DOMAIN p BY <1>2
  <2>7. ImagesOf(q) = ImagesOf(p) \ {s}
    <3> HIDE DEF p
    <3>1. ASSUME NEW y PROVE y \in ImagesOf(q) <=> y \in ImagesOf(p) /\ y # s
      BY <2>4, <2>6, BlockFacts
    <3> QED BY <3>1
  <2>8. \A g \in DOMAIN p : HomeOf(q, g) = HomeOf(p, g) BY <2>4 DEF HomeOf
  <2>9. \A g \in DOMAIN p : \A r : ShadowOf(q, g, r) = ShadowOf(p, g, r) BY <2>4 DEF ShadowOf
  <2>10. ASSUME NEW c PROVE c \in BlocksOf(q) <=> c \in BlocksOf(p) /\ c # b
    <3> HIDE DEF p
    <3>1. (\E g \in DOMAIN q \ {InitHome} : c = HomeOf(q, g)) <=>
            \E g \in DOMAIN p \ {InitHome} : c = HomeOf(p, g)
      BY <2>4, <2>8
    <3>2. (\E g \in DOMAIN p \ {InitHome} : c = HomeOf(p, g)) => c # b BY <2>2, <2>6, BlockFacts
    <3>3. ASSUME NEW g \in DOMAIN p, NEW r \in p[g].shadows, r # s PROVE ShadowOf(p, g, r) # b
      BY <3>3, <2>2, BlockFacts
    <3>4. (\E g \in DOMAIN q : \E r \in q[g].shadows : c = ShadowOf(q, g, r)) <=>
            \E g \in DOMAIN p : \E r \in p[g].shadows : r # s /\ c = ShadowOf(p, g, r)
      BY <2>4, <2>9
    <3>5. ASSUME NEW g \in DOMAIN p, s \in p[g].shadows PROVE ShadowOf(p, g, s) = b
      <4>1. g = h BY <3>5, <1>2 DEF p
      <4> QED BY <4>1, <2>1
    <3> QED BY <3>1, <3>2, <3>3, <3>4, <3>5, BlockFacts
  <2>11. BlocksOf(q) = BlocksOf(p) \ {b} BY <2>10
  <2> QED BY <2>2, <2>5, <2>7, <2>11 DEF q
<1>4. CASE p[h].shadows = {}
  <2>1. b = HomeOf(p, h)
    <3>0. Freed(h) = {Home(h)} BY <1>4 DEF Stray
    <3>1. b = [base |-> h, len |-> p[h].data + p[h].text] BY <3>0 DEF Home
    <3>2. p[h].data + p[h].text = p[h].text + p[h].data BY <1>1
    <3> QED BY <3>1, <3>2 DEF HomeOf
  <2>2. h # InitHome BY <1>4 DEF Leaves
  <2>3. b.base = h /\ b \in BlocksOf(p) BY <2>1, <2>2, BlockFacts
  <2>4. q = [g \in DOMAIN p \ {h} |-> p[g]] BY <1>4 DEF Leave
  <2>5. DOMAIN q = DOMAIN p \ {h} /\ \A g \in DOMAIN p \ {h} : q[g] = p[g] BY <2>4
  <2> HIDE DEF q
  <2>6. ProgsOK(q) BY <2>2, <2>5 DEF ProgsOK
  <2>7. ImagesOf(q) = ImagesOf(p) \ {h}
    <3>1. \A g \in DOMAIN p : h \notin p[g].shadows BY <1>2
    <3> HIDE DEF p
    <3>2. ASSUME NEW y PROVE y \in ImagesOf(q) <=> y \in ImagesOf(p) /\ y # h
      BY <3>1, <2>5, <1>4, BlockFacts
    <3> QED BY <3>2
  <2>8. \A g \in DOMAIN q : HomeOf(q, g) = HomeOf(p, g) BY <2>5 DEF HomeOf
  <2>9. \A g \in DOMAIN q : \A r : ShadowOf(q, g, r) = ShadowOf(p, g, r) BY <2>5 DEF ShadowOf
  <2>10. ASSUME NEW c PROVE c \in BlocksOf(q) <=> c \in BlocksOf(p) /\ c # b
    <3>1. ASSUME NEW g \in DOMAIN p, NEW r \in p[g].shadows PROVE ShadowOf(p, g, r) # b
      <4>1. r # h BY <1>2
      <4> QED BY <4>1, <2>3, BlockFacts
    <3> HIDE DEF p
    <3>2. (\E g \in DOMAIN q \ {InitHome} : c = HomeOf(q, g)) <=>
            \E g \in DOMAIN p \ {InitHome} : c = HomeOf(p, g) /\ c # b
      <4>1. \A g \in DOMAIN p : HomeOf(p, g) = b <=> g = h BY <2>1, BlockFacts
      <4> QED BY <4>1, <2>5, <2>8
    <3>3. (\E g \in DOMAIN q : \E r \in q[g].shadows : c = ShadowOf(q, g, r)) <=>
            \E g \in DOMAIN p : \E r \in p[g].shadows : c = ShadowOf(p, g, r)
      BY <2>5, <2>9, <1>4
    <3> QED BY <3>1, <3>2, <3>3, BlockFacts
  <2>11. BlocksOf(q) = BlocksOf(p) \ {b} BY <2>10
  <2> QED BY <2>3, <2>6, <2>7, <2>11 DEF q
<1> QED BY <1>3, <1>4
----------------------------------------------------------------------------
(* The inductive invariant.                                                *)

\* Every program has a text.
Segment == [file : Files \cup {NoFile}, base : Nat, len : Nat]
SegsOK(s, D) == DOMAIN s = D /\ \A h \in D : s[h] \in Segment

IInv ==
  /\ ProgsOK(prog)
  /\ SegsOK(seg, DOMAIN prog)
  /\ IsFiniteSet(Images) /\ Procs <= NR_PROCS
  /\ reported \in 0..Len(Chunks)
  /\ Layout(hole, Blocks, reported)
  /\ panicked = FALSE

\* There is a free slot in the hole table.
LEMMA Room ==
  ASSUME IInv
  PROVE  Procs \in Nat /\ Len(hole) \in Nat /\ Len(hole) < NR_HOLES
<1> DEFINE I == Images \ {InitHome}
<1>1. InitHome \in Images BY DEF IInv, ProgsOK, Images
<1>2. IsFiniteSet(Images) BY DEF IInv
<1>3. Cardinality(Images) \in Nat BY <1>2, FS_CardinalityType
<1>4. IsFiniteSet(I) /\ Cardinality(I) = Cardinality(Images) - 1
  <2>1. /\ IsFiniteSet(Images \ {InitHome})
        /\ Cardinality(Images \ {InitHome}) =
             IF InitHome \in Images THEN Cardinality(Images) - 1 ELSE Cardinality(Images)
    BY <1>2, FS_RemoveElement
  <2> QED BY <2>1, <1>1
<1>5. \A b \in Blocks : b.base \in I BY ImagesBlocks, BlocksAreImages DEF IInv
<1> HIDE DEF I
<1>6. reported \in 0..Len(Chunks) /\ Layout(hole, Blocks, reported) BY DEF IInv
<1>7. Len(hole) <= Cardinality(I) + reported BY <1>4, <1>5, <1>6, HolesCounted
<1>8. Sorted(hole, {}) BY <1>6 DEF Layout
<1>9. Len(hole) \in Nat BY <1>8, HoleFacts
<1>10. Cardinality(Images) <= NR_PROCS BY DEF IInv, Procs
<1>11. Len(hole) < NR_HOLES BY <1>3, <1>4, <1>6, <1>7, <1>9, <1>10, ChunkFacts
<1> QED BY <1>3, <1>9, <1>11 DEF Procs

\* The first fit is one.
LEMMA FitFacts ==
  ASSUME Sorted(hole, {}), NEW n \in Nat \ {0}
  PROVE  /\ Fits(n) # {} => FirstFit(n) \in 1..Len(hole) /\ hole[FirstFit(n)].len >= n
         /\ n <= max_hole => Fits(n) # {}
<1>1. /\ DOMAIN hole = 1..Len(hole) /\ Len(hole) \in Nat
      /\ \A i \in 1..Len(hole) : /\ hole[i].base \in Nat /\ hole[i].len \in Nat \ {0}
                                 /\ End(hole[i]) \in Nat /\ hole[i].base < End(hole[i])
      /\ \A i, j \in 1..Len(hole) : i < j => End(hole[i]) < hole[j].base
  BY HoleFacts
<1>2. ASSUME Fits(n) # {} PROVE FirstFit(n) \in 1..Len(hole) /\ hole[FirstFit(n)].len >= n
  <2>1. Fits(n) \in SUBSET Nat BY <1>1 DEF Fits
  <2>2. \E i \in Fits(n) : \A j \in Fits(n) : i <= j BY <1>2, <2>1, LeastOfNat
  <2>3. FirstFit(n) \in Fits(n) BY <2>2 DEF FirstFit
  <2> QED BY <2>3, <1>1 DEF Fits
<1>3. ASSUME n <= max_hole PROVE Fits(n) # {}
  <2> DEFINE S == {0} \cup {hole[i].len : i \in DOMAIN hole}
             U == {u \in Nat : \A x \in S : x <= u}
  <2>1. S \subseteq Nat BY <1>1
  <2>2. U # {}
    <3>1. CASE Len(hole) = 0
      <4>1. S = {0} BY <3>1, <1>1
      <4> QED BY <4>1
    <3>2. CASE Len(hole) # 0
      <4> DEFINE z == Len(hole)
      <4>1. z \in 1..Len(hole) BY <3>2, <1>1
      <4>2. ASSUME NEW i \in 1..Len(hole) PROVE hole[i].len <= End(hole[z])
        <5>1. hole[i].len <= End(hole[i])
          <6>1. End(hole[i]) = hole[i].base + hole[i].len BY DEF End
          <6> QED BY <6>1, <1>1
        <5>2. CASE i = z BY <5>1, <5>2
        <5>3. CASE i # z
          <6>0. i < z
            <7>1. i \in Int /\ Len(hole) \in Int /\ i <= Len(hole) BY <1>1
            <7> QED BY <7>1, <5>3
          <6>1. End(hole[i]) < hole[z].base BY <6>0, <4>1, <1>1
          <6> QED BY <6>1, <5>1, <4>1, <1>1
        <5> QED BY <5>2, <5>3
      <4>3. End(hole[z]) \in Nat BY <4>1, <1>1
      <4>4. \A x \in S : x <= End(hole[z]) BY <4>2, <4>3, <1>1
      <4> QED BY <4>3, <4>4
    <3> QED BY <3>1, <3>2
  <2>3. \E x \in S : \A y \in S : x >= y
    <3>1. PICK u \in U : \A v \in U : u <= v
      <4>1. U \in SUBSET Nat OBVIOUS
      <4> HIDE DEF U
      <4> QED BY <4>1, <2>2, LeastOfNat
    <3>2. u \in Nat /\ \A x \in S : x <= u OBVIOUS
    <3>3. CASE u \in S BY <3>2, <3>3, <2>1
    <3>4. CASE u \notin S
      <4>1. u # 0 BY <3>4
      <4>2. u - 1 \in Nat /\ ~(u <= u - 1) BY <3>2, <4>1
      <4>3. ASSUME NEW x \in S PROVE x <= u - 1
        <5>1. x # u /\ x \in Nat /\ x <= u BY <3>2, <3>4, <2>1
        <5> QED BY <5>1, <3>2
      <4>4. u - 1 \in U BY <4>2, <4>3
      <4> QED BY <4>2, <4>4, <3>1
    <3> QED BY <3>3, <3>4
  <2>4. Max(S) \in S BY <2>3 DEF Max
  <2>5. max_hole \in S BY <2>4 DEF max_hole
  <2>6. max_hole # 0 BY <1>3
  <2>7. PICK i \in DOMAIN hole : max_hole = hole[i].len BY <2>5, <2>6
  <2> QED BY <2>7, <1>3, <1>1 DEF Fits
<1> QED BY <1>2, <1>3

----------------------------------------------------------------------------
(* The actions.                                                            *)

\* The invariant, as long as no shared text is freed.
Inv == panicked = FALSE /\ (~astray => IInv)

\* At first INIT alone is in memory, and the list is empty.
LEMMA InitInv == Init => Inv
<1> SUFFICES ASSUME Init PROVE IInv BY DEF Inv, IInv
<1>1. PICK d \in Sizes : prog = [h \in {InitHome} |-> [text |-> 0, data |-> d, shadows |-> {}]] BY DEF Init
<1>2. d \in Nat \ {0} BY HolesAssumption
<1>3. /\ DOMAIN prog = {InitHome} /\ prog[InitHome] = [text |-> 0, data |-> d, shadows |-> {}]
      /\ prog[InitHome].shadows = {}
  BY <1>1
<1>4. ProgsOK(prog)
  <2>1. prog[InitHome] \in Program BY <1>2, <1>3 DEF Program
  <2> QED BY <2>1, <1>3 DEF ProgsOK, InitHome
<1>5. Images = {InitHome} BY <1>3 DEF Images
<1>6. Blocks = {} BY <1>3 DEF Blocks
<1>7. IsFiniteSet(Images) /\ Procs = 1 BY <1>5, FS_Singleton DEF Procs
<1>8. hole = << >> /\ reported = 0 /\ panicked = FALSE BY DEF Init
<1>9. Layout(<< >>, {}, 0)
  <2>1. << >> \in Seq(Piece) /\ Len(<< >>) = 0 OBVIOUS
  <2>2. Sorted(<< >>, {}) BY <2>1 DEF Sorted
  <2>3. \A c \in Int : ~Has(<< >>, c) /\ ~Known(c, 0) BY <2>1 DEF Has, Known
  <2> QED BY <2>2, <2>3 DEF Layout
<1>10. SegsOK(seg, DOMAIN prog)
  <2>1. seg = [h \in {InitHome} |-> [file |-> NoFile, base |-> h, len |-> 0]] BY DEF Init
  <2> QED BY <2>1, <1>3 DEF SegsOK, Segment, InitHome
<1> QED BY <1>4, <1>6, <1>7, <1>8, <1>9, <1>10, ChunkFacts DEF IInv

\* A chunk is reported: it is apart from those before it, and its slot is free.
LEMMA mem_initInv ==
  ASSUME IInv, mem_init
  PROVE  IInv'
<1>1. /\ reported \in 0..Len(Chunks) /\ reported < Len(Chunks) /\ reported' = reported + 1 /\ prog' = prog
      /\ SegsOK(seg', DOMAIN prog')
  BY DEF IInv, mem_init
<1>2. Layout(hole, Blocks, reported) /\ Len(hole) # NR_HOLES
  <2>1. Len(hole) # NR_HOLES BY Room, ChunkFacts
  <2> QED BY <2>1 DEF IInv
<1>3. /\ hole' = free_mem(hole, Chunks[reported + 1].base, Chunks[reported + 1].len)
      /\ panicked' = panicked
  BY <1>1, <1>2 DEF mem_init, Free
<1>4. Layout(hole', Blocks, reported') BY <1>1, <1>2, <1>3, GrowKeeps
<1>5. Blocks' = Blocks /\ Images' = Images /\ Procs' = Procs BY <1>1 DEF Blocks, Images, Procs
<1>6. reported' \in 0..Len(Chunks) BY <1>1, ChunkFacts
<1> QED BY <1>1, <1>3, <1>4, <1>5, <1>6 DEF IInv

\* FORK: the shadow comes out of a hole, at an address that no image has.
LEMMA do_forkInv ==
  ASSUME IInv, NEW h \in DOMAIN prog, do_fork(h)
  PROVE  IInv'
<1> DEFINE n == prog[h].data
           i == FirstFit(n)
           x == hole[i].base
           b == [base |-> x, len |-> n]
<1>1. /\ Procs < NR_PROCS /\ Fits(n) # {} /\ hole' = Bite(i, n)
      /\ prog' = [prog EXCEPT ![h].shadows = @ \cup {x}]
      /\ reported' = reported /\ panicked' = panicked /\ seg' = seg
  BY DEF do_fork
<1>2. n \in Nat \ {0} BY DEF IInv, ProgsOK, Program
<1>3. Layout(hole, Blocks, reported) /\ Sorted(hole, {}) BY DEF IInv, Layout
<1>4. i \in 1..Len(hole) /\ hole[i].len >= n BY <1>1, <1>2, <1>3, FitFacts
<1> HIDE DEF i, n
<1>5. /\ Layout(hole', Blocks \cup {b}, reported) /\ x \in Nat \ {0}
      /\ \A a \in Blocks : a.base # x
  BY <1>1, <1>2, <1>3, <1>4, TakeKeeps
<1> HIDE DEF x
<1>6. ProgsOK(prog) BY DEF IInv
<1>7. x \notin ImagesOf(prog) BY <1>5, <1>6, ImagesBlocks, BlocksAreImages DEF InitHome
<1>8. /\ ProgsOK(prog') /\ ImagesOf(prog') = ImagesOf(prog) \cup {x}
      /\ BlocksOf(prog') = BlocksOf(prog) \cup {[base |-> x, len |-> prog[h].data]}
  <2>1. \A g \in DOMAIN prog : prog[g] \in Program BY <1>6 DEF ProgsOK
  <2>2. DOMAIN prog' = DOMAIN prog BY <1>1
  <2>3. ASSUME NEW g \in DOMAIN prog
        PROVE  /\ prog'[g] \in Program
               /\ prog'[g].text = prog[g].text /\ prog'[g].data = prog[g].data
               /\ prog'[g].shadows = IF g = h THEN prog[g].shadows \cup {x} ELSE prog[g].shadows
    <3>1. prog'[g] = IF g = h THEN [prog[g] EXCEPT !.shadows = prog[g].shadows \cup {x}] ELSE prog[g]
      BY <1>1
    <3> QED BY <3>1, <2>1, <1>5 DEF Program
  <2>4. Forked(prog, prog', h, x) BY <2>2, <2>3 DEF Forked
  <2> QED BY <2>4, <1>5, <1>6, <1>7, ForkProg
<1>9. Images' = Images \cup {x} /\ Blocks' = Blocks \cup {b}
  <2>1. Images' = ImagesOf(prog') /\ Blocks' = BlocksOf(prog')
    BY DEF Images, ImagesOf, Blocks, BlocksOf, HomeOf, ShadowOf
  <2> QED BY <2>1, <1>8, ImagesBlocks DEF n
<1>10. IsFiniteSet(Images') /\ Procs' <= NR_PROCS
  <2>1. IsFiniteSet(Images) /\ x \notin Images BY <1>7, ImagesBlocks DEF IInv
  <2>2. IsFiniteSet(Images \cup {x}) /\ Cardinality(Images \cup {x}) = Cardinality(Images) + 1
    BY <2>1, FS_AddElement
  <2>3. Procs' = Procs + 1 BY <2>2, <1>9 DEF Procs
  <2> QED BY <2>2, <2>3, <1>1, <1>9, Room, ChunkFacts
<1>11. SegsOK(seg', DOMAIN prog') BY <1>1 DEF IInv
<1> QED BY <1>1, <1>5, <1>8, <1>9, <1>10, <1>11 DEF IInv

\* EXIT: the block that rmshadow() names goes to the list.
LEMMA mm_exitInv ==
  ASSUME IInv, NEW h \in DOMAIN prog, mm_exit(h)
  PROVE  Inv'
<1>1. PICK b \in Freed(h) : prog' = Leave(h, b) /\ Free(hole, b.base, b.len) BY DEF mm_exit
<1>2. Leaves(h) /\ reported' = reported BY DEF mm_exit
<1>3. Layout(hole, Blocks, reported) /\ ProgsOK(prog) /\ panicked = FALSE BY DEF IInv
<1>4. hole' = free_mem(hole, b.base, b.len) /\ panicked' = panicked
  <2>1. Len(hole) # NR_HOLES BY Room, ChunkFacts
  <2> QED BY <2>1, <1>1 DEF Free
<1> SUFFICES ASSUME ~Stray(h) PROVE IInv' BY <1>3, <1>4 DEF Inv, mm_exit
<1>5. /\ b \in BlocksOf(prog) /\ ProgsOK(prog') /\ ImagesOf(prog') = ImagesOf(prog) \ {b.base}
      /\ BlocksOf(prog') = BlocksOf(prog) \ {b}
  BY <1>1, <1>2, <1>3, LeaveProg
<1>6. Images' = Images \ {b.base} /\ Blocks' = Blocks \ {b} /\ b \in Blocks
  <2>1. Images' = ImagesOf(prog') /\ Blocks' = BlocksOf(prog')
    BY DEF Images, ImagesOf, Blocks, BlocksOf, HomeOf, ShadowOf
  <2> QED BY <2>1, <1>5, ImagesBlocks
<1>7. Layout(hole', Blocks', reported') BY <1>2, <1>3, <1>4, <1>6, GiveKeeps
<1>8. IsFiniteSet(Images') /\ Procs' <= NR_PROCS
  <2>1. IsFiniteSet(Images) /\ Procs <= NR_PROCS BY DEF IInv
  <2>2. /\ IsFiniteSet(Images \ {b.base})
        /\ Cardinality(Images \ {b.base}) = IF b.base \in Images THEN Cardinality(Images) - 1
                                            ELSE Cardinality(Images)
    BY <2>1, FS_RemoveElement
  <2>3. Procs' <= Procs BY <2>2, <1>6, Room DEF Procs
  <2>4. Procs' \in Nat BY <2>2, <1>6, FS_CardinalityType DEF Procs
  <2> QED BY <2>1, <2>2, <2>3, <2>4, <1>6, Room, ChunkFacts
<1>9. reported' \in 0..Len(Chunks) BY <1>2 DEF IInv
<1>10. SegsOK(seg', DOMAIN prog')
  <2>1. DOMAIN Leave(h, b) \subseteq DOMAIN prog BY DEF Leave
  <2>2. seg' = [g \in DOMAIN prog' |-> seg[g]] BY DEF mm_exit
  <2>3. SegsOK(seg, DOMAIN prog) BY DEF IInv
  <2> QED BY <2>1, <2>2, <2>3, <1>1 DEF SegsOK
<1> QED BY <1>3, <1>4, <1>5, <1>7, <1>8, <1>9, <1>10 DEF IInv

\* EXEC: there is a hole as max_hole() said; the old block goes after that.
LEMMA new_memInv ==
  ASSUME IInv, NEW h \in DOMAIN prog, NEW f \in Files, new_mem(h, f)
  PROVE  Inv'
<1> DEFINE sh == find_share(h, f)
           t == IF sh # {} THEN 0 ELSE f.text
           d == f.data
           n == t + d
           i == FirstFit(n)
           x == hole[i].base
           e == [base |-> x, len |-> n]
<1>0. t \in Nat /\ d \in Nat \ {0}
  <2>1. f.text \in Nat /\ d \in Nat \ {0} BY HolesAssumption DEF Files
  <2> QED BY <2>1
<1>1. t \in Nat /\ d \in Nat \ {0} /\ n \in Nat \ {0}
  <2> HIDE DEF t, d
  <2> QED BY <1>0
<1>2. Leaves(h) /\ n <= max_hole /\ reported' = reported BY DEF new_mem
<1>3. /\ Layout(hole, Blocks, reported) /\ Sorted(hole, {}) /\ ProgsOK(prog) /\ panicked = FALSE
      /\ reported \in 0..Len(Chunks)
  BY DEF IInv, Layout
<1>4. Fits(n) # {} /\ i \in 1..Len(hole) /\ hole[i].len >= n
  <2> HIDE DEF n
  <2> QED BY <1>1, <1>2, <1>3, FitFacts
<1>5. PICK b \in Freed(h) :
        /\ prog' = [g \in DOMAIN Leave(h, b) \cup {x} |->
                      IF g = x THEN [text |-> t, data |-> d, shadows |-> {}] ELSE Leave(h, b)[g]]
        /\ Free(Bite(i, n), b.base, b.len)
  BY <1>4 DEF new_mem
<1>50. /\ \E T \in IF sh = {} THEN {[file |-> f, base |-> x, len |-> t]} ELSE {seg[g] : g \in sh} :
              seg' = [g \in DOMAIN prog' |-> IF g = x THEN T ELSE seg[g]]
       /\ astray' = Stray(h)
  BY <1>4 DEF new_mem
<1> HIDE DEF sh, t, d, i, n
<1>6. /\ Layout(Bite(i, n), Blocks \cup {e}, reported) /\ Len(Bite(i, n)) <= Len(hole)
      /\ x \in Nat \ {0} /\ \A a \in Blocks : a.base # x
  BY <1>1, <1>3, <1>4, TakeKeeps
<1> HIDE DEF x
<1>7. hole' = free_mem(Bite(i, n), b.base, b.len) /\ panicked' = panicked
  <2>1. Sorted(Bite(i, n), {}) BY <1>6 DEF Layout
  <2>2. Len(Bite(i, n)) # NR_HOLES BY <2>1, <1>6, Room, HoleFacts, ChunkFacts
  <2> QED BY <2>2, <1>5 DEF Free
<1> SUFFICES ASSUME ~Stray(h) PROVE IInv' BY <1>3, <1>7, <1>50 DEF Inv
<1>70. ASSUME NEW g \in DOMAIN Leave(h, b) PROVE g \in DOMAIN prog BY DEF Leave
<1> DEFINE p == Leave(h, b)
<1>8. /\ b \in BlocksOf(prog) /\ ProgsOK(p) /\ ImagesOf(p) = ImagesOf(prog) \ {b.base}
      /\ BlocksOf(p) = BlocksOf(prog) \ {b}
  BY <1>2, <1>3, LeaveProg
<1>9. prog' = [g \in DOMAIN p \cup {x} |->
                 IF g = x THEN [text |-> t, data |-> d, shadows |-> {}] ELSE p[g]]
  BY <1>5
<1> HIDE DEF p
<1>10. x \notin Images BY <1>3, <1>6, ImagesBlocks, BlocksAreImages DEF InitHome
<1>11. x \notin ImagesOf(p) BY <1>8, <1>10, ImagesBlocks
<1>12. /\ ProgsOK(prog') /\ ImagesOf(prog') = ImagesOf(p) \cup {x}
       /\ BlocksOf(prog') = BlocksOf(p) \cup {[base |-> x, len |-> t + d]}
  <2>1. DOMAIN prog' = DOMAIN p \cup {x} BY <1>9
  <2>2. x \notin DOMAIN p BY <1>11, BlockFacts
  <2>3. \A g \in DOMAIN p : prog'[g] = p[g] BY <2>2, <1>9
  <2>4. prog'[x] = [text |-> t, data |-> d, shadows |-> {}] BY <1>9
  <2>5. Loaded(p, prog', x, t, d) BY <2>1, <2>3, <2>4 DEF Loaded
  <2> QED BY <2>5, <1>1, <1>6, <1>8, <1>11, LoadProg
<1>13. /\ Images' = (Images \ {b.base}) \cup {x} /\ Blocks' = (Blocks \ {b}) \cup {e} /\ b \in Blocks
  <2>1. Images' = ImagesOf(prog') /\ Blocks' = BlocksOf(prog')
    BY DEF Images, ImagesOf, Blocks, BlocksOf, HomeOf, ShadowOf
  <2> QED BY <2>1, <1>8, <1>12, ImagesBlocks DEF n
<1>14. Layout(hole', Blocks', reported')
  <2>1. e \notin Blocks
    <3>1. e.base = x OBVIOUS
    <3> QED BY <3>1, <1>6
  <2>2. b \in Blocks \cup {e} BY <1>13
  <2>3. Layout(hole', (Blocks \cup {e}) \ {b}, reported) BY <2>2, <1>6, <1>7, GiveKeeps
  <2>4. (Blocks \cup {e}) \ {b} = (Blocks \ {b}) \cup {e} BY <2>1, <1>13
  <2> QED BY <2>3, <2>4, <1>2, <1>13
<1>15. IsFiniteSet(Images') /\ Procs' <= NR_PROCS
  <2>1. IsFiniteSet(Images) /\ Procs <= NR_PROCS BY DEF IInv
  <2>2. b.base \in Images BY <1>3, <1>13, ImagesBlocks, BlocksAreImages
  <2>3. IsFiniteSet(Images \ {b.base}) /\ Cardinality(Images \ {b.base}) = Cardinality(Images) - 1
    BY <2>1, <2>2, FS_RemoveElement
  <2>4. x \notin Images \ {b.base} BY <1>10
  <2>5. /\ IsFiniteSet((Images \ {b.base}) \cup {x})
        /\ Cardinality((Images \ {b.base}) \cup {x}) = Cardinality(Images \ {b.base}) + 1
    BY <2>3, <2>4, FS_AddElement
  <2>6. Procs' = Procs
    <3>1. Cardinality(Images) \in Nat BY Room DEF Procs
    <3> QED BY <3>1, <2>3, <2>5, <1>13 DEF Procs
  <2> QED BY <2>1, <2>5, <2>6, <1>13
<1>16. SegsOK(seg', DOMAIN prog')
  <2>1. SegsOK(seg, DOMAIN prog) BY DEF IInv
  <2>2. PICK T \in IF sh = {} THEN {[file |-> f, base |-> x, len |-> t]} ELSE {seg[g] : g \in sh} :
          seg' = [g \in DOMAIN prog' |-> IF g = x THEN T ELSE seg[g]]
    BY <1>50
  <2>3. T \in Segment
    <3>1. CASE sh = {} BY <3>1, <1>1, <1>6 DEF Segment
    <3>2. CASE sh # {}
      <4>1. PICK g \in sh : T = seg[g] BY <3>2
      <4>2. g \in DOMAIN prog BY DEF sh, find_share
      <4> QED BY <4>1, <4>2, <2>1 DEF SegsOK
    <3> QED BY <3>1, <3>2
  <2>4. \A g \in DOMAIN prog' : g = x \/ g \in DOMAIN prog BY <1>9, <1>70 DEF p
  <2> QED BY <2>1, <2>2, <2>3, <2>4 DEF SegsOK
<1> QED BY <1>2, <1>3, <1>7, <1>12, <1>14, <1>15, <1>16 DEF IInv

\* Every step keeps the invariant.
LEMMA NextInv == Inv /\ [Next]_vars => Inv'
<1> SUFFICES ASSUME Inv, [Next]_vars PROVE Inv' OBVIOUS
<1>0. ASSUME Next PROVE IInv BY <1>0 DEF Next, Inv
<1>1. CASE Next /\ mem_init
  <2>1. IInv' BY <1>0, <1>1, mem_initInv
  <2> QED BY <2>1 DEF Inv, IInv
<1>2. CASE Next /\ Call
  <2>1. PICK h \in DOMAIN prog : \/ do_fork(h)
                                 \/ mm_exit(h)
                                 \/ \E f \in Files : new_mem(h, f)
    BY <1>2 DEF Call
  <2>2. do_fork(h) => Inv'
    <3>1. do_fork(h) => IInv' BY <1>0, <1>2, do_forkInv
    <3> QED BY <3>1 DEF Inv, IInv
  <2> QED BY <2>1, <2>2, <1>0, <1>2, mm_exitInv, new_memInv
<1>3. CASE UNCHANGED vars
  BY <1>3 DEF vars, Inv, IInv, Images, Procs, Blocks
<1> QED BY <1>1, <1>2, <1>3 DEF Next

\* The invariant holds at all times.
LEMMA InvHolds == Spec => []Inv
<1> QED BY InitInv, NextInv, PTL DEF Spec

----------------------------------------------------------------------------
(* The theorems.                                                           *)

\* A layout is sound: the holes of the list and the blocks are pieces of memory
\* that have every click once.
LEMMA IInvSound == Inv => MemorySound
<1> SUFFICES ASSUME IInv PROVE TypeOK /\ Conserved BY DEF MemorySound, Inv
<1>1. Layout(hole, Blocks, reported) /\ Sorted(hole, {}) /\ hole \in Seq(Piece)
  BY DEF IInv, Layout, Sorted
<1>2. /\ Len(hole) \in Nat /\ DOMAIN hole = 1..Len(hole)
      /\ \A i \in 1..Len(hole) : /\ hole[i] \in Piece /\ hole[i].base \in Nat \ {0} /\ hole[i].len \in Nat \ {0}
                                 /\ End(hole[i]) \in Nat /\ hole[i].base < End(hole[i])
      /\ \A i, j \in 1..Len(hole) : i < j => End(hole[i]) < hole[j].base
  BY <1>1, HoleFacts
<1>3. TypeOK
  <2>1. hole \in Seq([base : Nat \ {0}, len : Nat \ {0}]) BY <1>1 DEF Piece
  <2>2. Len(hole) <= NR_HOLES BY Room, ChunkFacts
  <2>3. ASSUME NEW i \in 1..Len(hole)-1 PROVE hole[i].base < hole[i+1].base
    <3>1. i \in 1..Len(hole) /\ i + 1 \in 1..Len(hole) /\ i < i + 1 BY <1>2
    <3>2. hole[i].base < End(hole[i]) /\ End(hole[i]) < hole[i+1].base BY <3>1, <1>2
    <3> QED BY <3>1, <3>2, <1>2
  <2>4. ASSUME NEW h \in DOMAIN prog PROVE prog[h] \in [text : Nat, data : Nat \ {0}, shadows : SUBSET Nat]
    <3>1. prog[h] \in Program BY DEF IInv, ProgsOK
    <3> QED BY <3>1 DEF Program
  <2>5. DOMAIN seg = DOMAIN prog /\ \A h \in DOMAIN seg : seg[h] \in [file : Files \cup {NoFile}, base : Nat, len : Nat]
    BY DEF IInv, SegsOK, Segment
  <2> QED BY <2>1, <2>2, <2>3, <2>4, <2>5 DEF TypeOK, IInv
<1>4. \A b \in Piece : \A k : k \in Clicks(b) <=> k \in Int /\ In(k, b)
  <2> SUFFICES ASSUME NEW b \in Piece, NEW k PROVE k \in Clicks(b) <=> k \in Int /\ In(k, b) OBVIOUS
  <2>1. b.base \in Nat /\ b.len \in Nat BY PieceFacts
  <2> QED BY <2>1 DEF Clicks, In, End
<1>5. \A b \in Holes : b \in Piece /\ \A k : In(k, b) => Has(hole, k) BY <1>2 DEF Holes, Has
<1>6. \A b \in Blocks : b \in Piece BY <1>1 DEF Layout
<1>7. ASSUME NEW a \in Holes \cup Blocks, NEW b \in Holes \cup Blocks, NEW k \in Int, In(k, a), In(k, b)
      PROVE  a = b
  <2>1. CASE a \in Blocks /\ b \in Blocks BY <2>1, <1>7, <1>1 DEF Layout
  <2>2. CASE a \in Holes /\ b \in Blocks BY <2>2, <1>7, <1>1, <1>5 DEF Layout
  <2>3. CASE a \in Blocks /\ b \in Holes BY <2>3, <1>7, <1>1, <1>5 DEF Layout
  <2>4. CASE a \in Holes /\ b \in Holes
    <3>1. PICK i \in 1..Len(hole) : a = hole[i] BY <2>4, <1>2 DEF Holes
    <3>2. PICK j \in 1..Len(hole) : b = hole[j] BY <2>4, <1>2 DEF Holes
    <3>3. ~(i < j)
      <4>1. i < j => End(hole[i]) < hole[j].base BY <1>2
      <4> QED BY <4>1, <3>1, <3>2, <1>2, <1>7 DEF In
    <3>4. ~(j < i)
      <4>1. j < i => End(hole[j]) < hole[i].base BY <1>2
      <4> QED BY <4>1, <3>1, <3>2, <1>2, <1>7 DEF In
    <3> QED BY <3>1, <3>2, <3>3, <3>4, <1>2
  <2> QED BY <2>1, <2>2, <2>3, <2>4
<1>8. \A a, b \in Holes \cup Blocks : a # b => Clicks(a) \cap Clicks(b) = {}
  BY <1>4, <1>5, <1>6, <1>7
<1>9. Holes \cap Blocks = {}
  <2> SUFFICES ASSUME NEW b \in Holes, b \in Blocks PROVE FALSE OBVIOUS
  <2>1. b.base \in Int /\ In(b.base, b) BY <1>6, PieceFacts DEF In
  <2> QED BY <2>1, <1>1, <1>5 DEF Layout
<1>10. \A k : k \in Memory <=> k \in Int /\ Known(k, reported)
  <2>1. \A i \in 1..reported : Chunks[i] \in Piece
    <3>1. reported \in 0..Len(Chunks) BY DEF IInv
    <3>2. \A i \in 1..reported : i \in 1..Len(Chunks) BY <3>1, ChunkFacts
    <3> QED BY <3>2, ChunkFacts
  <2> QED BY <2>1, <1>4 DEF Memory, Known
<1>11. ASSUME NEW k \in Int
       PROVE  Known(k, reported) <=> \E b \in Holes \cup Blocks : In(k, b)
  <2>1. Known(k, reported) <=> Has(hole, k) \/ \E b \in Blocks : In(k, b) BY <1>1 DEF Layout
  <2>2. Has(hole, k) <=> \E b \in Holes : In(k, b) BY <1>2 DEF Has, Holes
  <2> QED BY <2>1, <2>2
<1>12. UNION {Clicks(b) : b \in Holes \cup Blocks} = Memory
  <2>1. ASSUME NEW k
        PROVE  k \in UNION {Clicks(b) : b \in Holes \cup Blocks} <=> \E b \in Holes \cup Blocks : k \in Clicks(b)
    OBVIOUS
  <2>2. ASSUME NEW k
        PROVE  (\E b \in Holes \cup Blocks : k \in Clicks(b)) <=> k \in Memory
    BY <1>4, <1>5, <1>6, <1>10, <1>11
  <2> QED BY <2>1, <2>2
<1>13. Conserved BY <1>8, <1>9, <1>12 DEF Conserved
<1> QED BY <1>3, <1>13

\* Memory: through every order of FORK, EXEC and EXIT each click belongs to one
\* hole or one block, none is lost, and the list stays sorted (alloc_mem,
\* free_mem, merge, rmshadow), until a home is freed whose text is shared.
THEOREM MemoryConserved == Spec => []MemorySound
<1> QED BY InvHolds, IInvSound, PTL

\* Free clicks in a row are in one hole: the next hole would touch it.
LEMMA IInvRefusal == Inv => NoFalseRefusal
<1> SUFFICES ASSUME IInv, NEW n \in Sizes, Fits(n) = {}, NEW m \in Memory,
                    \A k \in m..m+n-1 : k \in Memory /\ \A b \in Blocks : k \notin Clicks(b)
             PROVE  FALSE
  BY DEF NoFalseRefusal, Inv
<1>1. Layout(hole, Blocks, reported) /\ Sorted(hole, {}) BY DEF IInv, Layout
<1>2. /\ Len(hole) \in Nat /\ DOMAIN hole = 1..Len(hole)
      /\ \A i \in 1..Len(hole) : /\ hole[i].base \in Nat \ {0} /\ hole[i].len \in Nat \ {0}
                                 /\ End(hole[i]) \in Nat /\ hole[i].base < End(hole[i])
      /\ \A i, j \in 1..Len(hole) : i < j => End(hole[i]) < hole[j].base
  BY <1>1, HoleFacts
<1>3. n \in Nat \ {0} BY HolesAssumption
<1>4. ASSUME NEW k \in Memory PROVE k \in Int /\ Known(k, reported)
  <2>1. PICK i \in 1..reported : k \in Clicks(Chunks[i]) BY DEF Memory
  <2>2. reported \in 0..Len(Chunks) BY DEF IInv
  <2>3. i \in 1..Len(Chunks) BY <2>2, ChunkFacts
  <2>4. Chunks[i].base \in Nat /\ Chunks[i].len \in Nat BY <2>3, ChunkFacts
  <2>5. k \in Int /\ In(k, Chunks[i]) BY <2>1, <2>4 DEF Clicks, In, End
  <2> QED BY <2>5 DEF Known
<1>5. ASSUME NEW k \in m..m+n-1 PROVE Has(hole, k)
  <2>1. k \in Int /\ Known(k, reported) BY <1>4
  <2>2. ASSUME NEW b \in Blocks, In(k, b) PROVE FALSE
    <3>1. b \in Piece BY <1>1 DEF Layout
    <3>2. b.base \in Nat /\ b.len \in Nat BY <3>1, PieceFacts
    <3>3. k \in Clicks(b) BY <2>1, <2>2, <3>2 DEF Clicks, In, End
    <3> QED BY <3>3
  <2> QED BY <2>1, <2>2, <1>1 DEF Layout
<1>6. m \in Int /\ m \in m..m+n-1 BY <1>3, <1>4
<1>7. PICK i \in 1..Len(hole) : In(m, hole[i]) BY <1>5, <1>6 DEF Has
<1>8. CASE m + n <= End(hole[i])
  <2>1. End(hole[i]) = hole[i].base + hole[i].len BY DEF End
  <2>2. hole[i].base <= m BY <1>7 DEF In
  <2>3. hole[i].len >= n BY <2>1, <2>2, <1>2, <1>3, <1>6, <1>8
  <2> QED BY <2>3, <1>2 DEF Fits
<1>9. CASE ~(m + n <= End(hole[i]))
  <2>1. m < End(hole[i]) BY <1>7 DEF In
  <2>2. End(hole[i]) \in m..m+n-1 BY <2>1, <1>2, <1>3, <1>6, <1>9
  <2>3. PICK j \in 1..Len(hole) : In(End(hole[i]), hole[j]) BY <2>2, <1>5 DEF Has
  <2>4. hole[j].base <= End(hole[i]) /\ End(hole[i]) < End(hole[j]) BY <2>3 DEF In
  <2>5. ~(i < j)
    <3>1. i < j => End(hole[i]) < hole[j].base BY <1>2
    <3> QED BY <3>1, <2>4, <1>2
  <2>6. ~(j < i)
    <3>1. j < i => End(hole[j]) < hole[i].base BY <1>2
    <3> QED BY <3>1, <2>4, <1>2
  <2> QED BY <2>4, <2>5, <2>6, <1>2
<1> QED BY <1>8, <1>9

\* Refusals: if no hole is long enough for a FORK, there are no such clicks free
\* in a row; merge() has joined whatever touches.  As above, until a home is
\* freed whose text is shared.
THEOREM RefusalsJustified == Spec => []NoFalseRefusal
<1> QED BY InvHolds, IInvRefusal, PTL

\* The hole table never overflows, and EXEC gets what max_hole() promised, until
\* a home is freed whose text is shared.
THEOREM NeverPanics == Spec => []NoPanic
<1>1. Inv => NoPanic BY DEF Inv, NoPanic
<1> QED BY <1>1, InvHolds, PTL
=============================================================================
