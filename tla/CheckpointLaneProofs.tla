------------------------ MODULE CheckpointLaneProofs ------------------------
(***************************************************************************)
(* What the first-touch contract of CheckpointLane guarantees, for any     *)
(* cells, words and number of epochs.                                      *)
(***************************************************************************)
EXTENDS CheckpointLane, WellFoundedInduction, SequenceTheorems, TLAPS

Delta == [cell : Cells, key : Nat, alternate : BankCell]
Words == [Cells -> BankCell]
Cursor == [chunks : Nat, tail : Nat, cells : Words]

-----------------------------------------------------------------------------
(* The first and the last position of a cell in a sequence of deltas.       *)

\* A nonempty set of numbers has a least element, the one Least chooses.
LEMMA LeastFacts ==
    ASSUME NEW S \in SUBSET Nat, S # {}
    PROVE  Least(S) \in S /\ \A j \in S : Least(S) <= j
<1> DEFINE R == {ss \in Nat \X Nat : ss[1] < ss[2]}
<1>1. IsWellFoundedOn(R, Nat)
  BY NatLessThanWellFounded DEF OpToRel
<1> HIDE DEF R
<1>2. PICK i \in S : \A j \in S : ~(<<j, i>> \in R)
  BY <1>1, WFMin, Zenon
<1>3. ASSUME NEW j \in S PROVE i <= j
  <2>1. i \in Nat /\ j \in Nat
    OBVIOUS
  <2>2. j < i => <<j, i>> \in R
    BY <2>1 DEF R
  <2> QED
    BY <1>2, <2>1, <2>2
<1> QED
  BY <1>3, Zenon DEF Least

\* Any least element is the one Least chooses.
LEMMA LeastUnique ==
    ASSUME NEW S \in SUBSET Nat, NEW i \in S, \A j \in S : i <= j
    PROVE  Least(S) = i
<1>1. Least(S) \in S /\ \A j \in S : Least(S) <= j
  BY LeastFacts
<1>2. Least(S) \in Nat /\ i \in Nat /\ Least(S) <= i /\ i <= Least(S)
  BY <1>1, Zenon
<1> QED
  BY <1>2

\* A nonempty bounded set has a greatest element, the one Greatest chooses.
LEMMA GreatestFacts ==
    ASSUME NEW m \in Nat, NEW S \in SUBSET (1..m), S # {}
    PROVE  Greatest(S) \in S /\ \A j \in S : j <= Greatest(S)
<1> DEFINE M == {m - i : i \in S}
<1>1. M \in SUBSET Nat /\ M # {}
  <2>1. \A i \in S : i \in 1..m
    OBVIOUS
  <2>2. \A i \in S : m - i \in Nat
    BY <2>1
  <2> QED
    BY <2>2
<1>2. Least(M) \in M /\ \A j \in M : Least(M) <= j
  BY <1>1, LeastFacts, Zenon
<1>3. PICK g \in S : Least(M) = m - g
  BY <1>2, Zenon
<1>4. ASSUME NEW j \in S PROVE j <= g
  <2>1. m - g <= m - j
    BY <1>2, <1>3, Zenon
  <2> QED
    BY <2>1
<1> QED
  BY <1>4, Zenon DEF Greatest

\* Any greatest element is the one Greatest chooses.
LEMMA GreatestUnique ==
    ASSUME NEW m \in Nat, NEW S \in SUBSET (1..m), NEW i \in S, \A j \in S : j <= i
    PROVE  Greatest(S) = i
<1>1. Greatest(S) \in S /\ \A j \in S : j <= Greatest(S)
  BY GreatestFacts, Zenon
<1>2. Greatest(S) \in 1..m /\ i \in 1..m
  BY <1>1, Zenon
<1>3. Greatest(S) <= i /\ i <= Greatest(S)
  BY <1>1, Zenon
<1> QED
  BY <1>2, <1>3

-----------------------------------------------------------------------------
(* How a step of the lane changes what a walk back finds.                   *)

\* The deltas e extend d by deltas that hold words of w.
Displaces(d, e, w) ==
    /\ Len(d) <= Len(e)
    /\ \A i \in 1..Len(d) : e[i] = d[i]
    /\ \A i \in Len(d) + 1..Len(e) : e[i].alternate = w[e[i].cell]

\* New deltas that hold the displaced words do not change where older marks lead.
LEMMA RewindExtends ==
    ASSUME NEW d \in Seq(Delta), NEW e \in Seq(Delta), NEW w, NEW x,
           NEW n \in Nat, n <= Len(d), NEW c \in Cells,
           Displaces(d, e, w),
           \/ Touches(e, c, n + 1, Len(e)) # {}
           \/ x[c] = w[c]
    PROVE  RewoundCell(e, x, n, c) = RewoundCell(d, w, n, c)
<1> USE DEF Displaces
<1> DEFINE H == Touches(d, c, n + 1, Len(d))
           K == Touches(e, c, n + 1, Len(e))
<1>1. Len(d) \in Nat /\ Len(e) \in Nat
  OBVIOUS
<1>2. H \in SUBSET Nat /\ K \in SUBSET Nat
  BY <1>1 DEF Touches
<1>3. CASE H # {}
  <2>1. Least(H) \in H /\ \A j \in H : Least(H) <= j
    BY <1>2, <1>3, LeastFacts
  <2>2. Least(H) \in K /\ \A j \in K : Least(H) <= j
    <3>1. Least(H) \in n + 1..Len(d) /\ d[Least(H)].cell = c
      BY <2>1 DEF Touches
    <3>2. Least(H) \in K
      BY <1>1, <3>1 DEF Touches
    <3>3. ASSUME NEW j \in K PROVE Least(H) <= j
      <4>1. j \in n + 1..Len(e) /\ e[j].cell = c
        BY DEF Touches
      <4>2. CASE j <= Len(d)
        <5>1. e[j] = d[j]
          BY <1>1, <4>1, <4>2
        <5>2. j \in H
          BY <1>1, <4>1, <4>2, <5>1 DEF Touches
        <5> QED
          BY <2>1, <5>2
      <4> QED
        BY <1>1, <3>1, <4>1, <4>2
    <3> QED
      BY <3>2, <3>3
  <2>3. Least(K) = Least(H)
    BY <1>2, <2>2, LeastUnique
  <2>4. e[Least(H)] = d[Least(H)]
    BY <1>1, <2>1 DEF Touches
  <2> QED
    BY <1>3, <2>2, <2>3, <2>4 DEF RewoundCell
<1>4. CASE H = {} /\ K # {}
  <2>1. Least(K) \in K
    BY <1>2, <1>4, LeastFacts
  <2>2. Least(K) \in Len(d) + 1..Len(e) /\ e[Least(K)].cell = c
    BY <1>1, <1>4, <2>1 DEF Touches
  <2>3. e[Least(K)].alternate = w[c]
    BY <2>2
  <2> QED
    BY <1>4, <2>3 DEF RewoundCell
<1>5. CASE H = {} /\ K = {}
  BY <1>5 DEF RewoundCell
<1> QED
  BY <1>3, <1>4, <1>5

\* Walking back to n and truncating there keeps where every mark up to n leads.
LEMMA RewindTruncates ==
    ASSUME NEW d \in Seq(Delta), NEW w, NEW n \in Nat, n <= Len(d),
           NEW m \in Nat, m <= n, NEW c \in Cells
    PROVE  RewoundCell(SubSeq(d, 1, n), Rewound(d, w, n), m, c) = RewoundCell(d, w, m, c)
<1> DEFINE t == SubSeq(d, 1, n)
           H == Touches(d, c, m + 1, Len(d))
           K == Touches(t, c, m + 1, Len(t))
           B == Touches(d, c, n + 1, Len(d))
<1>1. Len(d) \in Nat /\ Len(t) = n /\ \A i \in 1..n : t[i] = d[i]
  OBVIOUS
<1> HIDE DEF t
<1>2. H \in SUBSET Nat /\ K \in SUBSET Nat /\ B \in SUBSET Nat
  BY <1>1 DEF Touches
<1>3. Rewound(d, w, n)[c] = RewoundCell(d, w, n, c)
  BY DEF Rewound
<1>4. CASE K # {}
  <2>1. Least(K) \in K /\ \A j \in K : Least(K) <= j
    BY <1>2, <1>4, LeastFacts
  <2>2. Least(K) \in H /\ \A j \in H : Least(K) <= j
    <3>1. Least(K) \in m + 1..n /\ t[Least(K)].cell = c
      BY <1>1, <2>1 DEF Touches
    <3>2. Least(K) \in H
      BY <1>1, <3>1 DEF Touches
    <3>3. ASSUME NEW j \in H PROVE Least(K) <= j
      <4>1. j \in m + 1..Len(d) /\ d[j].cell = c
        BY DEF Touches
      <4>2. CASE j <= n
        <5>1. j \in K
          BY <1>1, <4>1, <4>2 DEF Touches
        <5> QED
          BY <2>1, <5>1
      <4> QED
        BY <1>1, <3>1, <4>1, <4>2
    <3> QED
      BY <3>2, <3>3
  <2>3. Least(H) = Least(K)
    BY <1>2, <2>2, LeastUnique
  <2>4. t[Least(K)] = d[Least(K)]
    BY <1>1, <2>1 DEF Touches
  <2> QED
    BY <1>4, <2>2, <2>3, <2>4, Zenon DEF RewoundCell, t
<1>5. CASE K = {}
  <2>1. H = B
    BY <1>1, <1>5 DEF Touches
  <2> QED
    BY <1>3, <1>5, <2>1 DEF RewoundCell, t
<1> QED
  BY <1>4, <1>5

\* Dropping a prefix that ends at or before a mark keeps where the mark leads.
LEMMA RewindShifts ==
    ASSUME NEW d \in Seq(Delta), NEW w, NEW s \in Nat, NEW n \in Nat,
           s <= n, n <= Len(d), NEW c \in Cells
    PROVE  RewoundCell(SubSeq(d, s + 1, Len(d)), w, n - s, c) = RewoundCell(d, w, n, c)
<1> DEFINE t == SubSeq(d, s + 1, Len(d))
           H == Touches(d, c, n + 1, Len(d))
           K == Touches(t, c, n - s + 1, Len(t))
<1>1. Len(d) \in Nat /\ Len(t) = Len(d) - s /\ \A i \in 1..(Len(d) - s) : t[i] = d[s + i]
  OBVIOUS
<1> HIDE DEF t
<1>2. H \in SUBSET Nat /\ K \in SUBSET Nat
  BY <1>1 DEF Touches
<1>3. \A i \in K : s + i \in H
  BY <1>1 DEF Touches
<1>4. \A i \in H : i - s \in K
  <2> SUFFICES ASSUME NEW i \in H PROVE i - s \in K
    OBVIOUS
  <2>1. i \in n + 1..Len(d) /\ d[i].cell = c
    BY DEF Touches
  <2>2. i - s \in (n - s + 1)..Len(t) /\ i - s \in 1..(Len(d) - s) /\ s + (i - s) = i
    BY <1>1, <2>1
  <2>3. t[i - s] = d[i]
    BY <1>1, <2>2, Zenon
  <2> QED
    BY <2>1, <2>2, <2>3 DEF Touches
<1>5. CASE K # {}
  <2>1. Least(K) \in K /\ \A j \in K : Least(K) <= j
    BY <1>2, <1>5, LeastFacts
  <2>2. Least(K) \in Nat /\ s + Least(K) \in H
    BY <1>2, <1>3, <2>1
  <2>3. ASSUME NEW j \in H PROVE s + Least(K) <= j
    <3>1. j \in Nat /\ Least(K) <= j - s
      BY <1>2, <1>4, <2>1
    <3> QED
      BY <2>2, <3>1
  <2>4. Least(H) = s + Least(K)
    BY <1>2, <2>2, <2>3, LeastUnique
  <2>5. t[Least(K)] = d[s + Least(K)]
    BY <1>1, <2>1 DEF Touches
  <2> QED
    BY <1>5, <2>2, <2>4, <2>5, Zenon DEF RewoundCell, t
<1>6. CASE K = {}
  <2>1. H = {}
    BY <1>4, <1>6
  <2> QED
    BY <1>6, <2>1 DEF RewoundCell, t
<1> QED
  BY <1>5, <1>6

-----------------------------------------------------------------------------
(* The walk forward undoes the walk back.                                    *)

\* The detached deltas name the cells and keys of the deltas they come from.
LEMMA RotatedFacts ==
    ASSUME NEW d \in Seq(Delta), NEW w \in Words, NEW n \in Nat, n <= Len(d)
    PROVE  LET r == Rotated(d, w, n)
           IN  /\ r \in Seq(Delta)
               /\ Len(r) = Len(d) - n
               /\ \A i \in 1..(Len(d) - n) :
                    /\ r[i].cell = d[n + i].cell
                    /\ r[i].key = d[n + i].key
                    /\ r[i].alternate =
                         LET later == Touches(d, d[n + i].cell, n + i + 1, Len(d))
                         IN  IF later = {} THEN w[d[n + i].cell]
                             ELSE d[Least(later)].alternate
<1> DEFINE r == Rotated(d, w, n)
           later(i) == Touches(d, d[n + i].cell, n + i + 1, Len(d))
           word(i) == IF later(i) = {} THEN w[d[n + i].cell] ELSE d[Least(later(i))].alternate
<1>1. Len(d) \in Nat /\ Len(d) - n \in Nat
  OBVIOUS
<1>2. r = [i \in 1..(Len(d) - n) |-> [d[n + i] EXCEPT !.alternate = word(i)]]
  BY DEF Rotated
<1>3. ASSUME NEW i \in 1..(Len(d) - n)
      PROVE  d[n + i] \in Delta /\ word(i) \in BankCell
  <2>1. n + i \in 1..Len(d)
    BY <1>1
  <2>2. d[n + i] \in Delta
    BY <2>1, ElementOfSeq
  <2>3. CASE later(i) = {}
    BY <2>2, <2>3 DEF Delta, Words
  <2>4. CASE later(i) # {}
    <3>1. later(i) \in SUBSET Nat
      BY <1>1, <2>1 DEF Touches
    <3>2. Least(later(i)) \in later(i)
      BY <3>1, <2>4, LeastFacts
    <3>3. Least(later(i)) \in 1..Len(d)
      BY <1>1, <2>1, <3>2 DEF Touches
    <3>4. d[Least(later(i))] \in Delta
      BY <3>3, ElementOfSeq
    <3> QED
      BY <2>2, <2>4, <3>4 DEF Delta
  <2> QED
    BY <2>2, <2>3, <2>4
<1> HIDE DEF word
<1>4. \A i \in 1..(Len(d) - n) : [d[n + i] EXCEPT !.alternate = word(i)] \in Delta
  BY <1>3, Zenon DEF Delta
<1>5. r \in Seq(Delta) /\ Len(r) = Len(d) - n
  <2>1. r \in [1..(Len(d) - n) -> Delta]
    BY <1>2, <1>4, Zenon
  <2> QED
    BY <1>1, <2>1, IsASeq, LenProperties
<1>6. \A i \in 1..(Len(d) - n) :
        r[i].cell = d[n + i].cell /\ r[i].key = d[n + i].key /\ r[i].alternate = word(i)
  BY ZenonT(60), <1>2, <1>3 DEF Delta
<1> QED
  BY <1>5, <1>6, Zenon DEF word

\* Redoing the detached deltas from the rewound cells gives the cells back.
LEMMA RedoneInverts ==
    ASSUME NEW d \in Seq(Delta), NEW w \in Words, NEW n \in Nat, n <= Len(d)
    PROVE  Redone(Rotated(d, w, n), Rewound(d, w, n)) = w
<1> DEFINE r == Rotated(d, w, n)
           u == Rewound(d, w, n)
<1>0. Len(d) \in Nat /\ Len(d) - n \in Nat
  OBVIOUS
<1>1. /\ Len(d) \in Nat /\ Len(d) - n \in Nat /\ Len(r) = Len(d) - n
      /\ \A i \in 1..(Len(d) - n) :
           /\ r[i].cell = d[n + i].cell
           /\ r[i].alternate =
                LET later == Touches(d, d[n + i].cell, n + i + 1, Len(d))
                IN  IF later = {} THEN w[d[n + i].cell] ELSE d[Least(later)].alternate
  BY <1>0, RotatedFacts, Zenon
<1>2. \A c \in Cells : u[c] = RewoundCell(d, w, n, c)
  BY DEF Rewound
<1> HIDE DEF r, u
<1>3. ASSUME NEW c \in Cells PROVE Redone(r, u)[c] = w[c]
  <2> DEFINE H == Touches(r, c, 1, Len(r))
  <2>1. H \in SUBSET (1..Len(r)) /\ Len(r) \in Nat
    BY <1>1 DEF Touches
  <2>2. CASE H = {}
    <3>1. ASSUME NEW i \in Touches(d, c, n + 1, Len(d)) PROVE FALSE
      <4>1. i \in n + 1..Len(d) /\ d[i].cell = c
        BY DEF Touches
      <4>2. i - n \in 1..(Len(d) - n) /\ n + (i - n) = i
        BY <1>1, <4>1
      <4>3. i - n \in H
        BY <1>1, <4>1, <4>2, Zenon DEF Touches
      <4> QED
        BY <2>2, <4>3
    <3>2. u[c] = w[c]
      BY <1>2, <3>1 DEF RewoundCell
    <3> QED
      BY <2>2, <3>2 DEF Redone
  <2>3. CASE H # {}
    <3> DEFINE g == Greatest(H)
    <3>1. g \in H /\ \A j \in H : j <= g
      BY <2>1, <2>3, GreatestFacts, Zenon
    <3>2. g \in 1..(Len(d) - n) /\ d[n + g].cell = c
      BY <1>1, <3>1, Zenon DEF Touches
    <3>3. ASSUME NEW i \in Touches(d, c, n + g + 1, Len(d)) PROVE FALSE
      <4>1. i \in n + g + 1..Len(d) /\ d[i].cell = c
        BY DEF Touches
      <4>2. i - n \in 1..(Len(d) - n) /\ n + (i - n) = i /\ g < i - n
        BY <1>1, <3>2, <4>1
      <4>3. i - n \in H
        BY <1>1, <4>1, <4>2, Zenon DEF Touches
      <4> QED
        BY <3>1, <3>2, <4>2, <4>3
    <3>4. r[g].alternate = w[c]
      <4>1. Touches(d, d[n + g].cell, n + g + 1, Len(d)) = {}
        BY <3>2, <3>3
      <4> QED
        BY <1>1, <3>2, <4>1, Zenon
    <3> QED
      BY <2>3, <3>4 DEF Redone
  <2> QED
    BY <2>2, <2>3
<1>4. Redone(r, u) = [c \in Cells |-> w[c]]
  <2>1. Redone(r, u) = [c \in Cells |-> Redone(r, u)[c]]
    BY DEF Redone
  <2> QED
    BY <1>3, <2>1
<1> QED
  BY <1>4 DEF r, u, Words

\* Redoing also gives the deltas back, word for word.
LEMMA UnrotatedInverts ==
    ASSUME NEW d \in Seq(Delta), NEW w \in Words, NEW n \in Nat, n <= Len(d)
    PROVE  LET v == Unrotated(Rotated(d, w, n), Rewound(d, w, n))
           IN  /\ v \in Seq(Delta)
               /\ Len(v) = Len(d) - n
               /\ \A i \in 1..(Len(d) - n) : v[i] = d[n + i]
<1> DEFINE r == Rotated(d, w, n)
           u == Rewound(d, w, n)
           earlier(i) == Touches(r, r[i].cell, 1, i - 1)
           word(i) == IF earlier(i) = {} THEN u[r[i].cell] ELSE r[Greatest(earlier(i))].alternate
<1>0. Len(d) \in Nat /\ Len(d) - n \in Nat
  OBVIOUS
<1>1. /\ Len(d) \in Nat /\ Len(d) - n \in Nat /\ Len(r) = Len(d) - n
      /\ r \in Seq(Delta)
      /\ \A i \in 1..(Len(d) - n) :
           /\ r[i].cell = d[n + i].cell
           /\ r[i].key = d[n + i].key
           /\ r[i].alternate =
                LET later == Touches(d, d[n + i].cell, n + i + 1, Len(d))
                IN  IF later = {} THEN w[d[n + i].cell] ELSE d[Least(later)].alternate
  BY <1>0, RotatedFacts, Zenon
<1>2. \A c \in Cells : u[c] = RewoundCell(d, w, n, c)
  BY DEF Rewound
<1>3. Unrotated(r, u) = [i \in 1..(Len(d) - n) |-> [r[i] EXCEPT !.alternate = word(i)]]
  BY <1>1 DEF Unrotated
<1> HIDE DEF r, u
<1>4. ASSUME NEW i \in 1..(Len(d) - n) PROVE d[n + i] \in Delta /\ word(i) = d[n + i].alternate
  <2> DEFINE c == d[n + i].cell
             E == earlier(i)
  <2>1. n + i \in 1..Len(d) /\ i \in Nat /\ i - 1 \in Nat
    BY <1>1
  <2>2. d[n + i] \in Delta /\ c \in Cells /\ r[i].cell = c
    <3>1. d[n + i] \in Delta
      BY <2>1, ElementOfSeq
    <3>2. r[i].cell = c
      BY <1>1, Zenon
    <3> QED
      BY <3>1, <3>2 DEF Delta
  <2>3. E \in SUBSET (1..(i - 1))
    BY <2>1 DEF Touches
  <2>4. CASE E = {}
    <3> DEFINE H == Touches(d, c, n + 1, Len(d))
    <3>1. H \in SUBSET Nat
      BY <1>1 DEF Touches
    <3>2. n + i \in H
      BY <1>1, <2>1 DEF Touches
    <3>3. ASSUME NEW j \in H PROVE n + i <= j
      <4>1. j \in n + 1..Len(d) /\ d[j].cell = c
        BY DEF Touches
      <4>2. CASE j < n + i
        <5>1. j - n \in 1..(i - 1) /\ j - n \in 1..(Len(d) - n) /\ n + (j - n) = j
          BY <1>1, <2>1, <4>1, <4>2
        <5>2. j - n \in E
          BY <1>1, <2>2, <4>1, <5>1, Zenon DEF Touches
        <5> QED
          BY <2>4, <5>2
      <4> QED
        BY <2>1, <4>1, <4>2
    <3>4. Least(H) = n + i
      BY <3>1, <3>2, <3>3, LeastUnique
    <3>5. u[c] = d[n + i].alternate
      BY <1>2, <2>2, <3>2, <3>4 DEF RewoundCell
    <3> QED
      BY <2>2, <2>4, <3>5
  <2>5. CASE E # {}
    <3> DEFINE g == Greatest(E)
               H == Touches(d, c, n + g + 1, Len(d))
    <3>1. g \in E /\ \A j \in E : j <= g
      BY <2>1, <2>3, <2>5, GreatestFacts, Zenon
    <3>2. g \in 1..(i - 1) /\ g \in 1..(Len(d) - n) /\ r[g].cell = c
      BY <1>1, <2>1, <2>2, <3>1 DEF Touches
    <3>3. d[n + g].cell = c /\ g \in Nat /\ H \in SUBSET Nat
      <4> HIDE DEF g
      <4>1. g \in Nat /\ r[g].cell = d[n + g].cell
        BY <1>1, <3>2
      <4> QED
        BY <1>1, <3>2, <4>1 DEF Touches
    <3>4. n + i \in H
      BY <1>1, <2>1, <3>2 DEF Touches
    <3>5. ASSUME NEW j \in H PROVE n + i <= j
      <4>1. j \in n + g + 1..Len(d) /\ d[j].cell = c
        BY DEF Touches
      <4>2. CASE j < n + i
        <5>1. j - n \in 1..(i - 1) /\ j - n \in 1..(Len(d) - n) /\ n + (j - n) = j /\ g < j - n
          BY <1>1, <2>1, <3>2, <4>1, <4>2
        <5>2. j - n \in E
          BY <1>1, <2>2, <4>1, <5>1, Zenon DEF Touches
        <5> QED
          BY <3>1, <3>2, <5>1, <5>2
      <4> QED
        BY <2>1, <3>2, <4>1, <4>2
    <3>6. Least(H) = n + i
      BY <3>3, <3>4, <3>5, LeastUnique
    <3>7. r[g].alternate = d[n + i].alternate
      BY <1>1, <3>2, <3>3, <3>4, <3>6, Zenon
    <3> QED
      BY <2>2, <2>5, <3>7
  <2> QED
    BY <2>4, <2>5
<1> HIDE DEF word
<1>5. ASSUME NEW i \in 1..(Len(d) - n) PROVE [r[i] EXCEPT !.alternate = word(i)] = d[n + i]
  <2>1. r[i] \in Delta
    BY <1>1, ElementOfSeq
  <2> QED
    BY <1>1, <1>4, <2>1, Zenon DEF Delta
<1>6. Unrotated(r, u) = [i \in 1..(Len(d) - n) |-> d[n + i]]
  BY <1>3, <1>5, Zenon
<1>7. Unrotated(r, u) \in [1..(Len(d) - n) -> Delta]
  BY <1>4, <1>6
<1> QED
  BY <1>1, <1>6, <1>7, IsASeq, LenProperties DEF r, u

-----------------------------------------------------------------------------
(* The inductive invariant.                                                  *)

LaneType ==
    /\ cells \in Words /\ deltas \in Seq(Delta) /\ detached \in Seq(Delta)
    /\ base \in Nat /\ serial \in Nat /\ forked \in BOOLEAN
    /\ cursors \in SUBSET Cursor /\ root \in Cursor
    /\ accepted \in [cells : Words, deltas : Seq(Delta)]

\* No word is of a later epoch than the current one.
Older(w, d) ==
    /\ \A c \in Cells : w[c].serial <= serial
    /\ \A i \in 1..Len(d) : d[i].alternate.serial <= serial

\* Every held cursor that d validates leads back to its checkpoint.
Exact(w, d) ==
    \A k \in cursors : Validates(d, k) =>
        \A c \in Cells : RewoundCell(d, w, k.chunks - base, c) = k.cells[c]

\* A cell of the current epoch has a delta after every valid mark.
Touched ==
    \A k \in cursors : ValidatesCheckpoint(k) =>
        \A c \in Cells : cells[c].serial = serial =>
            Touches(deltas, c, k.chunks - base + 1, Len(deltas)) # {}

\* What a fork sets aside can be put back at its root.
Aside ==
    LET n == root.chunks - base
    IN  /\ root \in cursors
        /\ ValidatesCheckpoint(root)
        /\ n <= Len(accepted.deltas)
        /\ \A i \in 1..n : accepted.deltas[i] = deltas[i]
        /\ detached = Rotated(accepted.deltas, accepted.cells, n)
        /\ \A c \in Cells :
             RewoundCell(accepted.deltas, accepted.cells, n, c) = root.cells[c]
        /\ \A i \in n + 1..Len(deltas), j \in 1..Len(detached) :
             deltas[i].key # detached[j].key
        /\ Exact(accepted.cells, accepted.deltas)
        /\ Older(accepted.cells, accepted.deltas)

LaneInv == /\ LaneType
           /\ Older(cells, deltas)
           /\ Exact(cells, deltas)
           /\ Touched
           /\ forked => Aside

\* Rewound words are words, and no newer than those they come from.
LEMMA RewoundFacts ==
    ASSUME NEW d \in Seq(Delta), NEW w \in Words, NEW n \in Nat, n <= Len(d),
           NEW m \in Nat,
           \A c \in Cells : w[c].serial <= m,
           \A i \in 1..Len(d) : d[i].alternate.serial <= m
    PROVE  /\ Rewound(d, w, n) \in Words
           /\ \A c \in Cells : Rewound(d, w, n)[c].serial <= m
<1>1. ASSUME NEW c \in Cells
      PROVE  RewoundCell(d, w, n, c) \in BankCell /\ RewoundCell(d, w, n, c).serial <= m
  <2> DEFINE H == Touches(d, c, n + 1, Len(d))
  <2>1. CASE H = {}
    BY <2>1 DEF RewoundCell, Words
  <2>2. CASE H # {}
    <3>1. H \in SUBSET Nat /\ Len(d) \in Nat
      BY DEF Touches
    <3>2. Least(H) \in H
      BY <2>2, <3>1, LeastFacts
    <3>3. Least(H) \in 1..Len(d)
      BY <3>1, <3>2 DEF Touches
    <3>4. d[Least(H)] \in Delta
      BY <3>3, ElementOfSeq
    <3> QED
      BY <2>2, <3>3, <3>4 DEF RewoundCell, Delta
  <2> QED
    BY <2>1, <2>2
<1> QED
  BY <1>1 DEF Rewound, Words

\* Going back to k keeps the type, the age and the exactness of the lane.
LEMMA TruncateKeeps ==
    ASSUME LaneType, Older(cells, deltas), Exact(cells, deltas),
           NEW k \in cursors, ValidatesCheckpoint(k)
    PROVE  LET n == k.chunks - base
               d == SubSeq(deltas, 1, n)
               w == Rewound(deltas, cells, n)
           IN  /\ n \in Nat /\ n <= Len(deltas)
               /\ d \in Seq(Delta) /\ Len(d) = n
               /\ \A i \in 1..n : d[i] = deltas[i]
               /\ w \in Words
               /\ Older(w, d)
               /\ Exact(w, d)
<1> DEFINE n == k.chunks - base
           d == SubSeq(deltas, 1, n)
           w == Rewound(deltas, cells, n)
<1>1. n \in Nat /\ n <= Len(deltas) /\ Len(deltas) \in Nat
  BY DEF LaneType, Cursor, ValidatesCheckpoint, Validates
<1> HIDE DEF n
<1>2. d \in Seq(Delta) /\ Len(d) = n /\ \A i \in 1..n : d[i] = deltas[i]
  BY <1>1 DEF LaneType
<1>3. w \in Words /\ \A c \in Cells : w[c].serial <= serial
  BY <1>1, RewoundFacts, Zenon DEF LaneType, Older
<1>4. Older(w, d)
  BY <1>1, <1>2, <1>3 DEF Older
<1>5. ASSUME NEW j \in cursors, Validates(d, j), NEW c \in Cells
      PROVE  RewoundCell(d, w, j.chunks - base, c) = j.cells[c]
  <2>1. j.chunks - base \in Nat /\ j.chunks - base <= n /\ j.chunks \in Nat /\ base \in Nat
    BY SMTT(60), <1>2, <1>5 DEF LaneType, Cursor, Validates
  <2>2. Validates(deltas, j)
    BY <1>1, <1>2, <1>5, <2>1 DEF Validates
  <2>3. RewoundCell(deltas, cells, j.chunks - base, c) = j.cells[c]
    BY <2>2 DEF Exact
  <2> QED
    BY <1>1, <2>1, <2>3, RewindTruncates DEF LaneType
<1>6. Exact(w, d)
  BY <1>5 DEF Exact
<1> QED
  BY <1>1, <1>2, <1>3, <1>4, <1>6 DEF n

-----------------------------------------------------------------------------
(* One lemma for every action.                                               *)

\* A fresh lane satisfies the invariant (SaveJournal::new).
LEMMA InitKeeps == LInit => LaneInv
<1> SUFFICES ASSUME LInit PROVE LaneInv
  OBVIOUS
<1>1. FirstCells \in Words /\ \A c \in Cells : FirstCells[c].serial = 0
  BY LaneAssumption DEF Words, BankCell
<1>2. LaneType
  <2>1. <<>> \in Seq(Delta)
    OBVIOUS
  <2>2. root \in Cursor
    BY <1>1 DEF LInit, NoCursor, NoKey, Cursor
  <2>3. accepted \in [cells : Words, deltas : Seq(Delta)]
    BY <1>1, <2>1 DEF LInit, NothingAccepted
  <2> QED
    BY <1>1, <2>1, <2>2, <2>3, Zenon DEF LInit, LaneType
<1>3. Older(cells, deltas)
  BY <1>1 DEF LInit, Older
<1> QED
  BY <1>2, <1>3 DEF LInit, LaneInv, Exact, Touched

\* A step that only advances the epoch leaves no cell of the current epoch.
LEMMA NewEpoch ==
    ASSUME LaneType, LaneType', serial' = serial + 1,
           \A c \in Cells : cells'[c].serial <= serial
    PROVE  Touched'
<1>1. \A c \in Cells : cells'[c].serial # serial'
  BY SMTT(60) DEF LaneType, Words, BankCell
<1> QED
  BY <1>1 DEF Touched

\* Words no newer than an epoch are no newer than the next.
LEMMA StillOlder ==
    ASSUME NEW w \in Words, NEW d \in Seq(Delta), NEW m \in Nat,
           \A c \in Cells : w[c].serial <= m,
           \A i \in 1..Len(d) : d[i].alternate.serial <= m
    PROVE  /\ \A c \in Cells : w[c].serial <= m + 1
           /\ \A i \in 1..Len(d) : d[i].alternate.serial <= m + 1
<1>1. \A c \in Cells : w[c].serial \in Nat
  BY Zenon DEF Words, BankCell
<1>2. ASSUME NEW i \in 1..Len(d) PROVE d[i].alternate.serial \in Nat
  <2>1. d[i] \in Delta
    BY ElementOfSeq
  <2> QED
    BY <2>1 DEF Delta, BankCell
<1> QED
  BY <1>1, <1>2

\* What a fork set aside stays as long as the deltas before its root do, and no
\* new delta takes a detached key.
LEMMA AsideStays ==
    ASSUME Aside, UNCHANGED <<base, root, accepted, detached>>, root \in cursors',
           Validates(deltas', root),
           \A i \in 1..(root.chunks - base) : deltas'[i] = deltas[i],
           \A i \in root.chunks - base + 1..Len(deltas'), j \in 1..Len(detached) :
             deltas'[i].key # detached[j].key,
           Exact(accepted.cells, accepted.deltas)', Older(accepted.cells, accepted.deltas)'
    PROVE  Aside'
<1> DEFINE n == root.chunks - base
           a == accepted.deltas
           v == accepted.cells
<1>1. /\ n <= Len(a) /\ detached = Rotated(a, v, n)
      /\ \A c \in Cells : RewoundCell(a, v, n, c) = root.cells[c]
      /\ \A i \in 1..n : a[i] = deltas[i]
  BY Zenon DEF Aside
<1>2. \A i \in 1..n : a[i] = deltas'[i]
  BY <1>1, Zenon
<1>3. ValidatesCheckpoint(root)'
  BY Zenon DEF ValidatesCheckpoint, Validates
<1> QED
  BY <1>1, <1>2, <1>3, ZenonT(60) DEF Aside

\* Writing cells under the first-touch contract (record_mutation) keeps it: only a
\* new delta can change where a mark leads, and it holds the displaced word.
LEMMA MutateKeeps ==
    ASSUME LaneInv, Mutate
    PROVE  LaneInv'
<1> USE DEF LaneInv
<1>1. LaneType'
  BY DEF LaneType, Mutate, Words, Delta
<1>2. /\ Len(deltas) \in Nat /\ Len(deltas') \in Nat /\ Len(deltas) <= Len(deltas')
      /\ deltas \in Seq(Delta) /\ deltas' \in Seq(Delta)
      /\ \A i \in 1..Len(deltas) : deltas'[i] = deltas[i]
      /\ \A i \in Len(deltas) + 1..Len(deltas') :
           /\ deltas'[i].cell \in Cells
           /\ deltas'[i].alternate = cells[deltas'[i].cell]
           /\ deltas'[i].key \notin Keys(detached) \cup {k.tail : k \in cursors}
  BY <1>1 DEF LaneType, Mutate, Records, KeysInUse
<1>3. UNCHANGED <<base, serial, forked, detached, root, cursors, accepted>>
  BY DEF Mutate
<1>4. ASSUME NEW c \in Cells
      PROVE  \/ cells'[c] = cells[c]
             \/ /\ cells'[c].serial = serial
                /\ \/ cells[c].serial = serial
                   \/ \E i \in Len(deltas) + 1..Len(deltas') : deltas'[i].cell = c
  BY DEF Mutate
<1>5. ASSUME NEW k \in cursors, Validates(deltas', k)
      PROVE  /\ Validates(deltas, k)
             /\ k.chunks - base \in Nat /\ k.chunks - base <= Len(deltas)
  <2>1. k.chunks \in Nat /\ base \in Nat
    BY DEF LaneType, Cursor
  <2>2. CASE k.chunks = base
    BY <1>2, <2>1, <2>2 DEF Validates
  <2>3. CASE k.chunks # base
    <3>1. k.chunks - base \in 1..Len(deltas') /\ k.tail = deltas'[k.chunks - base].key
      BY <1>2, <1>5, <2>1, <2>3 DEF Validates
    <3>2. k.chunks - base \notin Len(deltas) + 1..Len(deltas')
      BY <1>2, <3>1
    <3>3. k.chunks - base \in 1..Len(deltas)
      BY <1>2, <3>1, <3>2
    <3> QED
      BY <1>2, <1>5, <2>1, <3>1, <3>3 DEF Validates
  <2> QED
    BY <2>2, <2>3
<1>6. Older(cells', deltas')
  <2>1. \A c \in Cells : cells'[c].serial <= serial
    BY <1>4 DEF Older, LaneType
  <2>2. ASSUME NEW i \in 1..Len(deltas') PROVE deltas'[i].alternate.serial <= serial
    <3>1. CASE i \in 1..Len(deltas)
      BY <1>2, <3>1 DEF Older
    <3>2. CASE i \in Len(deltas) + 1..Len(deltas')
      BY <1>2, <3>2 DEF Older
    <3> QED
      BY <1>2, <3>1, <3>2
  <2> QED
    BY <2>1, <2>2 DEF Older
<1>7. ASSUME NEW k \in cursors, Validates(deltas, k), NEW c \in Cells,
             cells'[c] # cells[c]
      PROVE  Touches(deltas', c, k.chunks - base + 1, Len(deltas')) # {}
  <2>1. k.chunks - base \in Nat /\ k.chunks - base <= Len(deltas)
    BY <1>7 DEF LaneType, Cursor, Validates
  <2>2. CASE cells[c].serial = serial
    <3>1. PICK i : i \in Touches(deltas, c, k.chunks - base + 1, Len(deltas))
      BY <1>7, <2>2 DEF Touched, ValidatesCheckpoint
    <3>2. i \in Touches(deltas', c, k.chunks - base + 1, Len(deltas'))
      BY <1>2, <2>1, <3>1 DEF Touches
    <3> QED
      BY <3>2
  <2>3. CASE \E i \in Len(deltas) + 1..Len(deltas') : deltas'[i].cell = c
    BY <1>2, <2>1, <2>3 DEF Touches
  <2> QED
    BY <1>4, <1>7, <2>2, <2>3
<1>8. Exact(cells, deltas)'
  <2> SUFFICES ASSUME NEW k \in cursors, Validates(deltas', k), NEW c \in Cells
               PROVE  RewoundCell(deltas', cells', k.chunks - base, c) = k.cells[c]
    BY <1>3 DEF Exact, Validates
  <2>1. Validates(deltas, k) /\ k.chunks - base \in Nat /\ k.chunks - base <= Len(deltas)
    BY <1>5
  <2>2. \/ Touches(deltas', c, k.chunks - base + 1, Len(deltas')) # {}
        \/ cells'[c] = cells[c]
    BY <1>7, <2>1
  <2>3. RewoundCell(deltas', cells', k.chunks - base, c)
          = RewoundCell(deltas, cells, k.chunks - base, c)
    <3> HIDE DEF LaneInv
    <3>1. Displaces(deltas, deltas', cells)
      BY <1>2, Zenon DEF Displaces
    <3>2. deltas \in Seq(Delta) /\ deltas' \in Seq(Delta)
      BY <1>2, Zenon
    <3> QED
      BY <2>1, <2>2, <3>1, <3>2, RewindExtends
  <2> QED
    BY <2>1, <2>3 DEF Exact
<1>9. Touched'
  <2> SUFFICES ASSUME NEW k \in cursors, Validates(deltas', k), NEW c \in Cells,
                      cells'[c].serial = serial
               PROVE  Touches(deltas', c, k.chunks - base + 1, Len(deltas')) # {}
    BY <1>3 DEF Touched, ValidatesCheckpoint, Validates
  <2>1. Validates(deltas, k) /\ k.chunks - base \in Nat /\ k.chunks - base <= Len(deltas)
    BY <1>5
  <2>2. CASE cells'[c] = cells[c]
    <3>1. PICK i : i \in Touches(deltas, c, k.chunks - base + 1, Len(deltas))
      BY <2>1, <2>2 DEF Touched, ValidatesCheckpoint
    <3>2. i \in Touches(deltas', c, k.chunks - base + 1, Len(deltas'))
      BY <1>2, <2>1, <3>1 DEF Touches
    <3> QED
      BY <3>2
  <2> QED
    BY <1>7, <2>1, <2>2
<1>10. ASSUME forked PROVE Aside'
  <2> DEFINE n == root.chunks - base
  <2>0. /\ Aside /\ detached \in Seq(Delta)
        /\ root.chunks \in Nat /\ base \in Nat
    BY <1>10 DEF LaneType, Cursor
  <2> HIDE DEF LaneInv
  <2>1. /\ root \in cursors /\ Validates(deltas, root)
        /\ \A i \in n + 1..Len(deltas), j \in 1..Len(detached) : deltas[i].key # detached[j].key
    BY <2>0, Zenon DEF Aside, ValidatesCheckpoint
  <2>2. n \in Nat /\ n <= Len(deltas) /\ (root.chunks # base => n \in 1..Len(deltas))
    BY <1>2, <2>0, <2>1 DEF Validates
  <2>3. Validates(deltas', root)
    BY <1>2, <1>3, <2>0, <2>1, <2>2 DEF Validates
  <2>4. \A i \in n + 1..Len(deltas'), j \in 1..Len(detached) :
          deltas'[i].key # detached[j].key
    <3> SUFFICES ASSUME NEW i \in n + 1..Len(deltas'), NEW j \in 1..Len(detached)
                 PROVE  deltas'[i].key # detached[j].key
      OBVIOUS
    <3>1. CASE i <= Len(deltas)
      <4>1. deltas'[i] = deltas[i] /\ i \in n + 1..Len(deltas)
        BY <1>2, <2>2, <3>1
      <4> QED
        BY <2>1, <4>1
    <3>2. CASE i > Len(deltas)
      <4>1. i \in Len(deltas) + 1..Len(deltas')
        BY <1>2, <2>2, <3>2
      <4>2. detached[j].key \in Keys(detached)
        BY <2>0 DEF Keys
      <4> QED
        BY <1>2, <4>1, <4>2
    <3> QED
      BY <1>2, <2>2, <3>1, <3>2
  <2>5. Exact(accepted.cells, accepted.deltas) /\ Older(accepted.cells, accepted.deltas)
    BY <2>0, Zenon DEF Aside
  <2>6. Exact(accepted.cells, accepted.deltas)' /\ Older(accepted.cells, accepted.deltas)'
    BY <1>3, <2>5, Zenon DEF Exact, Older, Validates
  <2>7. \A i \in 1..n : deltas'[i] = deltas[i]
    BY <1>2, <2>2
  <2> QED
    BY <1>3, <2>0, <2>1, <2>3, <2>4, <2>6, <2>7, AsideStays, Zenon
<1> QED
  BY <1>1, <1>3, <1>6, <1>8, <1>9, <1>10 DEF Older

\* Sealing a boundary keeps it: the new cursor leads to the present cells
\* (checkpoint_cursor).
LEMMA CheckpointKeeps ==
    ASSUME LaneInv, Checkpoint
    PROVE  LaneInv'
<1> USE DEF LaneInv
<1>1. /\ serial \in Nat /\ serial' = serial + 1 /\ cursors' = cursors \cup {SealBoundary}
      /\ UNCHANGED <<cells, deltas, base, forked, detached, root, accepted>>
  BY DEF Checkpoint, LaneType
<1>2. Len(deltas) \in Nat /\ base \in Nat /\ deltas \in Seq(Delta)
  BY DEF LaneType
<1> DEFINE s == SealBoundary
<1>3. s \in Cursor /\ s.chunks = base + Len(deltas) /\ s.cells = cells
  <2>1. deltas # <<>> => deltas[Len(deltas)] \in Delta
    BY <1>2, ElementOfSeq
  <2> QED
    BY <1>2, <2>1 DEF SealBoundary, Cursor, LaneType, NoKey, Delta
<1>4. LaneType'
  BY <1>1, <1>3 DEF LaneType
<1>5. Older(cells, deltas)'
  BY <1>1, StillOlder, Zenon DEF Older, LaneType
<1>6. \A c \in Cells : RewoundCell(deltas, cells, s.chunks - base, c) = cells[c]
  <2>1. \A c \in Cells : Touches(deltas, c, s.chunks - base + 1, Len(deltas)) = {}
    BY <1>2, <1>3 DEF Touches
  <2> QED
    BY <2>1, Zenon DEF RewoundCell
<1>7. Exact(cells, deltas)'
  BY <1>1, <1>3, <1>6 DEF Exact, Validates
<1>8. Touched'
  BY <1>1, <1>4, NewEpoch DEF Older
<1>9. ASSUME forked PROVE Aside'
  <2> DEFINE n == root.chunks - base
             a == accepted.deltas
             v == accepted.cells
  <2>2. a \in Seq(Delta) /\ Len(a) \in Nat /\ v \in Words
    BY DEF LaneType
  <2>0. Aside /\ root.chunks \in Nat /\ Exact(cells, deltas)
    BY <1>9 DEF LaneType, Cursor
  <2> HIDE DEF LaneInv
  <2>a. /\ root \in cursors /\ Validates(deltas, root) /\ n <= Len(a)
        /\ detached = Rotated(a, v, n) /\ Older(v, a) /\ Exact(v, a)
        /\ \A c \in Cells : RewoundCell(a, v, n, c) = root.cells[c]
        /\ \A i \in n + 1..Len(deltas), j \in 1..Len(detached) : deltas[i].key # detached[j].key
    BY <2>0, Zenon DEF Aside, ValidatesCheckpoint
  <2>1. n \in Nat /\ n <= Len(deltas) /\ n <= Len(a)
    BY <1>2, <2>0, <2>a DEF Validates
  <2>3. Older(v, a)'
    BY <1>1, <2>2, <2>a, StillOlder, Zenon DEF Older
  <2>4. ASSUME Validates(a, s), NEW c \in Cells
        PROVE  RewoundCell(a, v, s.chunks - base, c) = s.cells[c]
    <3>1. CASE Len(deltas) = n
      <4>1. s.chunks = root.chunks
        BY <1>2, <1>3, <2>0, <3>1
      <4>2. RewoundCell(deltas, cells, root.chunks - base, c) = root.cells[c]
        BY <2>0, <2>a, Zenon DEF Exact
      <4>3. cells[c] = root.cells[c]
        BY <1>6, <4>1, <4>2
      <4> QED
        BY <1>3, <2>a, <4>1, <4>3
    <3>2. CASE Len(deltas) # n
      <4> DEFINE l == Len(deltas)
      <4>1. l \in n + 1..Len(deltas) /\ l - n \in 1..(Len(a) - n) /\ n + (l - n) = l
        <5>1. s.chunks <= base + Len(a)
          BY <2>4 DEF Validates
        <5> HIDE DEF s, n, a
        <5> QED
          BY <1>2, <1>3, <2>1, <2>2, <3>2, <5>1
      <4>2. s.tail = deltas[l].key /\ s.chunks - base = l /\ s.chunks # base
        <5>1. l \in Nat /\ l # 0 /\ base \in Nat /\ s.chunks = base + l
          BY <1>2, <1>3, <2>1, <3>2
        <5>2. deltas # <<>>
          BY <5>1
        <5>3. s.tail = deltas[l].key
          BY <5>2 DEF SealBoundary
        <5> HIDE DEF s, l
        <5> QED
          BY <5>1, <5>3
      <4>3. a[l].key = deltas[l].key
        BY <2>4, <4>2 DEF Validates
      <4>4. Len(detached) = Len(a) - n /\ detached[l - n].key = a[l].key
        <5>1. detached = Rotated(a, v, n)
          BY <2>a
        <5>2. /\ Len(Rotated(a, v, n)) = Len(a) - n
              /\ \A i \in 1..(Len(a) - n) : Rotated(a, v, n)[i].key = a[n + i].key
          BY <2>1, <2>2, RotatedFacts, Zenon
        <5> QED
          BY <4>1, <5>1, <5>2
      <4>5. deltas[l].key # detached[l - n].key
        BY <2>a, <4>1, <4>4
      <4> QED
        BY <4>3, <4>4, <4>5
    <3> QED
      BY <3>1, <3>2
  <2>5. Exact(v, a)'
    BY <1>1, <2>4, <2>a DEF Exact, Validates
  <2>6. root \in cursors' /\ Validates(deltas', root)
    BY <1>1, <2>a, Zenon DEF Validates
  <2> QED
    BY <1>1, <2>0, <2>3, <2>5, <2>6, <2>a, AsideStays, Zenon
<1> QED
  BY <1>1, <1>4, <1>5, <1>7, <1>8, <1>9

\* A destructive return to a checkpoint keeps it (truncate_checkpoint).
LEMMA RestoreKeeps ==
    ASSUME LaneInv, NEW k \in cursors, Restore(k)
    PROVE  LaneInv'
<1> USE DEF LaneInv
<1> DEFINE n == k.chunks - base
           d == SubSeq(deltas, 1, n)
           w == Rewound(deltas, cells, n)
<1>1. /\ serial \in Nat /\ serial' = serial + 1 /\ cells' = w /\ deltas' = d
      /\ forked => root.chunks <= k.chunks
      /\ UNCHANGED <<base, forked, detached, root, cursors, accepted>>
  BY DEF Restore, LaneType
<1>2. /\ n \in Nat /\ n <= Len(deltas) /\ d \in Seq(Delta) /\ Len(d) = n
      /\ \A i \in 1..n : d[i] = deltas[i]
      /\ w \in Words /\ Older(w, d) /\ Exact(w, d)
  BY TruncateKeeps DEF Restore
<1> HIDE DEF n, d, w
<1>3. LaneType'
  <2>1. /\ base \in Nat /\ forked \in BOOLEAN /\ detached \in Seq(Delta)
        /\ cursors \in SUBSET Cursor /\ root \in Cursor
        /\ accepted \in [cells : Words, deltas : Seq(Delta)]
    BY DEF LaneType
  <2> HIDE DEF LaneInv
  <2>2. serial' \in Nat
    BY <1>1
  <2> QED
    BY <1>1, <1>2, <2>1, <2>2, Zenon DEF LaneType
<1>4. Older(cells, deltas)'
  BY <1>1, <1>2, StillOlder, Zenon DEF Older
<1>5. Exact(cells, deltas)'
  BY <1>1, <1>2 DEF Exact, Validates
<1>6. Touched'
  BY <1>1, <1>2, <1>3, NewEpoch DEF Older
<1>7. ASSUME forked PROVE Aside'
  <2> DEFINE m == root.chunks - base
  <2>0. /\ Aside /\ accepted.cells \in Words /\ accepted.deltas \in Seq(Delta)
        /\ root.chunks \in Nat /\ base \in Nat /\ k.chunks \in Nat /\ Len(deltas) \in Nat
    BY <1>7 DEF LaneType, Cursor
  <2> HIDE DEF LaneInv
  <2>1. /\ root \in cursors /\ Validates(deltas, root)
        /\ Exact(accepted.cells, accepted.deltas) /\ Older(accepted.cells, accepted.deltas)
        /\ \A i \in m + 1..Len(deltas), j \in 1..Len(detached) : deltas[i].key # detached[j].key
    BY <2>0, Zenon DEF Aside, ValidatesCheckpoint
  <2>2. m \in Nat /\ m <= n /\ root.chunks <= base + n /\ (root.chunks # base => m \in 1..n)
    BY <1>1, <1>7, <2>0, <2>1 DEF Validates, n
  <2>3. Validates(deltas', root)
    BY <1>1, <1>2, <2>1, <2>2 DEF Validates
  <2>4. \A i \in m + 1..Len(deltas'), j \in 1..Len(detached) :
          deltas'[i].key # detached[j].key
    <3> SUFFICES ASSUME NEW i \in m + 1..Len(deltas'), NEW j \in 1..Len(detached)
                 PROVE  deltas'[i].key # detached[j].key
      OBVIOUS
    <3> HIDE DEF m
    <3>1. i \in m + 1..Len(deltas) /\ i \in 1..n
      BY <1>1, <1>2, <2>0, <2>2
    <3>2. deltas'[i] = deltas[i]
      BY <1>1, <1>2, <3>1
    <3> QED
      BY <2>1, <3>1, <3>2 DEF m
  <2>5. Older(accepted.cells, accepted.deltas)'
    BY <1>1, <2>0, <2>1, StillOlder, Zenon DEF Older
  <2>6. Exact(accepted.cells, accepted.deltas)'
    BY <1>1, <2>1, Zenon DEF Exact, Validates
  <2>7. \A i \in 1..m : deltas'[i] = deltas[i]
    <3> HIDE DEF m
    <3> QED
      BY <1>1, <1>2, <2>2
  <2> QED
    BY <1>1, <2>0, <2>1, <2>3, <2>4, <2>5, <2>6, <2>7, AsideStays, Zenon
<1> QED
  BY <1>1, <1>3, <1>4, <1>5, <1>6, <1>7

\* Detaching the accepted suffix for a candidate keeps it
\* (begin_checkpoint_candidate).
LEMMA BeginKeeps ==
    ASSUME LaneInv, NEW k \in cursors, BeginCandidate(k)
    PROVE  LaneInv'
<1> USE DEF LaneInv
<1> DEFINE n == k.chunks - base
           d == SubSeq(deltas, 1, n)
           w == Rewound(deltas, cells, n)
<1>1. /\ serial \in Nat /\ serial' = serial + 1 /\ cells' = w /\ deltas' = d
      /\ forked' = TRUE /\ root' = k /\ detached' = Rotated(deltas, cells, n)
      /\ accepted' = [cells |-> cells, deltas |-> deltas]
      /\ UNCHANGED <<base, cursors>>
  BY DEF BeginCandidate, LaneType
<1>2. /\ n \in Nat /\ n <= Len(deltas) /\ d \in Seq(Delta) /\ Len(d) = n
      /\ \A i \in 1..n : d[i] = deltas[i]
      /\ w \in Words /\ Older(w, d) /\ Exact(w, d)
  BY TruncateKeeps DEF BeginCandidate
<1>3. Rotated(deltas, cells, n) \in Seq(Delta)
  BY <1>2, RotatedFacts, Zenon DEF LaneType
<1> HIDE DEF n, d, w
<1>4. LaneType'
  <2>1. /\ cells \in Words /\ deltas \in Seq(Delta) /\ base \in Nat
        /\ cursors \in SUBSET Cursor
    BY DEF LaneType
  <2> HIDE DEF LaneInv
  <2>2. serial' \in Nat /\ base' \in Nat /\ cursors' \in SUBSET Cursor /\ root' \in Cursor
    BY <1>1, <2>1
  <2>3. accepted' \in [cells : Words, deltas : Seq(Delta)]
    BY <1>1, <2>1
  <2>4. cells' \in Words /\ deltas' \in Seq(Delta) /\ detached' \in Seq(Delta)
    BY <1>1, <1>2, <1>3
  <2>5. forked' \in BOOLEAN
    BY <1>1, Zenon
  <2> QED
    BY <2>2, <2>3, <2>4, <2>5 DEF LaneType
<1>5. Older(cells, deltas)'
  BY <1>1, <1>2, StillOlder, Zenon DEF Older
<1>6. Exact(cells, deltas)'
  BY <1>1, <1>2 DEF Exact, Validates
<1>7. Touched'
  BY <1>1, <1>2, <1>4, NewEpoch DEF Older
<1>8. Aside'
  <2>1. /\ Validates(deltas, k) /\ Exact(cells, deltas) /\ Older(cells, deltas)
        /\ cells \in Words /\ deltas \in Seq(Delta) /\ base \in Nat /\ k.chunks \in Nat
    BY DEF BeginCandidate, ValidatesCheckpoint, LaneType, Cursor
  <2> HIDE DEF LaneInv
  <2>2. /\ n = k.chunks - base /\ k.chunks <= base + n /\ (k.chunks # base => n \in 1..n)
        /\ n + 1..n = {}
    BY <1>2, <2>1 DEF n
  <2>3. ValidatesCheckpoint(root)'
    BY <1>1, <1>2, <2>1, <2>2 DEF Validates, ValidatesCheckpoint
  <2>4. \A c \in Cells : RewoundCell(deltas, cells, n, c) = k.cells[c]
    BY <2>1, <2>2, Zenon DEF Exact
  <2>5. accepted'.cells = cells /\ accepted'.deltas = deltas
    BY <1>1
  <2>6. Older(accepted.cells, accepted.deltas)'
    BY <1>1, <2>1, <2>5, StillOlder, Zenon DEF Older
  <2>7. Exact(accepted.cells, accepted.deltas)'
    BY <1>1, <2>1, <2>5, Zenon DEF Exact, Validates
  <2>8. /\ root'.chunks - base' = n /\ root' \in cursors'
        /\ n <= Len(accepted'.deltas) /\ detached' = Rotated(accepted'.deltas, accepted'.cells, n)
    BY <1>1, <1>2, <2>2, <2>5
  <2>9. \A i \in 1..n : accepted'.deltas[i] = deltas'[i]
    BY <1>1, <1>2, <2>5, Zenon
  <2>10. /\ \A c \in Cells : RewoundCell(accepted'.deltas, accepted'.cells, n, c) = root'.cells[c]
         /\ n + 1..Len(deltas') = {}
    BY <1>1, <1>2, <2>2, <2>4, <2>5
  <2> QED
    BY <2>3, <2>6, <2>7, <2>8, <2>9, <2>10, Zenon DEF Aside
<1> QED
  BY <1>4, <1>5, <1>6, <1>7, <1>8

\* What rejection puts back is what the fork set aside.
LEMMA RejectPutsBack ==
    ASSUME LaneInv, RejectCandidate
    PROVE  cells' = accepted.cells /\ deltas' = accepted.deltas
<1> USE DEF LaneInv
<1> DEFINE n == root.chunks - base
           a == accepted.deltas
           v == accepted.cells
           w == Rewound(deltas, cells, n)
           b == Unrotated(detached, w)
<1>0. /\ Aside /\ Exact(cells, deltas)
      /\ root.chunks \in Nat /\ base \in Nat /\ Len(deltas) \in Nat
  BY DEF RejectCandidate, LaneType, Cursor
<1>a. /\ root \in cursors /\ Validates(deltas, root) /\ n <= Len(a)
      /\ \A i \in 1..n : a[i] = deltas[i]
      /\ detached = Rotated(a, v, n)
      /\ \A c \in Cells : RewoundCell(a, v, n, c) = root.cells[c]
  BY <1>0, Zenon DEF Aside, ValidatesCheckpoint
<1>1. n \in Nat /\ n <= Len(deltas) /\ n <= Len(a) /\ Len(deltas) \in Nat
  BY <1>0, <1>a DEF Validates
<1>2. a \in Seq(Delta) /\ v \in Words /\ Len(a) \in Nat /\ deltas \in Seq(Delta)
  BY DEF LaneType
<1>3. cells' = Redone(detached, w) /\ deltas' = SubSeq(deltas, 1, n) \o b
  BY DEF RejectCandidate
<1>4. w = Rewound(a, v, n)
  <2>1. \A c \in Cells : RewoundCell(deltas, cells, n, c) = root.cells[c]
    BY <1>0, <1>a, Zenon DEF Exact
  <2> QED
    BY <1>a, <2>1 DEF Rewound
<1>5. detached = Rotated(a, v, n)
  BY <1>a
<1> HIDE DEF w, LaneInv
<1>6. cells' = v
  BY <1>1, <1>2, <1>3, <1>4, <1>5, RedoneInverts
<1>7. b \in Seq(Delta) /\ Len(b) = Len(a) - n /\ \A i \in 1..(Len(a) - n) : b[i] = a[n + i]
  BY <1>1, <1>2, <1>4, <1>5, UnrotatedInverts, Zenon
<1> DEFINE p == SubSeq(deltas, 1, n)
<1>8. p \in Seq(Delta) /\ Len(p) = n /\ \A i \in 1..n : p[i] = a[i]
  BY <1>1, <1>2, <1>a
<1> HIDE DEF b, p, n, a, v
<1>9. /\ deltas' \in Seq(Delta) /\ Len(deltas') = Len(a)
      /\ \A i \in 1..Len(a) : deltas'[i] = a[i]
  <2>1. deltas' = p \o b
    BY <1>3 DEF p, n
  <2>2. p \o b \in Seq(Delta) /\ Len(p \o b) = Len(a)
    <3>1. p \o b \in Seq(Delta) /\ Len(p \o b) = Len(p) + Len(b)
      BY <1>7, <1>8, ConcatProperties, Zenon
    <3> QED
      BY <1>1, <1>2, <1>7, <1>8, <3>1
  <2>3. ASSUME NEW i \in 1..Len(a) PROVE (p \o b)[i] = a[i]
    <3>1. CASE i <= n
      BY <1>1, <1>2, <1>7, <1>8, <3>1, ConcatProperties
    <3>2. CASE i > n
      <4>1. i - n \in 1..(Len(a) - n) /\ n + (i - n) = i
        BY <1>1, <1>2, <3>2
      <4>2. (p \o b)[i] = b[i - n]
        BY <1>1, <1>2, <1>7, <1>8, <3>2, ConcatProperties
      <4> QED
        BY <1>7, <4>1, <4>2
    <3> QED
      <4>1. i \in Nat /\ n \in Nat
        BY <1>1, <1>2
      <4>2. i <= n \/ i > n
        BY <4>1
      <4> QED
        BY <3>1, <3>2, <4>2, Zenon
  <2> QED
    BY <2>1, <2>2, <2>3
<1>10. deltas' = a
  BY <1>2, <1>9, SeqEqual
<1> QED
  BY <1>6, <1>10 DEF a, v

\* Rejecting the candidate keeps it: the accepted lane is back, with its marks
\* (reject_checkpoint_candidate).
LEMMA RejectKeeps ==
    ASSUME LaneInv, RejectCandidate
    PROVE  LaneInv'
<1> USE DEF LaneInv
<1>1. /\ serial \in Nat /\ serial' = serial + 1 /\ forked' = FALSE /\ detached' = <<>>
      /\ root' = NoCursor /\ accepted' = NothingAccepted
      /\ UNCHANGED <<base, cursors>>
  BY DEF RejectCandidate, SettleFork, LaneType
<1>2. cells' = accepted.cells /\ deltas' = accepted.deltas
  BY RejectPutsBack
<1>3. cells' \in Words /\ deltas' \in Seq(Delta) /\ Aside
  BY <1>2, Zenon DEF LaneType, RejectCandidate
<1>4. NoCursor \in Cursor /\ NothingAccepted \in [cells : Words, deltas : Seq(Delta)]
      /\ <<>> \in Seq(Delta)
  <2>1. FirstCells \in Words
    BY LaneAssumption DEF Words, BankCell
  <2>2. <<>> \in Seq(Delta)
    OBVIOUS
  <2> QED
    BY <2>1, <2>2 DEF NoCursor, NoKey, Cursor, NothingAccepted
<1>5. LaneType'
  <2>0. forked' \in BOOLEAN
    BY <1>1, Zenon
  <2>1. serial' \in Nat /\ base' \in Nat /\ cursors' \in SUBSET Cursor
    BY <1>1 DEF LaneType
  <2>2. root' \in Cursor /\ accepted' \in [cells : Words, deltas : Seq(Delta)]
    BY <1>1, <1>3, <1>4
  <2>3. cells' \in Words /\ deltas' \in Seq(Delta) /\ detached' \in Seq(Delta)
    BY <1>1, <1>3, <1>4 DEF LaneType
  <2> QED
    BY <2>0, <2>1, <2>2, <2>3 DEF LaneType
<1>6. Older(cells, deltas)' /\ \A c \in Cells : cells'[c].serial <= serial
  BY <1>1, <1>2, <1>3, StillOlder, Zenon DEF Older, Aside
<1>7. Exact(cells, deltas)'
  <2> HIDE DEF LaneInv
  <2>1. Exact(accepted.cells, accepted.deltas)
    BY <1>3, Zenon DEF Aside
  <2> QED
    BY <1>1, <1>2, <2>1, Zenon DEF Exact, Validates
<1>8. Touched'
  BY <1>1, <1>5, <1>6, NewEpoch
<1> QED
  BY <1>1, <1>5, <1>6, <1>7, <1>8

\* Accepting the candidate keeps it: the detached deltas are gone with their keys
\* (accept_checkpoint_candidate).
LEMMA AcceptKeeps ==
    ASSUME LaneInv, AcceptCandidate
    PROVE  LaneInv'
<1> USE DEF LaneInv
<1>1. /\ serial \in Nat /\ serial' = serial + 1 /\ forked' = FALSE /\ detached' = <<>>
      /\ root' = NoCursor /\ accepted' = NothingAccepted
      /\ UNCHANGED <<cells, deltas, base, cursors>>
  BY DEF AcceptCandidate, SettleFork, LaneType
<1>2. NoCursor \in Cursor /\ NothingAccepted \in [cells : Words, deltas : Seq(Delta)]
      /\ <<>> \in Seq(Delta)
  <2>1. FirstCells \in Words
    BY LaneAssumption DEF Words, BankCell
  <2>2. <<>> \in Seq(Delta)
    OBVIOUS
  <2> QED
    BY <2>1, <2>2 DEF NoCursor, NoKey, Cursor, NothingAccepted
<1>3. LaneType'
  <2>0. forked' \in BOOLEAN
    BY <1>1, Zenon
  <2>1. serial' \in Nat /\ base' \in Nat /\ cursors' \in SUBSET Cursor
    BY <1>1 DEF LaneType
  <2>2. root' \in Cursor /\ accepted' \in [cells : Words, deltas : Seq(Delta)]
    BY <1>1, <1>2
  <2>3. cells' \in Words /\ deltas' \in Seq(Delta) /\ detached' \in Seq(Delta)
    BY <1>1, <1>2 DEF LaneType
  <2> QED
    BY <2>0, <2>1, <2>2, <2>3 DEF LaneType
<1>4. Older(cells, deltas)'
  BY <1>1, StillOlder, Zenon DEF Older, LaneType
<1>5. Exact(cells, deltas)'
  BY <1>1 DEF Exact, Validates
<1>6. Touched'
  BY <1>1, <1>3, NewEpoch DEF Older
<1> QED
  BY <1>1, <1>3, <1>4, <1>5, <1>6

\* Raising the floor keeps it: the marks that stay count from the new floor
\* (release_checkpoint_prefix).
LEMMA ReleaseKeeps ==
    ASSUME LaneInv, NEW k \in cursors, ReleasePrefix(k)
    PROVE  LaneInv'
<1> USE DEF LaneInv
<1> DEFINE n == k.chunks - base
           d == SubSeq(deltas, n + 1, Len(deltas))
<1>1. /\ ValidatesCheckpoint(k) /\ base' = k.chunks /\ deltas' = d
      /\ cursors' = {k} \cup {j \in cursors : k.chunks < j.chunks}
      /\ UNCHANGED <<cells, serial, detached, root, accepted>>
  BY DEF ReleasePrefix
<1>2. ~forked /\ ~forked'
  BY DEF ReleasePrefix
<1>3. n \in Nat /\ n <= Len(deltas) /\ base \in Nat /\ k.chunks \in Nat /\ Len(deltas) \in Nat
  <2>1. ValidatesCheckpoint(k)
    BY <1>1
  <2> QED
    BY <2>1 DEF LaneType, Cursor, ValidatesCheckpoint, Validates
<1>4. deltas \in Seq(Delta) /\ base' = base + n
  BY <1>1, <1>3 DEF LaneType
<1> HIDE DEF n
<1>5. /\ d \in Seq(Delta) /\ Len(d) = Len(deltas) - n
      /\ \A i \in 1..(Len(deltas) - n) : d[i] = deltas[n + i]
  BY SMTT(60), <1>3, <1>4
<1> HIDE DEF d
<1>6. LaneType'
  <2>1. forked' \in BOOLEAN
    BY <1>2 DEF ReleasePrefix, LaneType
  <2>2. cursors' \in SUBSET Cursor
    BY <1>1 DEF LaneType
  <2> QED
    BY <1>1, <1>3, <1>5, <2>1, <2>2, Zenon DEF LaneType
<1>7. Older(cells, deltas)'
  BY <1>1, <1>3, <1>5 DEF Older
<1>8. ASSUME NEW j \in cursors', Validates(deltas, j)'
      PROVE  /\ j \in cursors /\ Validates(deltas, j)
             /\ j.chunks - base \in Nat /\ n <= j.chunks - base
             /\ j.chunks - base <= Len(deltas)
             /\ j.chunks - base' = (j.chunks - base) - n
  <2>0. /\ base' <= j.chunks /\ j.chunks <= base' + Len(d)
        /\ j.chunks # base' => j.tail = d[j.chunks - base'].key
    BY <1>1, <1>8 DEF Validates
  <2>1. CASE j = k
    <3>1. Validates(deltas, j)
      BY <1>1, <2>1 DEF ValidatesCheckpoint
    <3>2. j \in cursors /\ j.chunks - base = n
      BY <2>1 DEF n
    <3>3. j.chunks - base' = n - n
      <4>1. base' = j.chunks /\ j.chunks \in Nat
        BY <1>1, <1>3, <2>1
      <4> QED
        BY <1>3, <4>1
    <3> QED
      BY <1>3, <3>1, <3>2, <3>3
  <2>2. CASE j # k
    <3>1. j \in cursors /\ k.chunks < j.chunks /\ j.chunks \in Nat
      BY <1>1, <2>2 DEF LaneType, Cursor
    <3> DEFINE i == j.chunks - base'
               m == j.chunks - base
    <3>2. base' = k.chunks /\ base' = base + n
      BY <1>1, <1>4
    <3>3. i \in 1..(Len(deltas) - n) /\ i = m - n /\ n + i = m
      <4>1. j.chunks <= base' + (Len(deltas) - n)
        BY <1>5, <2>0
      <4>2. base' \in Nat /\ base' < j.chunks
        BY <1>3, <3>1, <3>2
      <4>3. i \in Nat /\ i # 0 /\ i <= Len(deltas) - n
        BY <1>3, <3>1, <4>1, <4>2
      <4>4. i = m - n
        BY <1>3, <3>1, <3>2
      <4>5. m \in Int
        BY <1>3, <3>1
      <4> HIDE DEF i, m
      <4> QED
        BY <1>3, <4>3, <4>4, <4>5
    <3>4. j.tail = d[i].key
      BY <1>3, <2>0, <3>1, <3>2
    <3> HIDE DEF i, m
    <3>5. j.tail = deltas[m].key
      BY <1>5, <3>3, <3>4
    <3>6. m \in Nat /\ n <= m /\ m <= Len(deltas)
      BY <1>3, <3>3
    <3>7. base <= j.chunks /\ j.chunks <= base + Len(deltas)
      BY <1>3, <3>1, <3>6 DEF m
    <3>8. Validates(deltas, j)
      BY <3>5, <3>7 DEF Validates, m
    <3> QED
      BY <3>1, <3>3, <3>6, <3>8 DEF i, m
  <2> QED
    BY <2>1, <2>2
<1>9. Exact(cells, deltas)'
  <2> SUFFICES ASSUME NEW j \in cursors', Validates(deltas, j)', NEW c \in Cells
               PROVE  RewoundCell(deltas', cells', j.chunks - base', c) = j.cells[c]
    BY Zenon DEF Exact
  <2> DEFINE m == j.chunks - base
  <2>1. /\ j \in cursors /\ Validates(deltas, j) /\ m \in Nat /\ n <= m /\ m <= Len(deltas)
        /\ j.chunks - base' = m - n
    BY <1>8
  <2>2. RewoundCell(deltas, cells, m, c) = j.cells[c]
    BY <2>1 DEF Exact
  <2> HIDE DEF m
  <2>3. RewoundCell(d, cells, m - n, c) = RewoundCell(deltas, cells, m, c)
    BY ZenonT(60), <1>3, <1>4, <2>1, RewindShifts DEF d
  <2> QED
    BY <1>1, <2>1, <2>2, <2>3
<1>10. Touched'
  <2> SUFFICES ASSUME NEW j \in cursors', Validates(deltas, j)', NEW c \in Cells,
                      cells[c].serial = serial
               PROVE  Touches(d, c, j.chunks - base' + 1, Len(d)) # {}
    BY <1>1 DEF Touched, ValidatesCheckpoint
  <2> DEFINE m == j.chunks - base
  <2>1. /\ j \in cursors /\ Validates(deltas, j) /\ m \in Nat /\ n <= m /\ m <= Len(deltas)
        /\ j.chunks - base' = m - n
    BY <1>8
  <2>2. PICK i : i \in Touches(deltas, c, m + 1, Len(deltas))
    BY <2>1 DEF Touched, ValidatesCheckpoint
  <2> HIDE DEF m
  <2>3. i \in m + 1..Len(deltas) /\ deltas[i].cell = c
    BY <2>2 DEF Touches
  <2>4. i - n \in (m - n) + 1..Len(d) /\ i - n \in 1..(Len(deltas) - n) /\ n + (i - n) = i
    <3>1. i \in Nat /\ m + 1 <= i /\ i <= Len(deltas)
      BY <1>3, <2>1, <2>3
    <3>2. Len(d) = Len(deltas) - n /\ n \in Nat /\ Len(deltas) \in Nat /\ m \in Nat /\ n <= m
      BY <1>3, <1>5, <2>1
    <3> DEFINE l == Len(deltas)
               e == Len(d)
    <3>3. e = l - n /\ l \in Nat /\ i <= l
      BY <3>1, <3>2
    <3> HIDE DEF l, e, LaneInv
    <3>4. i - n \in (m - n) + 1..e /\ i - n \in 1..(l - n) /\ n + (i - n) = i
      BY <3>1, <3>2, <3>3
    <3> QED
      BY <3>4 DEF l, e
  <2>5. d[i - n] = deltas[i]
    BY <1>5, <2>4, Zenon
  <2>6. i - n \in Touches(d, c, (m - n) + 1, Len(d))
    BY <2>3, <2>4, <2>5, Zenon DEF Touches
  <2> QED
    BY <2>1, <2>6
<1> QED
  BY <1>2, <1>6, <1>7, <1>9, <1>10

\* Every step of the contract keeps the invariant.
LEMMA StepKeeps == LaneInv /\ [LNext]_lane => LaneInv'
<1> SUFFICES ASSUME LaneInv, [LNext]_lane PROVE LaneInv'
  OBVIOUS
<1>1. CASE Mutate
  BY <1>1, MutateKeeps
<1>2. CASE Checkpoint
  BY <1>2, CheckpointKeeps
<1>3. ASSUME NEW k \in cursors, Restore(k) PROVE LaneInv'
  BY <1>3, RestoreKeeps
<1>4. ASSUME NEW k \in cursors, BeginCandidate(k) PROVE LaneInv'
  BY <1>4, BeginKeeps
<1>5. ASSUME NEW k \in cursors, ReleasePrefix(k) PROVE LaneInv'
  BY <1>5, ReleaseKeeps
<1>6. CASE RejectCandidate
  BY <1>6, RejectKeeps
<1>7. CASE AcceptCandidate
  BY <1>7, AcceptKeeps
<1>8. CASE UNCHANGED lane
  BY ZenonT(60), <1>8 DEF lane, LaneInv, LaneType, Older, Exact, Touched, Aside,
              ValidatesCheckpoint, Validates
<1> QED
  BY <1>1, <1>2, <1>3, <1>4, <1>5, <1>6, <1>7, <1>8 DEF LNext

\* The invariant holds in every state of a lane that obeys the contract.
LEMMA LaneInvariant == LSpec => []LaneInv
<1> QED
  BY InitKeeps, StepKeeps, PTL DEF LSpec

\* Whatever a lane that obeys the contract goes through, a held cursor it validates
\* leads back to exactly the cells of its checkpoint (Env::restore).
THEOREM CheckpointsExact == LSpec => []CheckpointsAreExact
<1>1. LaneInv => CheckpointsAreExact
  <2> SUFFICES ASSUME LaneInv, NEW k \in cursors, ValidatesCheckpoint(k)
               PROVE  Rewound(deltas, cells, k.chunks - base) = k.cells
    BY DEF CheckpointsAreExact
  <2>1. k.cells \in [Cells -> BankCell]
    BY DEF LaneInv, LaneType, Cursor, Words
  <2>2. \A c \in Cells : RewoundCell(deltas, cells, k.chunks - base, c) = k.cells[c]
    BY DEF LaneInv, Exact, ValidatesCheckpoint
  <2> QED
    BY <2>1, <2>2 DEF Rewound
<1> QED
  BY <1>1, LaneInvariant, PTL

\* A candidate is settled on its own history or on the one set aside for it, never
\* on a mixture (Env::reject_checkpoint_candidate, accept_checkpoint_candidate).
THEOREM SettlesExactly == LSpec => SettlesOnOneHistory
<1> DEFINE Settled == (forked /\ ~forked') =>
                        \/ UNCHANGED <<cells, deltas>>
                        \/ cells' = accepted.cells /\ deltas' = accepted.deltas
<1>1. LaneInv /\ [LNext]_lane => [Settled]_lane
  <2> SUFFICES ASSUME LaneInv, LNext, forked, ~forked'
               PROVE  \/ UNCHANGED <<cells, deltas>>
                      \/ cells' = accepted.cells /\ deltas' = accepted.deltas
    OBVIOUS
  <2>1. CASE RejectCandidate
    BY <2>1, RejectPutsBack
  <2>2. CASE AcceptCandidate
    BY <2>2 DEF AcceptCandidate
  <2> QED
    BY <2>1, <2>2, Zenon DEF LNext, Mutate, Checkpoint, Restore, BeginCandidate, ReleasePrefix
<1> QED
  BY <1>1, LaneInvariant, PTL DEF LSpec, SettlesOnOneHistory
=============================================================================
