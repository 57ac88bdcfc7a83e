---------------------------- MODULE FindAllProofs ----------------------------
(***************************************************************************)
(* What find_all relies on, for every length of the input.                 *)
(*                                                                         *)
(* The start positions that the reverse scan collects: their runs stay     *)
(* descending and disjoint, and they implement the set of positions of     *)
(* StartSet.                                                               *)
(*                                                                         *)
(* The bounded DFA: the classes of bytes are exact, every step of a scan   *)
(* brings it nearer to its end, and the scan finds the leftmost-longest    *)
(* matches.  The inductive invariant, BdfaOK, says of the partition that   *)
(* it tells apart what the sets taken so far do (CutOK); of each state     *)
(* that its chain stands for every start that can still matter, whatever   *)
(* was dropped from it (ChainOK, StatesOK), and of the table that its      *)
(* entries are the transitions (TablesOK); of the prefix that every match  *)
(* begins with it (SearchesOK); and of a scan that it has reported the     *)
(* leftmost-longest matches up to pos and follows in state what begins     *)
(* after them (ScansOK, WalksOK, EndsOK).                                  *)
(***************************************************************************)
EXTENDS StartPositions, Bdfa, FiniteSetTheorems, SequenceTheorems, WellFoundedInduction, TLAPS

-----------------------------------------------------------------------------
(* The start positions.                                                    *)

(* Every non-empty set of natural numbers has a least element: the place   *)
(* where a forward search through a vector stops.                          *)
LEMMA LeastNat ==
  ASSUME NEW S, S \subseteq Nat, S # {}
  PROVE  \E m \in S : \A k \in S : m <= k
<1>1. PICK m \in S : \A k \in S : ~ (<<k, m>> \in OpToRel(<, Nat))
  BY NatLessThanWellFounded, WFMin
<1>2. ASSUME NEW k \in S
      PROVE  m <= k
  <2>1. k \in Nat /\ m \in Nat
    OBVIOUS
  <2>2. ~(k < m)
    BY <1>1, <2>1, Zenon DEF OpToRel
  <2> QED
    BY <2>1, <2>2
<1> QED
  BY <1>2

(* Inserting e before position i of a sequence.                            *)
LEMMA InsertAtProperties ==
  ASSUME NEW S, NEW s \in Seq(S), NEW i \in 1 .. Len(s) + 1, NEW e \in S
  PROVE  /\ InsertAt(s, i, e) \in Seq(S)
         /\ Len(InsertAt(s, i, e)) = Len(s) + 1
         /\ \A k \in 1 .. Len(s) + 1 :
              InsertAt(s, i, e)[k] = IF k < i THEN s[k]
                                     ELSE IF k = i THEN e ELSE s[k - 1]
<1> DEFINE L == SubSeq(s, 1, i - 1)
           R == SubSeq(s, i, Len(s))
<1>1. Len(s) \in Nat /\ \A k \in 1 .. Len(s) : s[k] \in S
  BY LenProperties
<1>2. /\ L \in Seq(S) /\ Len(L) = i - 1
      /\ \A k \in 1 .. i - 1 : L[k] = s[k]
  <2>1. \A k \in 1 .. i - 1 : s[k] \in S
    BY <1>1
  <2>2. /\ L \in Seq(S)
        /\ Len(L) = IF 1 <= i - 1 THEN (i - 1) - 1 + 1 ELSE 0
        /\ \A k \in 1 .. (i - 1) - 1 + 1 : L[k] = s[1 + k - 1]
    BY <2>1, <1>1, SubSeqProperties
  <2> QED
    BY <2>2, <1>1
<1>3. /\ R \in Seq(S) /\ Len(R) = Len(s) - i + 1
      /\ \A k \in 1 .. Len(s) - i + 1 : R[k] = s[i + k - 1]
  <2>1. \A k \in i .. Len(s) : s[k] \in S
    BY <1>1
  <2> QED
    BY <2>1, <1>1, SubSeqProperties
<1>4. <<e>> \in Seq(S) /\ Len(<<e>>) = 1 /\ <<e>>[1] = e
  OBVIOUS
<1>5. InsertAt(s, i, e) = (L \o <<e>>) \o R
  BY DEF InsertAt
<1> HIDE DEF L, R
<1>6. /\ L \o <<e>> \in Seq(S)
      /\ Len(L \o <<e>>) = i
      /\ \A k \in 1 .. i : (L \o <<e>>)[k] = IF k <= i - 1 THEN L[k] ELSE e
  <2>1. /\ L \o <<e>> \in Seq(S)
        /\ Len(L \o <<e>>) = (i - 1) + 1
        /\ \A k \in 1 .. (i - 1) + 1 :
             (L \o <<e>>)[k] = IF k <= i - 1 THEN L[k] ELSE <<e>>[k - (i - 1)]
    BY <1>1, <1>2, <1>4, ConcatProperties
  <2>2. \A k \in 1 .. i : ~(k <= i - 1) => k - (i - 1) = 1
    BY <1>1
  <2> QED
    BY <1>1, <1>4, <2>1, <2>2
<1> DEFINE M == L \o <<e>>
<1> HIDE DEF M
<1>7. M \in Seq(S) /\ Len(M) = i /\ M \o R = InsertAt(s, i, e)
      /\ \A k \in 1 .. i : M[k] = IF k <= i - 1 THEN L[k] ELSE e
  BY <1>5, <1>6 DEF M
<1>8. /\ M \o R \in Seq(S)
      /\ Len(M \o R) = Len(M) + Len(R)
      /\ \A k \in 1 .. Len(M) + Len(R) :
           (M \o R)[k] = IF k <= Len(M) THEN M[k] ELSE R[k - Len(M)]
  BY <1>3, <1>7, ConcatProperties
<1>9. Len(M) + Len(R) = Len(s) + 1 /\ Len(M) = i
  BY <1>1, <1>3, <1>7
<1>10. ASSUME NEW k \in 1 .. Len(s) + 1
       PROVE  (M \o R)[k] = IF k < i THEN s[k] ELSE IF k = i THEN e ELSE s[k - 1]
  <2>1. CASE k < i
    BY <2>1, <1>1, <1>2, <1>7, <1>8, <1>9
  <2>2. CASE k = i
    BY <2>2, <1>1, <1>7, <1>8, <1>9
  <2>3. CASE k > i
    <3>1. k - i \in 1 .. Len(s) - i + 1 /\ i + (k - i) - 1 = k - 1
      BY <2>3, <1>1
    <3> QED
      BY <2>3, <3>1, <1>1, <1>3, <1>8, <1>9
  <2>4. k < i \/ k = i \/ k > i
    BY <1>1
  <2> QED
    BY <2>1, <2>2, <2>3, <2>4
<1> QED
  BY <1>7, <1>8, <1>9, <1>10

-----------------------------------------------------------------------------
(* A vector of runs is a finite sequence of pairs of integers.             *)
LEMMA RunsTyped ==
  ASSUME NEW r \in Seq(Runs)
  PROVE  /\ Len(r) \in Nat
         /\ \A i \in 1 .. Len(r) : /\ r[i] \in Runs
                                   /\ r[i].lo \in Bound /\ r[i].lo \in Int
                                   /\ r[i].hi \in Bound /\ r[i].hi \in Int
<1>1. Bound \subseteq Int
  BY DEF Bound
<1>2. Len(r) \in Nat
  BY LenProperties
<1>3. \A i \in 1 .. Len(r) : r[i] \in Runs
  BY ElementOfSeq
<1>4. \A q \in Runs : q.lo \in Bound /\ q.hi \in Bound
  BY DEF Runs
<1> QED
  BY <1>1, <1>2, <1>3, <1>4

LEMMA PositionTyped ==
  ASSUME NEW p \in Position
  PROVE  p \in Int /\ p \in Bound /\ p + 1 \in Bound
BY PosAssumption DEF Position, Bound

(* The search of insert_general stops somewhere, and where it stops every  *)
(* earlier run starts above p and the run found starts at or below it.     *)
LEMMA InsertIndexProperties ==
  ASSUME NEW r \in Seq(Runs), NEW p \in Position
  PROVE  /\ InsertIndex(r, p) \in 1 .. Len(r) + 1
         /\ \A j \in 1 .. InsertIndex(r, p) - 1 : r[j].lo > p
         /\ InsertIndex(r, p) <= Len(r) => r[InsertIndex(r, p)].lo <= p
<1> DEFINE Stops(i) == /\ \A j \in 1 .. i - 1 : r[j].lo > p
                       /\ i <= Len(r) => r[i].lo <= p
           Below == {j \in 1 .. Len(r) : r[j].lo <= p}
<1>1. Len(r) \in Nat /\ p \in Int /\ \A j \in 1 .. Len(r) : r[j].lo \in Int
  BY RunsTyped, PositionTyped
<1>2. \E i \in 1 .. Len(r) + 1 : Stops(i)
  <2>1. CASE Below = {}
    <3>1. \A j \in 1 .. Len(r) : r[j].lo > p
      BY <1>1, <2>1
    <3>2. Stops(Len(r) + 1) /\ Len(r) + 1 \in 1 .. Len(r) + 1
      BY <1>1, <3>1
    <3> QED
      BY <3>2
  <2>2. CASE Below # {}
    <3>1. PICK m \in Below : \A k \in Below : m <= k
      <4>1. Below \subseteq Nat
        BY <1>1
      <4> HIDE DEF Below
      <4> QED
        BY <2>2, <4>1, LeastNat
    <3>2. ASSUME NEW j \in 1 .. m - 1
          PROVE  r[j].lo > p
      <4>1. j \in 1 .. Len(r) /\ j < m
        BY <1>1, <3>1
      <4> QED
        BY <1>1, <3>1, <4>1
    <3>3. Stops(m) /\ m \in 1 .. Len(r) + 1
      BY <1>1, <3>1, <3>2
    <3> QED
      BY <3>3
  <2> QED
    BY <2>1, <2>2
<1>3. InsertIndex(r, p) = CHOOSE i \in 1 .. Len(r) + 1 : Stops(i)
  BY DEF InsertIndex
<1> HIDE DEF Stops
<1>4. InsertIndex(r, p) \in 1 .. Len(r) + 1 /\ Stops(InsertIndex(r, p))
  BY <1>2, <1>3
<1> QED
  BY <1>4 DEF Stops

(* A position is denoted when some run holds it.                           *)
LEMMA DenotedMember ==
  ASSUME NEW r \in Seq(Runs), NEW x
  PROVE  x \in Denoted(r) <=> \E i \in 1 .. Len(r) : x \in Span(r[i])
BY DEF Denoted

(* One call of add: the runs stay well formed and denote one more position.*)
LEMMA AddPosCorrect ==
  ASSUME TypeOK, Descending, NEW p \in Position, AddPos(p)
  PROVE  /\ runs' \in Seq(Runs)
         /\ Descending'
         /\ Denoted(runs') = Denoted(runs) \cup {p}
<1> DEFINE n == Len(runs)
<1>1. /\ n \in Nat /\ p \in Int /\ p \in Bound /\ p + 1 \in Bound
      /\ \A i \in 1 .. n : runs[i] \in Runs /\ runs[i].lo \in Int /\ runs[i].hi \in Int
      /\ runs \in Seq(Runs)
  BY RunsTyped, PositionTyped DEF TypeOK
<1>2. Run(p, p + 1) \in Runs /\ Span(Run(p, p + 1)) = {p}
  BY <1>1 DEF Run, Runs, Span
<1>3. CASE runs = <<>> /\ runs' = <<Run(p, p + 1)>>
  <2>1. Denoted(runs) = {} /\ Denoted(runs') = {p}
    BY <1>2, <1>3 DEF Denoted
  <2>2. Descending'
    BY <1>1, <1>3 DEF Descending, Run
  <2> QED
    BY <1>2, <1>3, <2>1, <2>2
<1>4. CASE runs # <<>> /\ p + 1 = Lowest.lo /\ runs' = [runs EXCEPT ![n] = Run(p, Lowest.hi)]
  <2>1. n \in 1 .. n /\ Lowest = runs[n]
    BY <1>1, <1>4 DEF Lowest
  <2>2. Run(p, Lowest.hi) \in Runs
    BY <1>1, <2>1 DEF Run, Runs
  <2>3. /\ runs' \in Seq(Runs) /\ Len(runs') = n
        /\ \A i \in 1 .. n : runs'[i] = IF i = n THEN Run(p, Lowest.hi) ELSE runs[i]
    BY <1>1, <1>4, <2>1, <2>2
  <2>4. Descending'
    BY <1>1, <1>4, <2>1, <2>3 DEF Descending, Run
  <2>5. Span(runs'[n]) = Span(runs[n]) \cup {p}
    BY <1>1, <1>4, <2>1, <2>3 DEF Span, Run, Descending
  <2>6. ASSUME NEW x
        PROVE  x \in Denoted(runs') <=> x \in Denoted(runs) \cup {p}
    BY <1>1, <2>1, <2>3, <2>5, DenotedMember
  <2> QED
    BY <2>3, <2>4, <2>6
<1>5. CASE runs # <<>> /\ p + 1 < Lowest.lo /\ runs' = Append(runs, Run(p, p + 1))
  <2>1. n \in 1 .. n /\ Lowest = runs[n]
    BY <1>1, <1>5 DEF Lowest
  <2>2. /\ runs' \in Seq(Runs) /\ Len(runs') = n + 1
        /\ \A i \in 1 .. n : runs'[i] = runs[i]
        /\ runs'[n + 1] = Run(p, p + 1)
    BY <1>1, <1>2, <1>5, AppendProperties
  <2>3. Descending'
    <3>1. ASSUME NEW i \in 1 .. n
          PROVE  p + 1 <= runs[i].lo
      <4>1. i = n \/ i < n
        BY <1>1
      <4>2. i < n => runs[n].hi <= runs[i].lo
        BY <2>1 DEF Descending
      <4>3. runs[n].lo < runs[n].hi
        BY <2>1 DEF Descending
      <4> QED
        BY <1>1, <1>5, <2>1, <4>1, <4>2, <4>3, SMTT(30)
    <3>2. ASSUME NEW i \in 1 .. n + 1
          PROVE  runs'[i].lo < runs'[i].hi
      <4>1. CASE i \in 1 .. n
        BY <2>2, <4>1 DEF Descending
      <4>2. CASE i = n + 1
        <5>1. runs'[i].lo = p /\ runs'[i].hi = p + 1
          BY <2>2, <4>2 DEF Run
        <5> QED
          BY <1>1, <5>1
      <4> QED
        BY <1>1, <4>1, <4>2
    <3>3. ASSUME NEW i \in 1 .. n + 1, NEW j \in 1 .. n + 1, i < j
          PROVE  runs'[j].hi <= runs'[i].lo
      <4>1. i \in 1 .. n /\ runs'[i] = runs[i]
        BY <1>1, <2>2, <3>3
      <4>2. j = n + 1 \/ (j \in 1 .. n /\ runs'[j] = runs[j])
        BY <1>1, <2>2
      <4>3. CASE j = n + 1
        BY <1>1, <2>2, <3>1, <4>1, <4>3 DEF Run
      <4>4. CASE j \in 1 .. n /\ runs'[j] = runs[j]
        BY <3>3, <4>1, <4>4 DEF Descending
      <4> QED
        BY <4>2, <4>3, <4>4
    <3> QED
      BY <2>2, <3>2, <3>3 DEF Descending
  <2>4. ASSUME NEW x
        PROVE  x \in Denoted(runs') <=> x \in Denoted(runs) \cup {p}
    <3>1. \A i \in 1 .. n + 1 : i \in 1 .. n \/ i = n + 1
      BY <1>1
    <3> QED
      BY <1>1, <1>2, <2>2, <3>1, DenotedMember, SMTT(30)
  <2> QED
    BY <2>2, <2>3, <2>4
<1>6. CASE runs # <<>> /\ p \in Span(Lowest) /\ UNCHANGED runs
  <2>1. n \in 1 .. n /\ Lowest = runs[n]
    BY <1>1, <1>6 DEF Lowest
  <2>2. p \in Denoted(runs)
    BY <1>1, <1>6, <2>1, DenotedMember
  <2> QED
    BY <1>1, <1>6, <2>2 DEF Descending
<1>7. CASE InsertGeneral(p)
  <2> DEFINE i == InsertIndex(runs, p)
  <2>1. /\ i \in 1 .. n + 1
        /\ \A j \in 1 .. i - 1 : runs[j].lo > p
        /\ i <= n => runs[i].lo <= p
    BY <1>1, InsertIndexProperties
  <2> HIDE DEF i
  <2>2. CASE i <= n /\ p < runs[i].hi /\ UNCHANGED runs
    <3>1. p \in Span(runs[i]) /\ i \in 1 .. n
      BY <1>1, <2>1, <2>2 DEF Span
    <3>2. p \in Denoted(runs)
      BY <1>1, <3>1, DenotedMember
    <3> QED
      BY <1>1, <2>2, <3>2 DEF Descending
  <2>3. CASE ~(i <= n /\ p < runs[i].hi) /\ runs' = InsertAt(runs, i, Run(p, p + 1))
    <3>1. /\ runs' \in Seq(Runs) /\ Len(runs') = n + 1
          /\ \A k \in 1 .. n + 1 : runs'[k] = IF k < i THEN runs[k]
                                     ELSE IF k = i THEN Run(p, p + 1) ELSE runs[k - 1]
      <4> DEFINE e == Run(p, p + 1)
      <4> HIDE DEF e
      <4>1. runs \in Seq(Runs) /\ i \in 1 .. Len(runs) + 1 /\ e \in Runs
        BY <1>1, <1>2, <2>1 DEF e
      <4>2. runs' = InsertAt(runs, i, e)
        BY <2>3 DEF e
      <4>3. /\ InsertAt(runs, i, e) \in Seq(Runs)
            /\ Len(InsertAt(runs, i, e)) = Len(runs) + 1
            /\ \A k \in 1 .. Len(runs) + 1 :
                 InsertAt(runs, i, e)[k] = IF k < i THEN runs[k]
                                           ELSE IF k = i THEN e ELSE runs[k - 1]
        BY <4>1, InsertAtProperties
      <4> QED
        BY <4>2, <4>3 DEF e
    <3>2. \A k \in 1 .. n : k >= i => runs[k].hi <= p
      BY <1>1, <2>1, <2>3 DEF Descending
    <3>a. ASSUME NEW k \in 1 .. n + 1
          PROVE  \/ k < i /\ k \in 1 .. n /\ runs'[k] = runs[k]
                 \/ k = i /\ runs'[k].lo = p /\ runs'[k].hi = p + 1
                 \/ k > i /\ k - 1 \in 1 .. n /\ k - 1 >= i /\ runs'[k] = runs[k - 1]
      BY <1>1, <2>1, <3>1 DEF Run
    <3>3. ASSUME NEW k \in 1 .. n + 1
          PROVE  runs'[k].lo < runs'[k].hi
      <4>1. CASE k \in 1 .. n /\ runs'[k] = runs[k]
        BY <4>1 DEF Descending
      <4>2. CASE runs'[k].lo = p /\ runs'[k].hi = p + 1
        BY <1>1, <4>2
      <4>3. CASE k - 1 \in 1 .. n /\ runs'[k] = runs[k - 1]
        BY <4>3 DEF Descending
      <4> QED
        BY <3>a, <4>1, <4>2, <4>3
    <3>4. ASSUME NEW k \in 1 .. n + 1, NEW j \in 1 .. n + 1, k < j
          PROVE  runs'[j].hi <= runs'[k].lo
      <4>1. CASE j < i
        <5>1. /\ k \in 1 .. n /\ runs'[k] = runs[k]
              /\ j \in 1 .. n /\ runs'[j] = runs[j]
          BY <1>1, <2>1, <3>a, <3>4, <4>1
        <5> QED
          BY <3>4, <5>1 DEF Descending
      <4>2. CASE j = i
        <5>1. k \in 1 .. n /\ runs'[k] = runs[k] /\ runs[k].lo > p /\ runs'[j].hi = p + 1
          BY <1>1, <2>1, <3>a, <3>4, <4>2
        <5> QED
          BY <1>1, <5>1
      <4>3. CASE j > i /\ k < i
        <5>1. k \in 1 .. n /\ runs'[k] = runs[k]
          BY <1>1, <2>1, <3>a, <4>3
        <5>2. j - 1 \in 1 .. n /\ runs'[j] = runs[j - 1] /\ k < j - 1
          <6>1. j - 1 \in 1 .. n /\ runs'[j] = runs[j - 1]
            BY <1>1, <2>1, <3>a, <4>3
          <6> QED
            BY <1>1, <2>1, <4>3, <6>1
        <5> QED
          BY <5>1, <5>2 DEF Descending
      <4>4. CASE j > i /\ k = i
        <5>1. /\ runs'[k].lo = p
              /\ j - 1 \in 1 .. n /\ runs'[j] = runs[j - 1] /\ j - 1 >= i
          <6>1. runs'[k].lo = p
            BY <1>1, <2>1, <3>a, <4>4
          <6>2. j - 1 \in 1 .. n /\ runs'[j] = runs[j - 1] /\ j - 1 >= i
            BY <1>1, <2>1, <3>a, <4>4
          <6> QED
            BY <6>1, <6>2
        <5> QED
          BY <3>2, <5>1
      <4>5. CASE j > i /\ k > i
        <5>1. /\ k - 1 \in 1 .. n /\ runs'[k] = runs[k - 1]
              /\ j - 1 \in 1 .. n /\ runs'[j] = runs[j - 1] /\ k - 1 < j - 1
          BY <1>1, <2>1, <3>a, <3>4, <4>5
        <5> QED
          BY <5>1 DEF Descending
      <4> QED
        BY <1>1, <2>1, <4>1, <4>2, <4>3, <4>4, <4>5
    <3>5. Descending'
      BY <3>1, <3>3, <3>4 DEF Descending
    <3>6. ASSUME NEW x
          PROVE  x \in Denoted(runs') <=> x \in Denoted(runs) \cup {p}
      <4>1. ASSUME NEW k \in 1 .. n + 1, x \in Span(runs'[k])
            PROVE  x \in Denoted(runs) \cup {p}
        <5>1. k < i => k \in 1 .. n /\ runs'[k] = runs[k]
          BY <1>1, <2>1, <3>1
        <5>2. k > i => k - 1 \in 1 .. n /\ runs'[k] = runs[k - 1]
          BY <1>1, <2>1, <3>1
        <5>3. k = i => runs'[k] = Run(p, p + 1)
          BY <1>1, <2>1, <3>1
        <5> QED
          BY <1>1, <1>2, <2>1, <4>1, <5>1, <5>2, <5>3, DenotedMember
      <4>2. ASSUME NEW k \in 1 .. n, x \in Span(runs[k])
            PROVE  x \in Denoted(runs')
        <5>1. k < i => k \in 1 .. n + 1 /\ runs'[k] = runs[k]
          BY <1>1, <2>1, <3>1
        <5>2. k >= i => k + 1 \in 1 .. n + 1 /\ runs'[k + 1] = runs[k]
          BY <1>1, <2>1, <3>1
        <5>3. k < i => x \in Denoted(runs')
          BY <3>1, <4>2, <5>1, DenotedMember
        <5>4. k >= i => x \in Denoted(runs')
          <6> DEFINE k1 == k + 1
          <6>1. ASSUME k >= i
                PROVE  k1 \in 1 .. Len(runs') /\ x \in Span(runs'[k1])
            BY <3>1, <4>2, <5>2, <6>1
          <6> HIDE DEF k1
          <6> QED
            BY <3>1, <6>1, DenotedMember
        <5> QED
          BY <1>1, <2>1, <5>3, <5>4
      <4>3. p \in Denoted(runs')
        <5>1. runs'[i] = Run(p, p + 1) /\ p \in Span(runs'[i])
          BY <1>1, <1>2, <2>1, <3>1
        <5> QED
          BY <1>1, <2>1, <3>1, <5>1, DenotedMember
      <4> QED
        BY <1>1, <3>1, <4>1, <4>2, <4>3, DenotedMember
    <3> QED
      BY <3>1, <3>5, <3>6
  <2> QED
    BY <1>7, <2>2, <2>3 DEF InsertGeneral, i
<1> QED
  BY <1>3, <1>4, <1>5, <1>6, <1>7 DEF AddPos

-----------------------------------------------------------------------------
(* A range pushed by add_range in one step.                                *)
LEMMA AddRangeCorrect ==
  ASSUME TypeOK, Descending, NEW lo \in Bound, NEW hi \in Bound, AddRange(lo, hi)
  PROVE  /\ runs' \in Seq(Runs)
         /\ Descending'
         /\ todo' \in Runs
         /\ Denoted(runs') \cup Span(todo') = Denoted(runs) \cup (lo .. hi - 1)
<1> DEFINE n == Len(runs)
<1>1. /\ n \in Nat /\ lo \in Int /\ hi \in Int /\ runs \in Seq(Runs)
      /\ \A i \in 1 .. n : runs[i] \in Runs /\ runs[i].lo \in Int /\ runs[i].hi \in Int
  BY RunsTyped DEF TypeOK, Bound
<1>2. Run(lo, hi) \in Runs /\ Span(Run(lo, hi)) = lo .. hi - 1
  BY DEF Run, Runs, Span
<1>3. todo \in Runs /\ Span(todo) = {}
  BY DEF TypeOK, AddRange, Idle, Span, Runs, Bound
<1>4. CASE lo >= hi /\ UNCHANGED <<runs, todo>>
  <2>1. lo .. hi - 1 = {}
    BY <1>1, <1>4
  <2> QED
    BY <1>1, <1>3, <1>4, <2>1 DEF Descending
<1>5. CASE lo < hi /\ runs = <<>> /\ runs' = <<Run(lo, hi)>> /\ UNCHANGED todo
  <2>a. Denoted(runs) = {}
    BY <1>5 DEF Denoted
  <2>b. Len(runs') = 1 /\ runs'[1] = Run(lo, hi)
    BY <1>5
  <2>c. Denoted(runs') = Span(Run(lo, hi))
    BY <2>b DEF Denoted
  <2>1. Denoted(runs) = {} /\ Denoted(runs') = lo .. hi - 1
    BY <1>2, <2>a, <2>c
  <2>2. Descending'
    BY <1>1, <1>5 DEF Descending, Run
  <2> QED
    BY <1>2, <1>3, <1>5, <2>1, <2>2
<1>6. CASE /\ lo < hi /\ runs # <<>> /\ hi = Lowest.lo
           /\ runs' = [runs EXCEPT ![n] = Run(lo, Lowest.hi)] /\ UNCHANGED todo
  <2>1. n \in 1 .. n /\ Lowest = runs[n]
    BY <1>1, <1>6 DEF Lowest
  <2>2. Run(lo, Lowest.hi) \in Runs
    BY <1>1, <2>1, RunsTyped DEF Run, Runs
  <2>3. /\ runs' \in Seq(Runs) /\ Len(runs') = n
        /\ \A i \in 1 .. n : runs'[i] = IF i = n THEN Run(lo, Lowest.hi) ELSE runs[i]
    BY <1>1, <1>6, <2>1, <2>2
  <2>4. Descending'
    BY <1>1, <1>6, <2>1, <2>3 DEF Descending, Run
  <2>5. Span(runs'[n]) = Span(runs[n]) \cup (lo .. hi - 1)
    BY <1>1, <1>6, <2>1, <2>3 DEF Span, Run, Descending
  <2>6. ASSUME NEW x
        PROVE  x \in Denoted(runs') <=> x \in Denoted(runs) \cup (lo .. hi - 1)
    BY <1>1, <2>1, <2>3, <2>5, DenotedMember
  <2> QED
    BY <1>3, <1>6, <2>3, <2>4, <2>6
<1>7. CASE /\ lo < hi /\ runs # <<>> /\ hi < Lowest.lo
           /\ runs' = Append(runs, Run(lo, hi)) /\ UNCHANGED todo
  <2>1. n \in 1 .. n /\ Lowest = runs[n]
    BY <1>1, <1>7 DEF Lowest
  <2>2. /\ runs' \in Seq(Runs) /\ Len(runs') = n + 1
        /\ \A i \in 1 .. n : runs'[i] = runs[i]
        /\ runs'[n + 1] = Run(lo, hi)
    BY <1>1, <1>2, <1>7, AppendProperties
  <2>3. Descending'
    <3>1. ASSUME NEW i \in 1 .. n
          PROVE  hi <= runs[i].lo
      <4>1. i = n \/ i < n
        BY <1>1
      <4>2. i < n => runs[n].hi <= runs[i].lo
        BY <2>1 DEF Descending
      <4>3. runs[n].lo < runs[n].hi
        BY <2>1 DEF Descending
      <4> QED
        BY <1>1, <1>7, <2>1, <4>1, <4>2, <4>3
    <3>2. \A i \in 1 .. n + 1 : runs'[i].lo < runs'[i].hi
      BY <1>1, <1>7, <2>2 DEF Descending, Run
    <3>3. ASSUME NEW i \in 1 .. n + 1, NEW j \in 1 .. n + 1, i < j
          PROVE  runs'[j].hi <= runs'[i].lo
      <4>1. i \in 1 .. n /\ runs'[i] = runs[i]
        BY <1>1, <2>2, <3>3
      <4>2. j = n + 1 \/ (j \in 1 .. n /\ runs'[j] = runs[j])
        BY <1>1, <2>2
      <4>3. CASE j = n + 1
        BY <1>1, <2>2, <3>1, <4>1, <4>3 DEF Run
      <4>4. CASE j \in 1 .. n /\ runs'[j] = runs[j]
        BY <3>3, <4>1, <4>4 DEF Descending
      <4> QED
        BY <4>2, <4>3, <4>4
    <3> QED
      BY <2>2, <3>2, <3>3 DEF Descending
  <2>4. ASSUME NEW x
        PROVE  x \in Denoted(runs') <=> x \in Denoted(runs) \cup (lo .. hi - 1)
    <3>1. \A i \in 1 .. n + 1 : i \in 1 .. n \/ i = n + 1
      BY <1>1
    <3>2. \A i \in 1 .. n : i \in 1 .. n + 1 /\ Span(runs'[i]) = Span(runs[i])
      BY <1>1, <2>2
    <3>3. n + 1 \in 1 .. n + 1 /\ Span(runs'[n + 1]) = lo .. hi - 1
      BY <1>1, <1>2, <2>2
    <3>4. x \in Denoted(runs') <=> \E i \in 1 .. n + 1 : x \in Span(runs'[i])
      BY <2>2, DenotedMember
    <3>5. x \in Denoted(runs) <=> \E i \in 1 .. n : x \in Span(runs[i])
      BY <1>1, DenotedMember
    <3> QED
      BY <3>1, <3>2, <3>3, <3>4, <3>5, Zenon
  <2> QED
    BY <1>3, <1>7, <2>2, <2>3, <2>4
<1>8. CASE lo < hi /\ runs # <<>> /\ hi > Lowest.lo /\ todo' = Run(lo, hi) /\ UNCHANGED runs
  BY <1>1, <1>2, <1>8 DEF Descending
<1> QED
  BY <1>4, <1>5, <1>6, <1>7, <1>8 DEF AddRange

(* One turn of the fallback loop: the position moves from `todo` into the  *)
(* runs, and the set they denote together stays the same.                  *)
LEMMA AddRangeLoopCorrect ==
  ASSUME TypeOK, Descending, AddRangeLoop
  PROVE  /\ runs' \in Seq(Runs)
         /\ Descending'
         /\ todo' \in Runs
         /\ Denoted(runs') \cup Span(todo') = Denoted(runs) \cup Span(todo)
<1>1. /\ todo.lo \in Int /\ todo.hi \in Int /\ todo.lo \in Bound /\ todo.hi \in Bound
      /\ todo.lo < todo.hi
  BY DEF TypeOK, AddRangeLoop, Idle, Runs, Bound
<1>2. todo.hi - 1 \in Position /\ todo.hi - 1 \in Bound
  BY <1>1, PosAssumption DEF Position, Bound
<1>3. todo' = Run(todo.lo, todo.hi - 1) /\ todo' \in Runs
  BY <1>1, <1>2 DEF AddRangeLoop, Run, Runs
<1>4. Span(todo) = Span(todo') \cup {todo.hi - 1}
  BY <1>1, <1>3 DEF Span, Run
<1>5. /\ runs' \in Seq(Runs) /\ Descending'
      /\ Denoted(runs') = Denoted(runs) \cup {todo.hi - 1}
  BY <1>2, AddPosCorrect DEF AddRangeLoop
<1> QED
  BY <1>3, <1>4, <1>5

-----------------------------------------------------------------------------
(* Initially there is no run and nothing is pending.                       *)
LEMMA InitCorrect == Init => TypeOK /\ Descending /\ Abstract!Init
<1> SUFFICES ASSUME Init
             PROVE  TypeOK /\ Descending /\ Abstract!Init
  OBVIOUS
<1>1. runs = <<>> /\ todo = NoRun /\ call = [op |-> "clear", lo |-> 0, hi |-> 0]
  BY DEF Init
<1>2. 0 \in Bound
  BY PosAssumption DEF Bound
<1>3. TypeOK
  BY <1>1, <1>2 DEF TypeOK, NoRun, Run, Runs
<1>4. Descending
  BY <1>1 DEF Descending
<1>5. Denoted(runs) \cup Span(todo) = {}
  BY <1>1 DEF Denoted, Span, NoRun, Run
<1> QED
  BY <1>1, <1>3, <1>4, <1>5 DEF Abstract!Init

(* Every step keeps the runs well formed and is a step of StartSet, or     *)
(* leaves the set of positions and the call as they are.                   *)
LEMMA NextCorrect ==
  TypeOK /\ Descending /\ [Next]_vars =>
    /\ TypeOK' /\ Descending'
    /\ [Abstract!Next]_<<Denoted(runs) \cup Span(todo), call>>
<1> SUFFICES ASSUME TypeOK, Descending, [Next]_vars
             PROVE  /\ TypeOK' /\ Descending'
                    /\ [Abstract!Next]_<<Denoted(runs) \cup Span(todo), call>>
  OBVIOUS
<1> DEFINE D == Denoted(runs) \cup Span(todo)
<1>1. CASE Clear
  <2>1. runs' = <<>> /\ todo' = todo /\ call' = [op |-> "clear", lo |-> 0, hi |-> 0]
    BY <1>1 DEF Clear
  <2>2. Span(todo) = {}
    BY <1>1 DEF Clear, Idle, Span, TypeOK, Runs, Bound
  <2>3. D' = {}
    BY <2>1, <2>2 DEF Denoted
  <2>4. TypeOK'
    BY <2>1, PosAssumption DEF TypeOK, Bound
  <2>5. Descending'
    BY <2>1 DEF Descending
  <2> QED
    BY <2>1, <2>3, <2>4, <2>5 DEF Abstract!Next, Abstract!Clear
<1>2. ASSUME NEW p \in Position, Add(p)
      PROVE  /\ TypeOK' /\ Descending'
             /\ [Abstract!Next]_<<Denoted(runs) \cup Span(todo), call>>
  <2>1. /\ runs' \in Seq(Runs) /\ Descending'
        /\ Denoted(runs') = Denoted(runs) \cup {p}
    BY <1>2, AddPosCorrect DEF Add
  <2>2. todo' = todo /\ call' = [op |-> "add", lo |-> p, hi |-> p + 1]
    BY <1>2 DEF Add
  <2>3. TypeOK'
    BY <2>1, <2>2, PositionTyped DEF TypeOK
  <2>4. D' = D \cup {p}
    BY <2>1, <2>2
  <2>5. Abstract!Add(p)
    BY <2>2, <2>4 DEF Abstract!Add
  <2>6. p \in Abstract!Position
    BY DEF Position, Abstract!Position
  <2> QED
    BY <2>1, <2>3, <2>5, <2>6 DEF Abstract!Next
<1>3. ASSUME NEW lo \in Bound, NEW hi \in Bound, AddRange(lo, hi)
      PROVE  /\ TypeOK' /\ Descending'
             /\ [Abstract!Next]_<<Denoted(runs) \cup Span(todo), call>>
  <2>1. /\ runs' \in Seq(Runs) /\ Descending' /\ todo' \in Runs
        /\ Denoted(runs') \cup Span(todo') = Denoted(runs) \cup (lo .. hi - 1)
    BY <1>3, AddRangeCorrect
  <2>2. call' = [op |-> "add_range", lo |-> lo, hi |-> hi] /\ Span(todo) = {}
    BY <1>3 DEF AddRange, Idle, Span, TypeOK, Runs, Bound
  <2>3. TypeOK'
    BY <2>1, <2>2 DEF TypeOK
  <2>4. Abstract!AddRange(lo, hi)
    BY <2>1, <2>2 DEF Abstract!AddRange, Abstract!Span
  <2> QED
    BY <2>1, <2>3, <2>4 DEF Abstract!Next, Bound
<1>4. CASE AddRangeLoop
  <2>1. /\ runs' \in Seq(Runs) /\ Descending' /\ todo' \in Runs
        /\ Denoted(runs') \cup Span(todo') = Denoted(runs) \cup Span(todo)
    BY <1>4, AddRangeLoopCorrect
  <2>2. call' = call
    BY <1>4 DEF AddRangeLoop
  <2> QED
    BY <2>1, <2>2 DEF TypeOK
<1>5. CASE UNCHANGED vars
  BY <1>5 DEF vars, TypeOK, Descending
<1> QED
  BY <1>1, <1>2, <1>3, <1>4, <1>5 DEF Next

(* The runs are always descending, disjoint and non-empty: the invariant   *)
(* that `add` is documented to preserve, on inputs of every length.        *)
THEOREM RunsDescending == Spec => [](TypeOK /\ Descending)
<1>1. Init => TypeOK /\ Descending
  BY InitCorrect
<1>2. (TypeOK /\ Descending) /\ [Next]_vars => (TypeOK /\ Descending)'
  BY NextCorrect
<1> QED
  BY <1>1, <1>2, PTL DEF Spec

(* StartPositions implements StartSet: every call adds exactly the         *)
(* positions it names and only clear removes any, on inputs of every       *)
(* length and for every order of the calls.                                *)
THEOREM StartSetImplemented == Spec => ImplementsStartSet
<1>1. Init => Abstract!Init
  BY InitCorrect
<1>2. (TypeOK /\ Descending) /\ [Next]_vars
        => [Abstract!Next]_<<Denoted(runs) \cup Span(todo), call>>
  BY NextCorrect
<1> QED
  BY <1>1, <1>2, RunsDescending, PTL DEF Spec, ImplementsStartSet, Abstract!Spec

-----------------------------------------------------------------------------
(***************************************************************************)
(* The bounded DFA.                                                        *)
(*                                                                         *)
(* For a word w: what is left of the regex b at j when a match begins at i *)
(* (Body), whether the word from i to j is a match (Meets; matches of the  *)
(* empty word are left aside until the very end), and what the candidates  *)
(* of a chain say about the starts that they stand for.                    *)
(***************************************************************************)
Bodies(b) == 1 .. Len(b.der)
Cand(b) == [body : Bodies(b), step : Nat, best : Nat]
Body(b, w, i, j) == Residuals(b, w, i)[j - i]
Meets(b, w, i, j) == b.null[Body(b, w, i, j)] # Never
NoneYet(b, w, i, p) == \A j \in i + 1 .. p : ~Meets(b, w, i, j)
Hopeless(b, w, i) == NoneYet(b, w, i, Len(w))

\* best is the length of the longest match from i that ends at p or before, 0 for none
BestUpTo(b, w, i, p, best) ==
  \/ best = 0 /\ NoneYet(b, w, i, p)
  \/ best > 0 /\ i + best <= p /\ Meets(b, w, i, i + best) /\ \A j \in i + best + 1 .. p : ~Meets(b, w, i, j)

\* a candidate tells of its start what there is to know at p
Tracks(b, w, from, p, c) ==
  /\ c.step \in 1 .. p - from
  /\ c.body = Body(b, w, p - c.step, p)
  /\ BestUpTo(b, w, p - c.step, p, c.best)
  /\ Alive(c)

\* The start i need not be followed while c is: the match of c lies over i already, or nothing that
\* begins at i has matched, and nothing will before something that begins with c does.
Shadows(b, w, p, c, i) ==
  /\ p - c.step < i
  /\ \/ i < p - c.step + c.best
     \/ /\ NoneYet(b, w, i, p)
        /\ \A j \in p + 1 .. Len(w) : Meets(b, w, i, j) => \E k \in p + 1 .. j : Meets(b, w, p - c.step, k)
Covered(b, w, p, K, i) ==
  \/ \E c \in K : c.step = p - i
  \/ Hopeless(b, w, i)
  \/ \E c \in K : Shadows(b, w, p, c, i)

\* K stands for every start from from on
Tracked(b, w, from, p, K) ==
  /\ K \subseteq Cand(b)
  /\ \A c \in K : Tracks(b, w, from, p, c)
  /\ \A c, d \in K : c.step = d.step => c = d
  /\ \A i \in from .. p - 1 : Covered(b, w, p, K, i)

\* the match of a candidate ends where the next one begins, or before
Apart(K) == \A c, d \in K : d.step < c.step => c.best <= c.step - d.step
\* so it is before rebuild_chain, but for the candidates that have just matched
ApartOrMatched(b, K) ==
  \A c, d \in K : d.step < c.step => c.best <= c.step - d.step \/ (b.null[c.body] # Never /\ c.best = c.step)

ChainOK(b, w, from, p, K) == Tracked(b, w, from, p, K) /\ Apart(K)

\* a class of bytes that the regex does not tell apart
Class(b, mt) == mt # {} /\ mt \subseteq Alphabet /\ \A x, y \in mt : Alike(b, x, y)

(***************************************************************************)
(* The matches so far.                                                     *)
(***************************************************************************)
Longest(b, w, m) == m[1] \in Nat /\ m[2] \in m[1] + 1 .. Len(w) /\ Meets(b, w, m[1], m[2])
                    /\ \A j \in m[2] + 1 .. Len(w) : ~Meets(b, w, m[1], j)
NextMatch(b, w, from, m) == Longest(b, w, m) /\ from <= m[1] /\ \A i \in from .. m[1] - 1 : Hopeless(b, w, i)
EndBefore(ms, k) == IF k = 1 THEN 0 ELSE ms[k - 1][2]
MatchesOK(b, w, ms) ==
  /\ ms \in Seq(Nat \X Nat)
  /\ \A k \in 1 .. Len(ms) : NextMatch(b, w, EndBefore(ms, k), ms[k])
NoMore(b, w, from) == \A i \in from .. Len(w) : Hopeless(b, w, i)

(***************************************************************************)
(* The tables: an entry leads to the chain that the bytes of its class     *)
(* make of the chain of its state, and a state has one chain only.         *)
(***************************************************************************)
StateOK(b, K) == K \subseteq Cand(b) /\ \E n \in Nat : \A c \in K : c.step \in 1 .. n
ClassesOK(b, d) ==
  /\ d.minterms \in Seq(SUBSET Alphabet)
  /\ d.lookup \in [Alphabet -> Nat]
  /\ \A c \in Alphabet : d.lookup[c] + 1 \in 1 .. Len(d.minterms) /\ c \in d.minterms[d.lookup[c] + 1]
  /\ \A m \in 1 .. Len(d.minterms) : Class(b, d.minterms[m])
  /\ \A x, y \in Alphabet : d.lookup[x] = d.lookup[y] <=> Alike(b, x, y)
DfaShape(d) ==
  /\ d = [minterms |-> d.minterms, lookup |-> d.lookup, states |-> d.states, table |-> d.table,
          prefix |-> d.prefix, sets |-> d.sets, after |-> d.after]
  /\ d.table \in [DOMAIN d.table -> Nat]
StatesOK(b, d) ==
  /\ d.states \in Seq(SUBSET Cand(b)) /\ Len(d.states) >= 1
  /\ d.states[1] = {}
  /\ \A s, t \in 1 .. Len(d.states) : d.states[s] = d.states[t] => s = t
  /\ \A s \in 1 .. Len(d.states) : StateOK(b, d.states[s])
Entries(d) == (1 .. Len(d.states)) \X (0 .. Len(d.minterms) - 1)
TableOK(b, d) ==
  /\ DOMAIN d.table \subseteq Entries(d)
  /\ \A e \in DOMAIN d.table :
       d.table[e] \in 1 .. Len(d.states) /\ d.states[d.table[e]] = NextChain(b, d, e[1], e[2])
DfaOK(b, d) == DfaShape(d) /\ ClassesOK(b, d) /\ StatesOK(b, d) /\ TableOK(b, d)

(***************************************************************************)
(* The prefix: the nodes that a match goes through, and the bytes that     *)
(* lead on from them; and the chains that a prefix leads through.          *)
(***************************************************************************)
Frontiers(b, sets, F) ==
  /\ Len(F) = Len(sets) + 1 /\ F[1] = {b.pattern}
  /\ \A k \in 1 .. Len(sets) :
       /\ sets[k] = BytesOn(b, F[k]) /\ F[k + 1] = Targets(b, F[k])
       /\ ~AnyNonbeginNullable(b, F[k]) /\ F[k + 1] # {}
Leads(b, sets) == \E F \in Seq(SUBSET Bodies(b)) : Frontiers(b, sets, F)
\* the regex matches nothing
Barren(b) ==
  \E B \in SUBSET Bodies(b) :
    b.pattern \in B /\ \A n \in B : b.null[n] = Never /\ \A c \in Alphabet : b.der[n][c] \in B
Path(b, sets, C, K) ==
  /\ Len(C) = Len(sets) + 1 /\ C[1] = {} /\ C[Len(C)] = K
  /\ \A k \in 1 .. Len(sets) :
       \E mt \in SUBSET Alphabet : Class(b, mt) /\ mt \cap sets[k] # {} /\ C[k + 1] = ChainAfter(b, C[k], mt)
Walked(b, sets, K) == \E C \in Seq(SUBSET Cand(b)) : Path(b, sets, C, K)
PrefixOK(b, d) ==
  /\ d.prefix \in {"none", "search", "literal"} /\ d.after \in 1 .. Len(d.states)
  /\ d.prefix # "none" => d.sets \in Seq(SUBSET Alphabet) /\ Len(d.sets) >= 1 /\ Leads(b, d.sets)
  /\ d.prefix = "literal" =>
       Literal(d.sets) /\ ((Barren(b) /\ d.after = Initial) \/ Walked(b, d.sets, d.states[d.after]))

-----------------------------------------------------------------------------
(* Numbers: least elements, induction over an interval and recursion.      *)
LEMMA LastNatural ==
  ASSUME NEW n \in Nat, NEW T \in SUBSET (0 .. n), T # {}
  PROVE  \E m \in T : \A k \in T : k <= m
<1> DEFINE U == {n - k : k \in T}
<1>0. \A k \in T : k \in Nat /\ k <= n /\ n - k \in Nat
  OBVIOUS
<1>1. U \in SUBSET Nat /\ U # {}
  <2>1. \A u \in U : u \in Nat
    BY <1>0
  <2>2. \A k \in T : n - k \in U
    OBVIOUS
  <2> QED BY <2>1, <2>2
<1>2. PICK u \in U : \A v \in U : u <= v
  <2> HIDE DEF U
  <2> QED BY <1>1, LeastNat
<1>3. PICK m \in T : u = n - m
  BY <1>2
<1>4. \A k \in T : n - m <= n - k
  BY <1>2, <1>3
<1> QED BY <1>0, <1>4

\* S holds of 0, and with each number of the next one
LEMMA UpInterval ==
  ASSUME NEW n \in Nat, NEW S, 0 \in S, \A k \in 0 .. n - 1 : k \in S => k + 1 \in S
  PROVE  0 .. n \subseteq S
<1> DEFINE Failing == {k \in Nat : k <= n /\ k \notin S}
<1> SUFFICES \A x \in 0 .. n : x \in S
  BY Zenon
<1> SUFFICES ASSUME NEW x \in 0 .. n, x \notin S PROVE FALSE
  BY Zenon
<1>0. x \in Failing
  OBVIOUS
<1>1. PICK m \in Failing : \A k \in Failing : m <= k
  <2>1. Failing \in SUBSET Nat /\ Failing # {}
    BY <1>0
  <2> HIDE DEF Failing
  <2> QED BY <2>1, LeastNat
<1>2. m \in Nat /\ m <= n /\ m \notin S /\ m # 0
  BY <1>1
<1>3. m - 1 \in 0 .. n - 1 /\ m - 1 \in S
  BY <1>1, <1>2
<1>4. (m - 1) + 1 \in S
  BY <1>3
<1> QED BY <1>2, <1>4

\* the function on 0 .. n that is base at 0, and step of the number and of the value before it elsewhere
Recursion(n, base, step, f) == [k \in 0 .. n |-> IF k = 0 THEN base ELSE step[<<k, f[k - 1]>>]]

Recurses(n, V, base, step) == \E f \in [0 .. n -> V] : f = Recursion(n, base, step, f)

LEMMA RecursionExists ==
  ASSUME NEW n \in Nat, NEW V, NEW base \in V, NEW step \in [(1 .. n) \X V -> V]
  PROVE  Recurses(n, V, base, step)
<1> DEFINE S == {m \in 0 .. n : \E f \in [0 .. m -> V] : f = Recursion(m, base, step, f)}
<1>1. 0 \in S
  <2>1. [k \in 0 .. 0 |-> base] \in [0 .. 0 -> V]
    OBVIOUS
  <2>2. [k \in 0 .. 0 |-> base] = Recursion(0, base, step, [k \in 0 .. 0 |-> base])
    BY DEF Recursion
  <2> QED BY <2>1, <2>2
<1>2. \A k \in 0 .. n - 1 : k \in S => k + 1 \in S
  <2> SUFFICES ASSUME NEW m \in 0 .. n - 1, m \in S PROVE m + 1 \in S
    OBVIOUS
  <2>1. PICK f \in [0 .. m -> V] : f = Recursion(m, base, step, f)
    OBVIOUS
  <2> DEFINE g == [k \in 0 .. m + 1 |-> IF k = m + 1 THEN step[<<m + 1, f[m]>>] ELSE f[k]]
  <2>2. m + 1 \in 1 .. n /\ f[m] \in V /\ step[<<m + 1, f[m]>>] \in V
    BY <2>1
  <2>3. g \in [0 .. m + 1 -> V]
    BY <2>1, <2>2
  <2>4. \A k \in 0 .. m + 1 : g[k] = IF k = 0 THEN base ELSE step[<<k, g[k - 1]>>]
    <3> SUFFICES ASSUME NEW k \in 0 .. m + 1 PROVE g[k] = IF k = 0 THEN base ELSE step[<<k, g[k - 1]>>]
      OBVIOUS
    <3>1. CASE k = m + 1
      <4>1. k # 0 /\ k - 1 = m /\ m \in 0 .. m + 1 /\ m # m + 1
        BY <3>1
      <4>2. g[k] = step[<<k, f[m]>>] /\ g[m] = f[m]
        BY <3>1, <4>1
      <4> QED BY <4>1, <4>2
    <3>2. CASE k # m + 1
      <4>1. k \in 0 .. m /\ g[k] = f[k]
        BY <3>2
      <4>2. f[k] = IF k = 0 THEN base ELSE step[<<k, f[k - 1]>>]
        BY <2>1, <4>1 DEF Recursion
      <4>3. k # 0 => k - 1 \in 0 .. m /\ g[k - 1] = f[k - 1]
        BY <4>1
      <4> QED BY <4>1, <4>2, <4>3
    <3> QED BY <3>1, <3>2
  <2>5. g = Recursion(m + 1, base, step, g)
    <3> HIDE DEF g
    <3> QED BY <2>3, <2>4 DEF Recursion
  <2>6. m + 1 \in 0 .. n
    OBVIOUS
  <2> HIDE DEF g
  <2> QED BY <2>3, <2>5, <2>6
<1>3. n \in S
  <2> HIDE DEF S
  <2> QED BY <1>1, <1>2, UpInterval
<1> QED BY <1>3 DEF Recurses

-----------------------------------------------------------------------------
(* What the algebra answers, and what is left of a regex along a word.     *)
LEMMA RegexFacts ==
  ASSUME NEW b, WellFormed(b)
  PROVE  /\ BotId \in Bodies(b) /\ b.pattern \in Bodies(b)
         /\ b.der \in [Bodies(b) -> [Alphabet -> Bodies(b)]]
         /\ b.null \in [Bodies(b) -> {Never, Always}]
         /\ b.null[BotId] = Never /\ \A c \in Alphabet : b.der[BotId][c] = BotId
         /\ b.tests \in SUBSET SUBSET Alphabet
         /\ b.covered \subseteq b.covers /\ b.covers \subseteq Bodies(b) \X Bodies(b)
<1>1. b \in BoundedRegexType(Bodies(b)) /\ Len(b.der) >= BotId
  BY DEF WellFormed, Bodies
<1>2. /\ b.pattern \in Bodies(b) /\ b.der \in [Bodies(b) -> [Alphabet -> Bodies(b)]]
      /\ b.null \in [Bodies(b) -> {Never, Always}] /\ b.tests \in SUBSET SUBSET Alphabet
      /\ b.covers \subseteq Bodies(b) \X Bodies(b)
  <2> HIDE DEF Bodies
  <2> QED BY <1>1 DEF BoundedRegexType
<1>3. BotId \in Bodies(b)
  BY <1>2 DEF Bodies, BotId
<1> QED BY <1>2, <1>3 DEF WellFormed

LEMMA NullFacts ==
  ASSUME NEW b, WellFormed(b)
  PROVE  \A n \in Bodies(b) :
           /\ "center" \in b.null[n] <=> b.null[n] # Never
           /\ b.null[n] \cap {"center", "end"} # {} <=> b.null[n] # Never
<1> TAKE n \in Bodies(b)
<1>1. b.null[n] \in {Never, Always}
  BY RegexFacts
<1> QED BY <1>1 DEF Never, Always, Bit

LEMMA AlikeDerivatives ==
  ASSUME NEW b, WellFormed(b), NEW mt, Class(b, mt), NEW n \in Bodies(b), NEW c \in mt
  PROVE  TransitionTerm(b, n, mt) = b.der[n][c]
<1> DEFINE x == CHOOSE y \in mt : TRUE
<1>1. x \in mt
  OBVIOUS
<1>2. x \in Alphabet /\ c \in Alphabet /\ Alike(b, x, c)
  BY <1>1 DEF Class
<1>3. b.der[n][x] = b.der[n][c]
  <2> HIDE DEF x
  <2> QED BY <1>2 DEF WellFormed, Bodies
<1> QED BY <1>3 DEF TransitionTerm

BodiesOK(b, w) ==
  \A i \in 0 .. Len(w) :
    /\ \A j \in i .. Len(w) : Body(b, w, i, j) \in Bodies(b)
    /\ Body(b, w, i, i) = b.pattern
    /\ \A j \in i .. Len(w) - 1 : Body(b, w, i, j + 1) = b.der[Body(b, w, i, j)][w[j + 1]]

LEMMA BodiesCorrect ==
  ASSUME NEW b, WellFormed(b), NEW w \in Seq(Alphabet)
  PROVE  BodiesOK(b, w)
<1> SUFFICES ASSUME NEW i \in 0 .. Len(w)
             PROVE  /\ \A j \in i .. Len(w) : Body(b, w, i, j) \in Bodies(b)
                    /\ Body(b, w, i, i) = b.pattern
                    /\ \A j \in i .. Len(w) - 1 : Body(b, w, i, j + 1) = b.der[Body(b, w, i, j)][w[j + 1]]
  BY DEF BodiesOK
<1> DEFINE n == Len(w) - i
           step == [x \in (1 .. n) \X Bodies(b) |-> b.der[x[2]][w[i + x[1]]]]
           Is(r) == r = [k \in 0 .. n |-> IF k = 0 THEN b.pattern ELSE b.der[r[k - 1]][w[i + k]]]
<1>1. n \in Nat /\ b.pattern \in Bodies(b) /\ b.der \in [Bodies(b) -> [Alphabet -> Bodies(b)]]
  BY RegexFacts
<1>2. \A k \in 1 .. n : w[i + k] \in Alphabet
  OBVIOUS
<1>3. step \in [(1 .. n) \X Bodies(b) -> Bodies(b)]
  <2> HIDE DEF n
  <2>1. \A x \in (1 .. n) \X Bodies(b) : b.der[x[2]][w[i + x[1]]] \in Bodies(b)
    BY <1>1, <1>2
  <2> QED BY <2>1
<1>4. PICK f \in [0 .. n -> Bodies(b)] : f = Recursion(n, b.pattern, step, f)
  <2> HIDE DEF n, step
  <2>1. Recurses(n, Bodies(b), b.pattern, step)
    BY <1>1, <1>3, RecursionExists
  <2> QED BY <2>1 DEF Recurses
<1>5. \A k \in 0 .. n : k # 0 => <<k, f[k - 1]>> \in (1 .. n) \X Bodies(b)
  <2> HIDE DEF n
  <2> QED BY <1>1
<1>6. \A k \in 0 .. n : k # 0 => step[<<k, f[k - 1]>>] = b.der[f[k - 1]][w[i + k]]
  <2> HIDE DEF n
  <2> QED BY <1>5
<1>7. \A k \in 0 .. n : f[k] = IF k = 0 THEN b.pattern ELSE b.der[f[k - 1]][w[i + k]]
  <2> HIDE DEF n, step
  <2> QED BY <1>4, <1>6 DEF Recursion
<1>8. Is(f)
  <2> HIDE DEF n, step
  <2> QED BY <1>7
<1>9. Residuals(b, w, i) = CHOOSE r : Is(r)
  BY DEF Residuals
<1>10. Is(Residuals(b, w, i))
  <2> HIDE DEF Is
  <2> QED BY <1>8, <1>9, SMTT(30)
<1> DEFINE r == Residuals(b, w, i)
<1>11. r = [k \in 0 .. n |-> IF k = 0 THEN b.pattern ELSE b.der[r[k - 1]][w[i + k]]]
  BY <1>10, ZenonT(40)
<1>12. \A k \in 0 .. n : r[k] = IF k = 0 THEN b.pattern ELSE b.der[r[k - 1]][w[i + k]]
  <2> HIDE DEF r, n
  <2> QED BY <1>11
<1>13. \A k \in 0 .. n : r[k] \in Bodies(b)
  <2> DEFINE S == {k \in 0 .. n : r[k] \in Bodies(b)}
  <2> HIDE DEF r, n
  <2>1. 0 \in S
    BY <1>1, <1>12
  <2>2. \A k \in 0 .. n - 1 : k \in S => k + 1 \in S
    <3> SUFFICES ASSUME NEW k \in 0 .. n - 1, k \in S PROVE k + 1 \in S
      OBVIOUS
    <3>1. k + 1 \in 0 .. n /\ k + 1 # 0 /\ (k + 1) - 1 = k /\ k + 1 \in 1 .. n
      BY <1>1
    <3>2. r[k + 1] = b.der[r[k]][w[i + (k + 1)]]
      BY <1>12, <3>1
    <3>3. w[i + (k + 1)] \in Alphabet /\ r[k] \in Bodies(b)
      BY <1>2, <3>1
    <3> QED BY <1>1, <3>1, <3>2, <3>3, ZenonT(40)
  <2>3. 0 .. n \subseteq S
    <3> HIDE DEF S
    <3> QED BY <1>1, <2>1, <2>2, UpInterval
  <2> QED BY <2>3
<1>14. \A j \in i .. Len(w) : Body(b, w, i, j) = r[j - i] /\ j - i \in 0 .. n
  BY DEF Body
<1>15. \A j \in i .. Len(w) - 1 : j + 1 - i # 0 /\ (j + 1 - i) - 1 = j - i /\ i + (j + 1 - i) = j + 1 /\ j + 1 \in i .. Len(w)
  OBVIOUS
<1>16. i \in i .. Len(w) /\ i - i = 0
  OBVIOUS
<1> HIDE DEF r, n
<1>17. \A j \in i .. Len(w) : Body(b, w, i, j) \in Bodies(b)
  BY <1>13, <1>14
<1>18. Body(b, w, i, i) = b.pattern
  BY <1>12, <1>14, <1>16
<1>19. \A j \in i .. Len(w) - 1 : Body(b, w, i, j + 1) = b.der[Body(b, w, i, j)][w[j + 1]]
  <2> SUFFICES ASSUME NEW j \in i .. Len(w) - 1
               PROVE  Body(b, w, i, j + 1) = b.der[Body(b, w, i, j)][w[j + 1]]
    OBVIOUS
  <2>1. j \in i .. Len(w) /\ j + 1 \in i .. Len(w)
    BY <1>15
  <2>2. Body(b, w, i, j + 1) = r[j + 1 - i] /\ j + 1 - i \in 0 .. n /\ Body(b, w, i, j) = r[j - i]
    BY <1>14, <2>1
  <2>3. r[j + 1 - i] = b.der[r[(j + 1 - i) - 1]][w[i + (j + 1 - i)]]
    BY <1>12, <1>15, <2>2
  <2> QED BY <1>15, <2>2, <2>3
<1> QED BY <1>17, <1>18, <1>19

-----------------------------------------------------------------------------
(* A candidate takes one byte.  In a word w, at p, the byte that the class *)
(* mt holds is w[p + 1].                                                   *)
LEMMA BestBelow ==
  ASSUME NEW b, NEW w, NEW i \in Nat, NEW p \in Nat, i <= p, NEW best \in Nat, BestUpTo(b, w, i, p, best)
  PROVE  i + best <= p
  BY DEF BestUpTo

LEMMA MatchedIsBest ==
  ASSUME NEW b, WellFormed(b), NEW w, NEW i \in Nat, NEW p \in Nat, NEW step \in Nat, NEW best \in Nat, i + step = p,
         BestUpTo(b, w, i, p, best), Body(b, w, i, p) \in Bodies(b)
  PROVE  MatchedUpTo(b, Body(b, w, i, p), step, best) = best
<1>1. best <= step
  BY BestBelow
<1>2. CASE ~("center" \in b.null[Body(b, w, i, p)])
  BY <1>2 DEF MatchedUpTo
<1>3. CASE "center" \in b.null[Body(b, w, i, p)]
  <2>1. Meets(b, w, i, p)
    BY <1>3, NullFacts DEF Meets
  <2>2. step > 0 => best = step
    <3> SUFFICES ASSUME step > 0, best < step PROVE FALSE
      BY <1>1
    <3>1. i + step \in i + 1 .. i + step
      OBVIOUS
    <3>2. best > 0 => i + step \in i + best + 1 .. i + step
      OBVIOUS
    <3> QED BY <2>1, <3>1, <3>2 DEF BestUpTo, NoneYet
  <2>3. best = step
    BY <1>1, <2>2
  <2> QED BY <2>3 DEF MatchedUpTo
<1> QED BY <1>2, <1>3

\* the longest match so far, one byte on
LEMMA BestOn ==
  ASSUME NEW b, NEW w, NEW i \in Nat, NEW p \in Nat, i <= p, NEW best \in Nat, BestUpTo(b, w, i, p, best)
  PROVE  /\ Meets(b, w, i, p + 1) => BestUpTo(b, w, i, p + 1, p + 1 - i)
         /\ ~Meets(b, w, i, p + 1) => BestUpTo(b, w, i, p + 1, best)
<1>1. i + best <= p
  BY BestBelow
<1>2. ASSUME Meets(b, w, i, p + 1) PROVE BestUpTo(b, w, i, p + 1, p + 1 - i)
  <2>1. p + 1 - i > 0 /\ i + (p + 1 - i) = p + 1
    OBVIOUS
  <2> QED BY <1>2, <2>1 DEF BestUpTo
<1>3. ASSUME ~Meets(b, w, i, p + 1) PROVE BestUpTo(b, w, i, p + 1, best)
  <2>1. CASE best = 0
    <3>1. \A j \in i + 1 .. p + 1 : j = p + 1 \/ j \in i + 1 .. p
      OBVIOUS
    <3> QED BY <1>3, <2>1, <3>1 DEF BestUpTo, NoneYet
  <2>2. CASE best > 0
    <3>1. \A j \in i + best + 1 .. p + 1 : j = p + 1 \/ j \in i + best + 1 .. p
      OBVIOUS
    <3> QED BY <1>1, <1>3, <2>2, <3>1 DEF BestUpTo
  <2> QED BY <2>1, <2>2
<1> QED BY <1>2, <1>3

\* what a candidate that is followed from s is at p + 1
On(b, w, s, p, c, m) ==
  /\ m \in Cand(b) /\ m.step = c.step + 1
  /\ m.body = Body(b, w, s, p + 1)
  /\ BestUpTo(b, w, s, p + 1, m.best)
  /\ \/ m.best = c.best
     \/ m.best = m.step /\ b.null[m.body] # Never

LEMMA DeriveOn ==
  ASSUME NEW b, WellFormed(b), NEW w \in Seq(Alphabet), NEW p \in 0 .. Len(w) - 1, NEW c \in Cand(b),
         c.step <= p, c.body = Body(b, w, p - c.step, p), BestUpTo(b, w, p - c.step, p, c.best),
         NEW mt, Class(b, mt), w[p + 1] \in mt
  PROVE  On(b, w, p - c.step, p, c, Derive(b, c, mt))
<1> DEFINE s == p - c.step
           to == Body(b, w, s, p + 1)
           best == MatchedUpTo(b, to, c.step + 1, c.best)
<1>1. /\ s \in 0 .. Len(w) /\ p \in s .. Len(w) - 1 /\ s + c.step = p /\ c.step \in Nat /\ c.best \in Nat /\ s <= p
      /\ p \in s .. Len(w) /\ p + 1 \in s .. Len(w) /\ s \in Nat /\ p \in Nat
  BY DEF Cand
<1>2. Body(b, w, s, p) \in Bodies(b) /\ to = b.der[Body(b, w, s, p)][w[p + 1]] /\ to \in Bodies(b)
  <2> HIDE DEF s
  <2> QED BY <1>1, BodiesCorrect DEF BodiesOK
<1>3. TransitionTerm(b, c.body, mt) = to
  <2>1. c.body \in Bodies(b)
    BY DEF Cand
  <2> HIDE DEF to
  <2> QED BY <1>2, <2>1, AlikeDerivatives
<1>4. MatchedUpTo(b, c.body, c.step, c.best) = c.best
  <2>1. BestUpTo(b, w, s, p, c.best) /\ Body(b, w, s, p) = c.body
    OBVIOUS
  <2> HIDE DEF s
  <2>2. MatchedUpTo(b, Body(b, w, s, p), c.step, c.best) = c.best
    BY <1>1, <1>2, <2>1, MatchedIsBest
  <2> QED BY <2>1, <2>2
<1>5. Derive(b, c, mt) = [body |-> to, step |-> c.step + 1, best |-> best]
  <2> HIDE DEF to
  <2> QED BY <1>3, <1>4 DEF Derive, DeriveTo, Candidate
<1> DEFINE m == [body |-> to, step |-> c.step + 1, best |-> best]
<1>6. c.best <= c.step
  <2> HIDE DEF s
  <2> QED BY <1>1, BestBelow
<1>7. Meets(b, w, s, p + 1) <=> "center" \in b.null[to]
  <2>1. "center" \in b.null[to] <=> b.null[to] # Never
    BY <1>2, NullFacts, SMTT(30)
  <2> QED BY <2>1 DEF Meets
<1> HIDE DEF to
<1>8. /\ Meets(b, w, s, p + 1) => best = c.step + 1 /\ b.null[to] # Never
      /\ ~Meets(b, w, s, p + 1) => best = c.best
  BY <1>1, <1>2, <1>6, <1>7, NullFacts DEF MatchedUpTo
<1>9. best \in Nat /\ c.step + 1 \in Nat
  BY <1>1, <1>8
<1>10. BestUpTo(b, w, s, p + 1, best)
  <2>1. c.step + 1 = p + 1 - s /\ BestUpTo(b, w, s, p, c.best)
    BY <1>1
  <2> HIDE DEF s, best
  <2>2. /\ Meets(b, w, s, p + 1) => BestUpTo(b, w, s, p + 1, p + 1 - s)
        /\ ~Meets(b, w, s, p + 1) => BestUpTo(b, w, s, p + 1, c.best)
    BY <1>1, <2>1, BestOn
  <2> QED BY <1>8, <2>1, <2>2
<1> HIDE DEF s, best
<1>11. m \in Cand(b)
  BY <1>2, <1>9 DEF Cand
<1>12. m.body = to /\ m.step = c.step + 1 /\ m.best = best
  OBVIOUS
<1> HIDE DEF m
<1>13. On(b, w, s, p, c, m)
  BY <1>8, <1>10, <1>11, <1>12 DEF On, to
<1> QED BY <1>5, <1>13 DEF m, s

LEMMA MovedOn ==
  ASSUME NEW b, WellFormed(b), NEW w \in Seq(Alphabet), NEW p \in 0 .. Len(w) - 1, NEW c \in Cand(b),
         c.step <= p, c.body = Body(b, w, p - c.step, p), BestUpTo(b, w, p - c.step, p, c.best),
         NEW mt, Class(b, mt), w[p + 1] \in mt
  PROVE  On(b, w, p - c.step, p, c, Moved(b, c, mt))
<1>1. CASE c.body # BotId
  BY <1>1, DeriveOn DEF Moved
<1>2. CASE c.body = BotId
  <2> DEFINE s == p - c.step
             m == [body |-> c.body, step |-> c.step + 1, best |-> c.best]
  <2>1. Moved(b, c, mt) = m
    BY <1>2 DEF Moved, Cand
  <2>2. /\ s \in 0 .. Len(w) /\ p \in s .. Len(w) - 1 /\ c.step \in Nat /\ c.best \in Nat /\ s <= p /\ s \in Nat
    BY DEF Cand
  <2>3. Body(b, w, s, p + 1) = b.der[Body(b, w, s, p)][w[p + 1]]
    <3> HIDE DEF s
    <3> QED BY <2>2, BodiesCorrect DEF BodiesOK
  <2>4. w[p + 1] \in Alphabet
    OBVIOUS
  <2>5. Body(b, w, s, p + 1) = BotId /\ b.null[BotId] = Never
    BY <1>2, <2>3, <2>4, RegexFacts
  <2>6. ~Meets(b, w, s, p + 1)
    BY <2>5 DEF Meets
  <2>7. BestUpTo(b, w, s, p + 1, c.best)
    <3>1. BestUpTo(b, w, s, p, c.best) /\ p \in Nat
      OBVIOUS
    <3> HIDE DEF s
    <3> QED BY <2>2, <2>6, <3>1, BestOn
  <2>8. m \in Cand(b) /\ m.body = c.body /\ m.step = c.step + 1 /\ m.best = c.best
    BY <2>2 DEF Cand
  <2> HIDE DEF m, s
  <2>9. On(b, w, s, p, c, m)
    BY <1>2, <2>5, <2>7, <2>8 DEF On
  <2> QED BY <2>1, <2>9 DEF s
<1> QED BY <1>1, <1>2

-----------------------------------------------------------------------------
(* What has become empty stays so.                                         *)
LEMMA BotStays ==
  ASSUME NEW b, WellFormed(b), NEW w \in Seq(Alphabet), NEW i \in 0 .. Len(w), NEW p \in i .. Len(w),
         Body(b, w, i, p) = BotId
  PROVE  \A j \in p .. Len(w) : Body(b, w, i, j) = BotId /\ ~Meets(b, w, i, j)
<1> DEFINE n == Len(w) - p
           S == {k \in 0 .. n : Body(b, w, i, p + k) = BotId}
<1>1. n \in Nat /\ p \in Nat /\ i \in Nat /\ Len(w) \in Nat
  OBVIOUS
<1>2. 0 \in S
  BY <1>1
<1>3. \A k \in 0 .. n - 1 : k \in S => k + 1 \in S
  <2> SUFFICES ASSUME NEW k \in 0 .. n - 1, k \in S PROVE k + 1 \in S
    OBVIOUS
  <2>1. p + k \in i .. Len(w) - 1 /\ (p + k) + 1 = p + (k + 1) /\ k + 1 \in 0 .. n
    BY <1>1
  <2>2. Body(b, w, i, (p + k) + 1) = b.der[Body(b, w, i, p + k)][w[(p + k) + 1]]
    BY <2>1, BodiesCorrect DEF BodiesOK
  <2>3. w[(p + k) + 1] \in Alphabet /\ Body(b, w, i, p + k) = BotId
    BY <2>1
  <2>4. Body(b, w, i, (p + k) + 1) = BotId
    BY <2>2, <2>3, RegexFacts
  <2> QED BY <2>1, <2>4
<1>4. 0 .. n \subseteq S
  <2> HIDE DEF S, n
  <2> QED BY <1>1, <1>2, <1>3, UpInterval
<1>5. \A j \in p .. Len(w) : j - p \in 0 .. n /\ p + (j - p) = j
  BY <1>1
<1>6. \A j \in p .. Len(w) : Body(b, w, i, j) = BotId
  <2> SUFFICES ASSUME NEW j \in p .. Len(w) PROVE Body(b, w, i, j) = BotId
    OBVIOUS
  <2>1. j - p \in S /\ p + (j - p) = j
    <3> HIDE DEF S, n
    <3> QED BY <1>4, <1>5
  <2> QED BY <2>1
<1> QED BY <1>6, RegexFacts DEF Meets

LEMMA BotHopeless ==
  ASSUME NEW b, WellFormed(b), NEW w \in Seq(Alphabet), NEW i \in 0 .. Len(w), NEW p \in i .. Len(w),
         Body(b, w, i, p) = BotId, NoneYet(b, w, i, p)
  PROVE  Hopeless(b, w, i)
<1>1. \A j \in p .. Len(w) : ~Meets(b, w, i, j)
  BY BotStays
<1>2. \A j \in i + 1 .. Len(w) : j \in p .. Len(w) \/ j \in i + 1 .. p
  OBVIOUS
<1> QED BY <1>1, <1>2 DEF Hopeless, NoneYet

LEMMA Squeezed ==
  ASSUME NEW s \in Nat, NEW p \in Nat, NEW x \in Nat, ~(s + x + 1 <= p + 1), s + x <= p + 1
  PROVE  x = p + 1 - s
  OBVIOUS

\* a candidate goes on to shadow what it shadows; when it fails, so does that
LEMMA ShadowsOn ==
  ASSUME NEW b, WellFormed(b), NEW w \in Seq(Alphabet), NEW p \in 0 .. Len(w) - 1, NEW c \in Cand(b),
         c.step <= p, NEW m, On(b, w, p - c.step, p, c, m), BestUpTo(b, w, p - c.step, p, c.best),
         NEW i \in 0 .. p, Shadows(b, w, p, c, i)
  PROVE  /\ Alive(m) => Shadows(b, w, p + 1, m, i)
         /\ ~Alive(m) => Hopeless(b, w, i)
<1> DEFINE s == p - c.step
<1>1. /\ s \in Nat /\ p \in Nat /\ s <= p /\ c.step \in Nat /\ c.best \in Nat /\ s + c.step = p /\ s < i
      /\ s \in 0 .. Len(w) /\ p + 1 \in s .. Len(w) /\ i \in Nat /\ i \in 0 .. Len(w)
  BY DEF Cand, Shadows
<1>2. m \in Cand(b) /\ m.step = c.step + 1 /\ m.body = Body(b, w, s, p + 1) /\ BestUpTo(b, w, s, p + 1, m.best)
  BY DEF On
<1>3. m.best \in Nat /\ m.step \in Nat /\ (p + 1) - m.step = s
  BY <1>1, <1>2 DEF Cand
<1>4. m.best = c.best \/ m.best = m.step
  BY DEF On
<1>5. c.best <= c.step
  <2>1. BestUpTo(b, w, s, p, c.best)
    OBVIOUS
  <2> HIDE DEF s
  <2> QED BY <1>1, <2>1, BestBelow
<1>6. \/ i < s + c.best
      \/ /\ NoneYet(b, w, i, p)
         /\ \A j \in p + 1 .. Len(w) : Meets(b, w, i, j) => \E k \in p + 1 .. j : Meets(b, w, s, k)
  BY DEF Shadows
<1> HIDE DEF s
<1>7. CASE i < s + c.best
  <2>1. i < s + m.best
    BY <1>1, <1>2, <1>3, <1>4, <1>5, <1>7, SMTT(30)
  <2>2. m.best > 0
    BY <1>1, <1>3, <2>1
  <2>3. Alive(m)
    BY <2>2 DEF Alive
  <2> QED BY <1>1, <1>3, <2>1, <2>3 DEF Shadows
<1>8. CASE /\ NoneYet(b, w, i, p)
           /\ \A j \in p + 1 .. Len(w) : Meets(b, w, i, j) => \E k \in p + 1 .. j : Meets(b, w, s, k)
  <2>1. CASE Meets(b, w, s, p + 1)
    <3>1. m.best = p + 1 - s
      <4>1. m.best # 0
        <5>1. p + 1 \in s + 1 .. p + 1
          BY <1>1
        <5> QED BY <1>2, <2>1, <5>1 DEF BestUpTo, NoneYet
      <4>2. s + m.best <= p + 1 /\ \A j \in s + m.best + 1 .. p + 1 : ~Meets(b, w, s, j)
        BY <1>2, <4>1 DEF BestUpTo
      <4>3. ~(p + 1 \in s + m.best + 1 .. p + 1)
        BY <2>1, <4>2
      <4>4. ~(s + m.best + 1 <= p + 1)
        <5>1. s + m.best + 1 \in Nat
          BY <1>1, <1>3, SMTT(30)
        <5> HIDE DEF On, BestUpTo
        <5> QED BY <1>1, <4>3, <5>1
      <4>5. s + m.best <= p + 1 /\ m.best \in Nat
        BY <1>3, <4>2
      <4> QED BY <1>1, <4>4, <4>5, Squeezed
    <3>2. i < s + m.best /\ m.best > 0
      BY <1>1, <1>3, <3>1
    <3>3. Alive(m)
      BY <3>2 DEF Alive
    <3> QED BY <1>1, <1>3, <3>2, <3>3 DEF Shadows
  <2>2. CASE ~Meets(b, w, s, p + 1)
    <3>1. \A k \in p + 1 .. p + 1 : k = p + 1
      BY <1>1
    <3>2. ~Meets(b, w, i, p + 1)
      <4>1. p + 1 \in p + 1 .. Len(w)
        BY <1>1
      <4> QED BY <1>8, <2>2, <3>1, <4>1
    <3>3. NoneYet(b, w, i, p + 1)
      <4>1. \A j \in i + 1 .. p + 1 : j = p + 1 \/ j \in i + 1 .. p
        BY <1>1
      <4> QED BY <1>8, <3>2, <4>1 DEF NoneYet
    <3>4. ASSUME NEW j \in (p + 1) + 1 .. Len(w), Meets(b, w, i, j)
          PROVE  \E k \in (p + 1) + 1 .. j : Meets(b, w, s, k)
      <4>1. j \in p + 1 .. Len(w)
        BY <1>1
      <4>2. PICK k \in p + 1 .. j : Meets(b, w, s, k)
        BY <1>8, <3>4, <4>1
      <4>3. k # p + 1
        BY <2>2, <4>2
      <4>4. k \in (p + 1) + 1 .. j
        BY <1>1, <4>3
      <4> QED BY <4>2, <4>4
    <3>5. Shadows(b, w, p + 1, m, i)
      BY <1>1, <1>3, <3>3, <3>4 DEF Shadows
    <3>6. ASSUME ~Alive(m) PROVE Hopeless(b, w, i)
      <4>1. Body(b, w, s, p + 1) = BotId
        BY <1>2, <3>6 DEF Alive
      <4>2. \A k \in p + 1 .. Len(w) : ~Meets(b, w, s, k)
        BY <1>1, <4>1, BotStays
      <4>3. \A j \in i + 1 .. Len(w) : j \in i + 1 .. p \/ j \in p + 1 .. Len(w)
        BY <1>1
      <4>4. \A j \in p + 1 .. Len(w) : ~Meets(b, w, i, j)
        <5> SUFFICES ASSUME NEW j \in p + 1 .. Len(w), Meets(b, w, i, j) PROVE FALSE
          OBVIOUS
        <5>1. PICK k \in p + 1 .. j : Meets(b, w, s, k)
          BY <1>8
        <5>2. k \in p + 1 .. Len(w)
          BY <1>1
        <5> QED BY <4>2, <5>1, <5>2
      <4> QED BY <1>8, <4>3, <4>4 DEF Hopeless, NoneYet
    <3> QED BY <3>5, <3>6
  <2> QED BY <2>1, <2>2
<1> QED BY <1>6, <1>7, <1>8

-----------------------------------------------------------------------------
(* derive_chain with the candidate that begins here: it stands for every   *)
(* start that the chain stood for, and for the place where the byte was.   *)
LEMMA DerivedTracked ==
  ASSUME NEW b, WellFormed(b), NEW w \in Seq(Alphabet), NEW from \in Nat, NEW p \in from .. Len(w) - 1,
         NEW K, ChainOK(b, w, from, p, K), NEW mt, Class(b, mt), w[p + 1] \in mt
  PROVE  /\ Tracked(b, w, from, p + 1, DeriveChain(b, K, mt) \cup Spawned(b, mt))
         /\ ApartOrMatched(b, DeriveChain(b, K, mt) \cup Spawned(b, mt))
<1> DEFINE Q == DeriveChain(b, K, mt) \cup Spawned(b, mt)
           c0 == Candidate(b.pattern, 0, 0)
           sp == Derive(b, c0, mt)
           Next1(c) == Moved(b, c, mt)
<1>1. /\ p \in Nat /\ from <= p /\ p \in 0 .. Len(w) - 1 /\ p + 1 <= Len(w) /\ p - 0 = p
      /\ p \in 0 .. Len(w) /\ p + 1 \in p .. Len(w) /\ p \in p .. Len(w) /\ p + 1 \in Nat
  OBVIOUS
<1>2. /\ K \subseteq Cand(b) /\ \A c \in K : Tracks(b, w, from, p, c)
      /\ \A c, d \in K : c.step = d.step => c = d
      /\ \A i \in from .. p - 1 : Covered(b, w, p, K, i)
      /\ \A c, d \in K : d.step < c.step => c.best <= c.step - d.step
  BY DEF ChainOK, Tracked, Apart
<1>3. \A c \in K : /\ c \in Cand(b) /\ c.step \in Nat /\ c.step >= 1 /\ c.step <= p - from /\ c.step <= p
                   /\ c.body = Body(b, w, p - c.step, p) /\ BestUpTo(b, w, p - c.step, p, c.best) /\ c.best \in Nat
  <2> SUFFICES ASSUME NEW c \in K
               PROVE  /\ c \in Cand(b) /\ c.step \in Nat /\ c.step >= 1 /\ c.step <= p - from /\ c.step <= p
                      /\ c.body = Body(b, w, p - c.step, p) /\ BestUpTo(b, w, p - c.step, p, c.best) /\ c.best \in Nat
    OBVIOUS
  <2>1. c \in Cand(b) /\ c.step \in Nat /\ c.best \in Nat
    BY <1>2 DEF Cand
  <2>2. c.step \in 1 .. p - from /\ c.body = Body(b, w, p - c.step, p) /\ BestUpTo(b, w, p - c.step, p, c.best)
    BY <1>2 DEF Tracks
  <2>3. c.step >= 1 /\ c.step <= p - from /\ c.step <= p
    BY <1>1, <2>1, <2>2
  <2> QED BY <2>1, <2>2, <2>3
<1>4. \A c \in K : On(b, w, p - c.step, p, c, Next1(c))
  <2> SUFFICES ASSUME NEW c \in K PROVE On(b, w, p - c.step, p, c, Moved(b, c, mt))
    OBVIOUS
  <2> QED BY <1>1, <1>3, MovedOn
<1>5. /\ On(b, w, p, p, c0, sp) /\ sp.step = 1 /\ sp.best \in Nat
  <2>1. c0 = [body |-> b.pattern, step |-> 0, best |-> 0]
    BY DEF Candidate
  <2>2. c0 \in Cand(b) /\ c0.step = 0 /\ c0.best = 0 /\ c0.body = b.pattern
    <3>1. b.pattern \in Bodies(b)
      BY RegexFacts
    <3> QED BY <2>1, <3>1 DEF Cand
  <2>3. Body(b, w, p, p) = b.pattern
    BY <1>1, BodiesCorrect DEF BodiesOK
  <2>4. BestUpTo(b, w, p, p, 0)
    BY <1>1 DEF BestUpTo, NoneYet
  <2> HIDE DEF c0
  <2>5. c0.step <= p /\ p - c0.step = p /\ c0.body = Body(b, w, p - c0.step, p) /\ BestUpTo(b, w, p - c0.step, p, c0.best)
    BY <1>1, <2>2, <2>3, <2>4
  <2>6. On(b, w, p - c0.step, p, c0, sp)
    BY <1>1, <2>2, <2>5, DeriveOn
  <2>7. On(b, w, p, p, c0, sp)
    BY <2>5, <2>6
  <2>8. sp \in Cand(b) /\ sp.step = c0.step + 1
    BY <2>7 DEF On
  <2> HIDE DEF sp
  <2>9. sp.step = 1 /\ sp.best \in Nat
    BY <2>2, <2>8 DEF Cand
  <2> QED BY <2>7, <2>9
<1>6. \A m : m \in Q <=> Alive(m) /\ (m = sp \/ \E c \in K : m = Next1(c))
  <2> HIDE DEF sp, Next1
  <2> QED BY DEF DeriveChain, Spawned, sp, c0, Next1
<1>7. \A c \in K : /\ Next1(c).step = c.step + 1 /\ Next1(c) \in Cand(b) /\ (p + 1) - Next1(c).step = p - c.step
                   /\ Next1(c).best = c.best \/ (Next1(c).best = Next1(c).step /\ b.null[Next1(c).body] # Never)
                   /\ Next1(c).body = Body(b, w, p - c.step, p + 1) /\ BestUpTo(b, w, p - c.step, p + 1, Next1(c).best)
  <2> HIDE DEF Next1
  <2>1. \A c \in K : Next1(c).step = c.step + 1
    BY <1>4 DEF On
  <2>2. \A c \in K : (p + 1) - Next1(c).step = p - c.step
    BY <1>1, <1>3, <2>1
  <2> QED BY <1>4, <2>1, <2>2 DEF On
<1>8. /\ sp \in Cand(b) /\ (p + 1) - sp.step = p /\ sp.body = Body(b, w, p, p + 1) /\ BestUpTo(b, w, p, p + 1, sp.best)
  <2> HIDE DEF sp
  <2> QED BY <1>1, <1>5 DEF On
<1> HIDE DEF sp, Next1, Q
<1>9. Q \subseteq Cand(b)
  BY <1>6, <1>7, <1>8
<1>10. \A m \in Q : Tracks(b, w, from, p + 1, m)
  <2> SUFFICES ASSUME NEW m \in Q PROVE Tracks(b, w, from, p + 1, m)
    OBVIOUS
  <2>0. Alive(m)
    BY <1>6
  <2>1. CASE m = sp
    <3>1. m.step \in 1 .. p + 1 - from
      BY <1>1, <1>5, <2>1
    <3> QED BY <1>8, <2>0, <2>1, <3>1 DEF Tracks
  <2>2. CASE \E c \in K : m = Next1(c)
    <3>1. PICK c \in K : m = Next1(c)
      BY <2>2
    <3>2. m.step \in 1 .. p + 1 - from
      BY <1>1, <1>3, <1>7, <3>1
    <3> QED BY <1>7, <2>0, <3>1, <3>2 DEF Tracks
  <2> QED BY <1>6, <2>1, <2>2
<1>11. \A m, n \in Q : m.step = n.step => m = n
  <2> SUFFICES ASSUME NEW m \in Q, NEW n \in Q, m.step = n.step PROVE m = n
    OBVIOUS
  <2>1. \A c \in K : Next1(c).step # sp.step
    BY <1>3, <1>5, <1>7
  <2>2. ASSUME NEW c \in K, NEW d \in K, m = Next1(c), n = Next1(d) PROVE m = n
    <3>1. c.step = d.step
      <4>1. c.step \in Nat /\ d.step \in Nat
        BY <1>3
      <4>2. m.step = c.step + 1 /\ n.step = d.step + 1
        BY <1>7, <2>2
      <4>3. m.step = n.step
        OBVIOUS
      <4> QED BY ONLY <4>1, <4>2, <4>3
    <3> QED BY <1>2, <2>2, <3>1
  <2> QED BY <1>6, <2>1, <2>2
<1>12. \A i \in from .. (p + 1) - 1 : Covered(b, w, p + 1, Q, i)
  <2> SUFFICES ASSUME NEW i \in from .. (p + 1) - 1 PROVE Covered(b, w, p + 1, Q, i)
    OBVIOUS
  <2>0. i \in Nat /\ i \in 0 .. p /\ i \in 0 .. Len(w) /\ p + 1 \in i .. Len(w)
    BY <1>1
  <2>1. ASSUME NEW m, ~Alive(m), m \in Cand(b), m.body = Body(b, w, i, p + 1), BestUpTo(b, w, i, p + 1, m.best)
        PROVE  Hopeless(b, w, i)
    <3>1. Body(b, w, i, p + 1) = BotId /\ ~(m.best > 0)
      BY <2>1 DEF Alive
    <3>2. NoneYet(b, w, i, p + 1)
      BY <2>1, <3>1 DEF BestUpTo
    <3> QED BY <2>0, <3>1, <3>2, BotHopeless
  <2>2. CASE i = p
    <3>1. CASE Alive(sp)
      <4>1. sp \in Q /\ sp.step = (p + 1) - i
        BY <1>1, <1>5, <1>6, <2>2, <3>1
      <4> QED BY <4>1 DEF Covered
    <3>2. CASE ~Alive(sp)
      <4>1. Hopeless(b, w, i)
        BY <1>8, <2>1, <2>2, <3>2
      <4> QED BY <4>1 DEF Covered
    <3> QED BY <3>1, <3>2
  <2>3. CASE i # p
    <3>1. i \in from .. p - 1
      BY <1>1, <2>3
    <3>2. Covered(b, w, p, K, i)
      BY <1>2, <3>1
    <3>3. CASE \E c \in K : c.step = p - i
      <4>1. PICK c \in K : c.step = p - i
        BY <3>3
      <4>2. p - c.step = i /\ Next1(c).step = (p + 1) - i
        BY <1>1, <1>3, <1>7, <2>0, <4>1
      <4>3. CASE Alive(Next1(c))
        <5>1. Next1(c) \in Q
          BY <1>6, <4>3
        <5> QED BY <4>2, <5>1 DEF Covered
      <4>4. CASE ~Alive(Next1(c))
        <5>1. Hopeless(b, w, i)
          BY <1>7, <2>1, <4>2, <4>4
        <5> QED BY <5>1 DEF Covered
      <4> QED BY <4>3, <4>4
    <3>4. CASE Hopeless(b, w, i)
      BY <3>4 DEF Covered
    <3>5. CASE \E c \in K : Shadows(b, w, p, c, i)
      <4>1. PICK c \in K : Shadows(b, w, p, c, i)
        BY <3>5
      <4>2. On(b, w, p - c.step, p, c, Next1(c))
        BY <1>4
      <4>3. /\ Alive(Next1(c)) => Shadows(b, w, p + 1, Next1(c), i)
            /\ ~Alive(Next1(c)) => Hopeless(b, w, i)
        BY <1>1, <1>3, <2>0, <4>1, <4>2, ShadowsOn
      <4>4. Alive(Next1(c)) => Next1(c) \in Q
        BY <1>6
      <4> QED BY <4>3, <4>4 DEF Covered
    <3> QED BY <3>2, <3>3, <3>4, <3>5 DEF Covered
  <2> QED BY <2>2, <2>3
<1>13. Tracked(b, w, from, p + 1, Q)
  BY <1>9, <1>10, <1>11, <1>12 DEF Tracked
<1>14. ApartOrMatched(b, Q)
  <2> SUFFICES ASSUME NEW m \in Q, NEW n \in Q, n.step < m.step
               PROVE  m.best <= m.step - n.step \/ (b.null[m.body] # Never /\ m.best = m.step)
    BY DEF ApartOrMatched
  <2>1. m.step \in Nat /\ n.step \in Nat /\ n.step >= 1
    <3>1. m \in Cand(b) /\ n \in Cand(b) /\ n.step \in 1 .. p + 1 - from
      BY <1>9, <1>10 DEF Tracks
    <3> QED BY <3>1 DEF Cand
  <2>2. m # sp
    BY <1>5, <2>1
  <2>3. PICK c \in K : m = Next1(c)
    BY <1>6, <2>2
  <2>4. CASE n = sp
    <3>1. c.best <= c.step
      <4>1. p - c.step \in Nat /\ p - c.step <= p /\ (p - c.step) + c.best <= p
        BY <1>1, <1>3, BestBelow
      <4> QED BY <1>1, <1>3, <4>1
    <3>2. m.step - n.step = c.step
      BY <1>3, <1>5, <1>7, <2>3, <2>4, SMTT(30)
    <3> QED BY <1>7, <2>3, <3>1, <3>2
  <2>5. CASE n # sp
    <3>1. PICK d \in K : n = Next1(d)
      BY <1>6, <2>5
    <3>2. d.step < c.step /\ m.step - n.step = c.step - d.step
      <4>1. c.step \in Nat /\ d.step \in Nat
        BY <1>3
      <4>2. m.step = c.step + 1 /\ n.step = d.step + 1
        BY <1>7, <2>3, <3>1
      <4> QED BY <4>1, <4>2
    <3>3. c.best <= c.step - d.step
      BY <1>2, <3>2
    <3> QED BY <1>7, <2>3, <3>2, <3>3
  <2> QED BY <2>4, <2>5
<1> QED BY <1>13, <1>14 DEF Q

-----------------------------------------------------------------------------
(* What covers promises: the second node has matched when the first does.  *)
LEMMA CoversMatches ==
  ASSUME NEW b, WellFormed(b), NEW w \in Seq(Alphabet), NEW p \in 0 .. Len(w), NEW i \in 0 .. p, NEW s \in 0 .. p,
         <<Body(b, w, i, p), Body(b, w, s, p)>> \in b.covers, b.null[Body(b, w, s, p)] = Never
  PROVE  \A j \in p + 1 .. Len(w) : Meets(b, w, i, j) => \E k \in p + 1 .. j : Meets(b, w, s, k)
<1> SUFFICES ASSUME NEW j \in p + 1 .. Len(w), Meets(b, w, i, j), \A k \in p + 1 .. j : ~Meets(b, w, s, k)
             PROVE  FALSE
  OBVIOUS
<1> DEFINE n == j - p
           x(k) == Body(b, w, i, p + k)
           y(k) == Body(b, w, s, p + k)
           S == {k \in 0 .. n : <<x(k), y(k)>> \in b.covers}
<1>1. n \in Nat /\ p \in Nat /\ j \in Nat /\ p + n = j /\ p + 0 = p /\ Len(w) \in Nat
  OBVIOUS
<1>2. 0 \in S
  BY <1>1
<1>3. \A k \in 0 .. n : b.null[y(k)] = Never
  <2> SUFFICES ASSUME NEW k \in 0 .. n PROVE b.null[Body(b, w, s, p + k)] = Never
    OBVIOUS
  <2>1. CASE k = 0
    BY <1>1, <2>1
  <2>2. CASE k # 0
    <3>1. p + k \in p + 1 .. j
      BY <1>1, <2>2
    <3> QED BY <3>1 DEF Meets
  <2> QED BY <2>1, <2>2
<1>4. \A k \in 0 .. n - 1 : k \in S => k + 1 \in S
  <2> SUFFICES ASSUME NEW k \in 0 .. n - 1, k \in S PROVE k + 1 \in S
    OBVIOUS
  <2>1. /\ k \in 0 .. n /\ k + 1 \in 0 .. n /\ p + (k + 1) = (p + k) + 1 /\ i \in 0 .. Len(w) /\ s \in 0 .. Len(w)
        /\ p + k \in i .. Len(w) - 1 /\ p + k \in s .. Len(w) - 1 /\ w[(p + k) + 1] \in Alphabet
    BY <1>1
  <2>2. <<x(k), y(k)>> \in b.covers /\ b.null[y(k)] = Never
    BY <1>3, <2>1
  <2>3. \A c \in Alphabet : <<b.der[x(k)][c], b.der[y(k)][c]>> \in b.covers
    <3> HIDE DEF x, y
    <3> QED BY <2>2 DEF WellFormed
  <2>4. /\ Body(b, w, i, (p + k) + 1) = b.der[Body(b, w, i, p + k)][w[(p + k) + 1]]
        /\ Body(b, w, s, (p + k) + 1) = b.der[Body(b, w, s, p + k)][w[(p + k) + 1]]
    BY <2>1, BodiesCorrect DEF BodiesOK
  <2> QED BY <2>1, <2>3, <2>4
<1>5. n \in S
  <2>1. 0 .. n \subseteq S
    <3> HIDE DEF S, n
    <3> QED BY <1>1, <1>2, <1>4, UpInterval
  <2> QED BY <1>1, <2>1
<1>6. <<x(n), y(n)>> \in b.covers /\ b.null[y(n)] = Never
  <2>1. n \in 0 .. n
    BY <1>1
  <2> QED BY <1>3, <1>5, <2>1
<1>7. b.null[x(n)] = Never
  <2> HIDE DEF x, y
  <2> QED BY <1>6 DEF WellFormed
<1> QED BY <1>1, <1>7 DEF Meets

-----------------------------------------------------------------------------
(* rebuild_chain: the recursion from the last candidate to the first.      *)
LEMMA FirstFacts ==
  ASSUME NEW Q, Q # {}, NEW n \in Nat, \A c \in Q : c.step \in 1 .. n
  PROVE  First(Q) \in Q /\ \A d \in Q : d.step <= First(Q).step
<1> DEFINE T == {c.step : c \in Q}
<1>1. T \in SUBSET (0 .. n) /\ T # {}
  OBVIOUS
<1>2. PICK m \in T : \A k \in T : k <= m
  <2> HIDE DEF T
  <2> QED BY <1>1, LastNatural
<1>3. PICK c \in Q : m = c.step
  BY <1>2
<1>4. c \in Q /\ \A d \in Q : d.step <= c.step
  BY <1>2, <1>3
<1> QED BY <1>4 DEF First

AtStep(Q, n) == {c \in Q : c.step = n}
RebuiltAt(b, Q, k, U) ==
  IF AtStep(Q, k) = {} THEN U ELSE AtStep(Q, k) \cup PruneCountedChain(b, CHOOSE c \in AtStep(Q, k) : TRUE, U)
Rebuilds(b, Q, m, f) ==
  /\ f \in [0 .. m -> SUBSET Q] /\ f[0] = {}
  /\ \A k \in 1 .. m : f[k] = RebuiltAt(b, Q, k, f[k - 1])
  /\ RebuildChain(b, Q) = f[m]
  /\ \A c \in Q : c.step \in 1 .. m
  /\ Q # {} => AtStep(Q, m) # {}

LEMMA PruneSubset ==
  ASSUME NEW b, NEW c, NEW U PROVE PruneCountedChain(b, c, U) \subseteq U
  BY DEF PruneCountedChain

LEMMA RebuildExists ==
  ASSUME NEW b, NEW Q, NEW n \in Nat, \A c \in Q : c.step \in 1 .. n
  PROVE  \E m \in Nat : \E f : Rebuilds(b, Q, m, f)
<1> DEFINE m == IF Q = {} THEN 0 ELSE First(Q).step
           step == [x \in (1 .. m) \X (SUBSET Q) |-> RebuiltAt(b, Q, x[1], x[2])]
           Is(r) == r = [k \in 0 .. m |-> IF k = 0 THEN {}
                                          ELSE IF AtStep(Q, k) = {} THEN r[k - 1]
                                          ELSE AtStep(Q, k) \cup PruneCountedChain(b, CHOOSE c \in AtStep(Q, k) : TRUE, r[k - 1])]
<1>1. m \in Nat /\ (\A c \in Q : c.step \in 1 .. m) /\ (Q # {} => AtStep(Q, m) # {})
  <2>1. CASE Q = {}
    BY <2>1
  <2>2. CASE Q # {}
    <3>1. First(Q) \in Q /\ \A d \in Q : d.step <= First(Q).step
      BY <2>2, FirstFacts
    <3>2. m = First(Q).step
      BY <2>2
    <3> HIDE DEF m
    <3>3. m \in Nat
      BY <3>1, <3>2
    <3>4. AtStep(Q, m) # {}
      BY <3>1, <3>2 DEF AtStep
    <3> QED BY <3>1, <3>2, <3>3, <3>4
  <2> QED BY <2>1, <2>2
<1>2. \A k, U : U \in SUBSET Q => RebuiltAt(b, Q, k, U) \in SUBSET Q
  <2> SUFFICES ASSUME NEW k, NEW U, U \in SUBSET Q PROVE RebuiltAt(b, Q, k, U) \in SUBSET Q
    OBVIOUS
  <2>1. PruneCountedChain(b, CHOOSE c \in AtStep(Q, k) : TRUE, U) \subseteq U
    BY PruneSubset
  <2> QED BY <2>1 DEF RebuiltAt, AtStep
<1>3. step \in [(1 .. m) \X (SUBSET Q) -> SUBSET Q]
  <2> HIDE DEF m
  <2>1. \A x \in (1 .. m) \X (SUBSET Q) : RebuiltAt(b, Q, x[1], x[2]) \in SUBSET Q
    BY <1>2
  <2> QED BY <2>1
<1>4. PICK f \in [0 .. m -> SUBSET Q] : f = Recursion(m, {}, step, f)
  <2>1. {} \in SUBSET Q
    OBVIOUS
  <2> HIDE DEF m, step
  <2>2. Recurses(m, SUBSET Q, {}, step)
    BY <1>1, <1>3, <2>1, RecursionExists
  <2> QED BY <2>2 DEF Recurses
<1>5. \A k \in 0 .. m : k # 0 => <<k, f[k - 1]>> \in (1 .. m) \X (SUBSET Q)
  <2> HIDE DEF m
  <2> QED BY <1>1
<1>6. \A k \in 0 .. m : k # 0 => step[<<k, f[k - 1]>>] = RebuiltAt(b, Q, k, f[k - 1])
  <2> HIDE DEF m
  <2> QED BY <1>5
<1>7. \A k \in 0 .. m : f[k] = IF k = 0 THEN {} ELSE RebuiltAt(b, Q, k, f[k - 1])
  <2> HIDE DEF m, step
  <2> QED BY <1>4, <1>6 DEF Recursion
<1>8. Is(f)
  <2> HIDE DEF m, step
  <2> QED BY <1>7 DEF RebuiltAt
<1>9. RebuildChain(b, Q) = (CHOOSE r : Is(r))[m]
  BY DEF RebuildChain, AtStep
<1> DEFINE r == CHOOSE r : Is(r)
<1>10. Is(r)
  <2> HIDE DEF Is
  <2> QED BY <1>8
<1>11. \A k \in 0 .. m : r[k] = IF k = 0 THEN {} ELSE RebuiltAt(b, Q, k, r[k - 1])
  <2> HIDE DEF r, m
  <2> QED BY <1>10 DEF RebuiltAt
<1>12. r = [k \in 0 .. m |-> r[k]]
  <2>1. r = [k \in 0 .. m |-> IF k = 0 THEN {}
                                          ELSE IF AtStep(Q, k) = {} THEN r[k - 1]
                                          ELSE AtStep(Q, k) \cup PruneCountedChain(b, CHOOSE c \in AtStep(Q, k) : TRUE, r[k - 1])]
    BY <1>10
  <2> HIDE DEF r, m
  <2> QED BY <2>1
<1>13. \A k \in 0 .. m : r[k] \in SUBSET Q
  <2> DEFINE S == {k \in 0 .. m : r[k] \in SUBSET Q}
  <2> HIDE DEF r, m
  <2>1. 0 \in S
    BY <1>1, <1>11
  <2>2. \A k \in 0 .. m - 1 : k \in S => k + 1 \in S
    <3> SUFFICES ASSUME NEW k \in 0 .. m - 1, k \in S PROVE k + 1 \in S
      OBVIOUS
    <3>1. k + 1 \in 0 .. m /\ k + 1 # 0 /\ (k + 1) - 1 = k
      BY <1>1
    <3>2. r[k + 1] = RebuiltAt(b, Q, k + 1, r[k])
      BY <1>11, <3>1
    <3> QED BY <1>2, <3>1, <3>2
  <2>3. 0 .. m \subseteq S
    <3> HIDE DEF S
    <3> QED BY <1>1, <2>1, <2>2, UpInterval
  <2> QED BY <2>3
<1> HIDE DEF r, m, Is
<1>14. r \in [0 .. m -> SUBSET Q]
  BY <1>12, <1>13
<1>15. \A k \in 1 .. m : k \in 0 .. m /\ k # 0
  BY <1>1
<1>16. 0 \in 0 .. m /\ r[0] = {}
  BY <1>1, <1>11
<1>17. RebuildChain(b, Q) = r[m]
  BY <1>9 DEF r
<1>18. Rebuilds(b, Q, m, r)
  BY <1>1, <1>11, <1>14, <1>15, <1>16, <1>17 DEF Rebuilds
<1> QED BY <1>1, <1>18

-----------------------------------------------------------------------------
(* rebuild_chain leaves out candidates that others shadow.                 *)
TrackFacts(b, w, from, p, c) ==
  /\ c.step \in Nat /\ c.best \in Nat /\ c.step >= 1 /\ c.step <= p /\ from <= p - c.step
  /\ p - c.step \in 0 .. p /\ (p - c.step) + c.step = p /\ c.best <= c.step
  /\ c.body = Body(b, w, p - c.step, p) /\ BestUpTo(b, w, p - c.step, p, c.best) /\ Alive(c)
  /\ c.body \in Bodies(b)

LEMMA TracksFacts ==
  ASSUME NEW b, NEW w, NEW from \in Nat, NEW p \in Nat, NEW Q, Tracked(b, w, from, p, Q), NEW c \in Q
  PROVE  TrackFacts(b, w, from, p, c)
<1>1. c \in Cand(b) /\ Tracks(b, w, from, p, c)
  BY DEF Tracked
<1>2. c.step \in Nat /\ c.best \in Nat /\ c.body \in Bodies(b)
  BY <1>1 DEF Cand
<1>3. c.step \in 1 .. p - from /\ c.body = Body(b, w, p - c.step, p) /\ BestUpTo(b, w, p - c.step, p, c.best) /\ Alive(c)
  BY <1>1 DEF Tracks
<1>4. c.step >= 1 /\ c.step <= p /\ from <= p - c.step /\ p - c.step \in Nat /\ p - c.step <= p /\ (p - c.step) + c.step = p
  BY <1>2, <1>3
<1>5. (p - c.step) + c.best <= p
  BY <1>2, <1>3, <1>4, BestBelow
<1>6. c.best <= c.step
  BY <1>2, <1>4, <1>5
<1> QED BY <1>2, <1>3, <1>4, <1>6 DEF TrackFacts

LEMMA ShadowsThrough ==
  ASSUME NEW b, WellFormed(b), NEW w \in Seq(Alphabet), NEW from \in Nat, NEW p \in from .. Len(w),
         NEW Q, Tracked(b, w, from, p, Q), ApartOrMatched(b, Q), NEW c \in Q, NEW d \in Q,
         Shadows(b, w, p, c, p - d.step), NEW i \in from .. p - 1, Shadows(b, w, p, d, i)
  PROVE  Shadows(b, w, p, c, i)
<1> DEFINE sc == p - c.step
           sd == p - d.step
<1>1. /\ p \in Nat /\ i \in Nat /\ i < p /\ p <= Len(w)
  OBVIOUS
<1>2. /\ c.step \in Nat /\ c.best \in Nat /\ sc \in 0 .. p /\ sc + c.step = p /\ c.best <= c.step
      /\ d.step \in Nat /\ d.best \in Nat /\ sd \in 0 .. p /\ sd + d.step = p /\ d.best <= d.step
      /\ BestUpTo(b, w, sd, p, d.best)
  <2>0. TrackFacts(b, w, from, p, c) /\ TrackFacts(b, w, from, p, d)
    BY <1>1, TracksFacts
  <2>1. /\ c.step \in Nat /\ c.best \in Nat /\ sc \in 0 .. p /\ sc + c.step = p /\ c.best <= c.step
    BY <2>0 DEF TrackFacts
  <2>2. /\ d.step \in Nat /\ d.best \in Nat /\ sd \in 0 .. p /\ sd + d.step = p /\ d.best <= d.step
        /\ BestUpTo(b, w, sd, p, d.best)
    BY <2>0 DEF TrackFacts
  <2> QED BY <2>1, <2>2
<1>3. /\ sc < sd /\ sd < i
      /\ \/ sd < sc + c.best
         \/ /\ NoneYet(b, w, sd, p)
            /\ \A j \in p + 1 .. Len(w) : Meets(b, w, sd, j) => \E k \in p + 1 .. j : Meets(b, w, sc, k)
      /\ \/ i < sd + d.best
         \/ /\ NoneYet(b, w, i, p)
            /\ \A j \in p + 1 .. Len(w) : Meets(b, w, i, j) => \E k \in p + 1 .. j : Meets(b, w, sd, k)
  BY DEF Shadows
<1>4. d.step < c.step
  BY <1>1, <1>2, <1>3, SMTT(30)
<1>5. c.best <= c.step - d.step \/ c.best = c.step
  BY <1>4 DEF ApartOrMatched
<1>6. sc < i
  BY <1>1, <1>2, <1>3, SMTT(30)
<1>7. c.step - d.step = sd - sc
  BY <1>2, SMTT(30)
<1>8. CASE c.best = c.step
  <2>1. i < sc + c.best
    BY <1>1, <1>2, <1>8
  <2> QED BY <1>6, <2>1 DEF Shadows
<1>9. CASE c.best <= c.step - d.step
  <2>1. ~(sd < sc + c.best)
    <3>1. c.best <= sd - sc
      BY <1>7, <1>9
    <3> HIDE DEF sc, sd
    <3> QED BY <1>2, <3>1, SMTT(30)
  <2>2. /\ NoneYet(b, w, sd, p)
        /\ \A j \in p + 1 .. Len(w) : Meets(b, w, sd, j) => \E k \in p + 1 .. j : Meets(b, w, sc, k)
    BY <1>3, <2>1
  <2>3. d.best = 0
    <3> SUFFICES ASSUME d.best > 0 PROVE FALSE
      BY <1>2, SMTT(30)
    <3> HIDE DEF sc, sd
    <3>1. Meets(b, w, sd, sd + d.best) /\ sd + d.best <= p
      BY <1>2 DEF BestUpTo
    <3>2. sd + d.best \in sd + 1 .. p
      <4>1. p \in Nat /\ sd \in Nat /\ d.best \in Nat /\ d.best > 0 /\ sd + d.best <= p
        BY <1>1, <1>2, <3>1
      <4> QED BY ONLY <4>1
    <3> QED BY <2>2, <3>1, <3>2 DEF NoneYet
  <2>4. /\ NoneYet(b, w, i, p)
        /\ \A j \in p + 1 .. Len(w) : Meets(b, w, i, j) => \E k \in p + 1 .. j : Meets(b, w, sd, k)
    <3>1. ~(i < sd + d.best)
      BY <1>1, <1>2, <1>3, <2>3
    <3> QED BY <1>3, <3>1
  <2>5. ASSUME NEW j \in p + 1 .. Len(w), Meets(b, w, i, j)
        PROVE  \E k \in p + 1 .. j : Meets(b, w, sc, k)
    <3> HIDE DEF sc, sd
    <3>1. PICK k \in p + 1 .. j : Meets(b, w, sd, k)
      BY <2>4, <2>5
    <3>2. k \in p + 1 .. Len(w)
      BY <1>1
    <3>3. PICK l \in p + 1 .. k : Meets(b, w, sc, l)
      BY <2>2, <3>1, <3>2
    <3>4. l \in p + 1 .. j
      BY <1>1
    <3> QED BY <3>3, <3>4
  <2> QED BY <1>6, <2>4, <2>5 DEF Shadows
<1> QED BY <1>5, <1>8, <1>9

\* of the candidates up to step k, those in U have been kept
Kept(b, w, p, Q, k, U) ==
  /\ U \subseteq Q
  /\ \A c \in U : c.step <= k
  /\ Apart(U)
  /\ \A d \in Q : d.step <= k /\ d \notin U => \E c \in U : Shadows(b, w, p, c, p - d.step)

LEMMA KeptOn ==
  ASSUME NEW b, WellFormed(b), NEW w \in Seq(Alphabet), NEW from \in Nat, NEW p \in from .. Len(w),
         NEW Q, Tracked(b, w, from, p, Q), ApartOrMatched(b, Q), NEW k \in Nat, NEW U, Kept(b, w, p, Q, k, U),
         NEW c \in Q, c.step = k + 1
  PROVE  Kept(b, w, p, Q, k + 1, {c} \cup PruneCountedChain(b, c, U))
<1> DEFINE P == PruneCountedChain(b, c, U)
           V == {c} \cup P
           s == p - c.step
<1>1. p \in Nat /\ p <= Len(w) /\ Len(w) \in Nat
  OBVIOUS
<1>2. /\ U \subseteq Q /\ \A d \in U : d.step <= k
      /\ \A d, e \in U : e.step < d.step => d.best <= d.step - e.step
      /\ \A d \in Q : d.step <= k /\ d \notin U => \E e \in U : Shadows(b, w, p, e, p - d.step)
  BY DEF Kept, Apart
<1>3. P \subseteq U
  BY PruneSubset
<1>4. /\ c.step \in Nat /\ c.best \in Nat /\ c.step >= 1 /\ s \in 0 .. p /\ s + c.step = p /\ c.best <= c.step
      /\ c.body = Body(b, w, s, p) /\ BestUpTo(b, w, s, p, c.best) /\ c.body \in Bodies(b)
  <2>1. TrackFacts(b, w, from, p, c)
    BY <1>1, TracksFacts
  <2> QED BY <2>1 DEF TrackFacts
<1>5. \A d \in Q : d.step \in Nat /\ d.best \in Nat /\ d.step >= 1 /\ d.step <= p /\ p - d.step \in 0 .. p
                   /\ p - d.step \in from .. p - 1 /\ (p - d.step) + d.step = p
                   /\ d.body = Body(b, w, p - d.step, p) /\ BestUpTo(b, w, p - d.step, p, d.best)
  <2> SUFFICES ASSUME NEW d \in Q
               PROVE  d.step \in Nat /\ d.best \in Nat /\ d.step >= 1 /\ d.step <= p /\ p - d.step \in 0 .. p
                   /\ p - d.step \in from .. p - 1 /\ (p - d.step) + d.step = p
                   /\ d.body = Body(b, w, p - d.step, p) /\ BestUpTo(b, w, p - d.step, p, d.best)
    OBVIOUS
  <2>1. /\ d.step \in Nat /\ d.best \in Nat /\ d.step >= 1 /\ d.step <= p /\ from <= p - d.step /\ p - d.step \in 0 .. p
        /\ (p - d.step) + d.step = p
        /\ d.body = Body(b, w, p - d.step, p) /\ BestUpTo(b, w, p - d.step, p, d.best)
    <3>1. TrackFacts(b, w, from, p, d)
      BY <1>1, TracksFacts
    <3> QED BY <3>1 DEF TrackFacts
  <2>2. p - d.step \in from .. p - 1
    BY <1>1, <2>1
  <2> QED BY <2>1, <2>2
<1>6. /\ V \subseteq Q /\ \A d \in V : d.step <= k + 1
  <2>1. \A d \in U : d \in Q /\ d.step \in Nat /\ d.step <= k
    BY <1>2, <1>5
  <2>2. \A d \in U : d.step <= k + 1
    BY <2>1
  <2> QED BY <1>2, <1>3, <1>4, <2>2
<1>7. \A d \in Q : d.step <= k + 1 /\ d \notin V => d.step <= k /\ d # c
  <2> SUFFICES ASSUME NEW d \in Q, d.step <= k + 1, d # c PROVE d.step <= k
    OBVIOUS
  <2>1. d.step # c.step
    BY DEF Tracked
  <2>2. d.step \in Nat /\ c.step = k + 1
    BY <1>5
  <2> QED BY <2>1, <2>2
<1> HIDE DEF s
<1>8. CASE b.null[c.body] # Never
  <2>1. c.best = c.step
    <3>1. "center" \in b.null[c.body]
      BY <1>4, <1>8, NullFacts
    <3>2. MatchedUpTo(b, Body(b, w, s, p), c.step, c.best) = c.best
      BY <1>1, <1>4, MatchedIsBest
    <3> QED BY <1>4, <3>1, <3>2 DEF MatchedUpTo
  <2>2. V = {c}
    <3>1. c.body # BotId
      BY <1>8, RegexFacts
    <3> QED BY <1>8, <3>1 DEF PruneCountedChain
  <2>3. Apart(V)
    BY <1>4, <2>2 DEF Apart
  <2>4. ASSUME NEW d \in Q, d.step <= k + 1, d \notin V PROVE \E e \in V : Shadows(b, w, p, e, p - d.step)
    <3>1. d.step <= k
      BY <1>7, <2>4
    <3>2. p - c.step < p - d.step /\ p - d.step < (p - c.step) + c.best
      <4>1. p \in Nat /\ c.step \in Nat /\ d.step \in Nat /\ d.step >= 1 /\ d.step < c.step
        BY <1>1, <1>4, <1>5, <3>1
      <4>2. (p - c.step) + c.best = p
        BY <2>1, <4>1
      <4> QED BY <4>1, <4>2
    <3>3. Shadows(b, w, p, c, p - d.step)
      BY <3>2 DEF Shadows
    <3> QED BY <2>2, <3>3
  <2> QED BY <1>6, <2>3, <2>4 DEF Kept
<1>9. CASE b.null[c.body] = Never
  <2>1. \A d \in U : d.step < c.step /\ c.best <= c.step - d.step
    <3> SUFFICES ASSUME NEW d \in U PROVE d.step < c.step /\ c.best <= c.step - d.step
      OBVIOUS
    <3>0. d \in Q /\ d.step <= k
      BY <1>2
    <3>1. d.step < c.step
      <4>1. d.step \in Nat /\ c.step = k + 1
        BY <1>5, <3>0
      <4> QED BY <3>0, <4>1
    <3> QED BY <1>9, <3>0, <3>1 DEF ApartOrMatched
  <2>2. Apart(V)
    <3> SUFFICES ASSUME NEW d \in V, NEW e \in V, e.step < d.step PROVE d.best <= d.step - e.step
      BY DEF Apart
    <3>1. CASE d = c
      <4>1. e # c
        BY <1>4, <3>1
      <4>2. e \in U
        BY <1>3, <4>1
      <4> QED BY <2>1, <3>1, <4>2
    <3>2. CASE d # c
      <4>1. d \in U
        BY <1>3, <3>2
      <4>2. e # c
        <5>1. d.step < c.step
          BY <2>1, <4>1
        <5>2. d.step \in Nat
          BY <1>2, <1>5, <4>1
        <5> QED BY <1>4, <5>1, <5>2
      <4>3. e \in U
        BY <1>3, <4>2
      <4> QED BY <1>2, <4>1, <4>3
    <3> QED BY <3>1, <3>2
  <2>3. \A d \in U : d \notin V => Shadows(b, w, p, c, p - d.step)
    <3> SUFFICES ASSUME NEW d \in U, d \notin V PROVE Shadows(b, w, p, c, p - d.step)
      OBVIOUS
    <3>0. d \in Q
      BY <1>2
    <3>1. d \notin P
      OBVIOUS
    <3>2. c.body # BotId
      BY <3>1 DEF PruneCountedChain
    <3>3. P = {x \in U : \E e \in U : e.step >= x.step /\ Outlives(b, e, c)}
      BY <1>9, <3>2 DEF PruneCountedChain
    <3>4. ~Outlives(b, d, c)
      <4>1. d.step >= d.step
        BY <1>5, <3>0, SMTT(30)
      <4> HIDE DEF P
      <4> QED BY <3>1, <3>3, <4>1
    <3>5. <<d.body, c.body>> \in b.covered /\ ~(d.best > 0 /\ c.best <= Greater(c.step - d.step, 0))
      BY <3>4 DEF Outlives
    <3>6. d.best = 0
      <4>1. d.step < c.step /\ c.best <= c.step - d.step
        BY <2>1
      <4>2. d.step \in Nat /\ d.best \in Nat
        BY <1>5, <3>0
      <4>3. Greater(c.step - d.step, 0) = c.step - d.step
        BY <1>4, <4>1, <4>2 DEF Greater
      <4> QED BY <3>5, <4>1, <4>2, <4>3
    <3> DEFINE i == p - d.step
    <3>7. i \in 0 .. p /\ BestUpTo(b, w, i, p, d.best) /\ d.body = Body(b, w, i, p) /\ d.step \in Nat
      BY <1>5, <3>0
    <3>8. s < i
      <4>1. d.step < c.step
        BY <2>1
      <4> QED BY <1>1, <1>4, <3>7, <4>1 DEF s
    <3> HIDE DEF i
    <3>9. NoneYet(b, w, i, p)
      BY <3>6, <3>7 DEF BestUpTo
    <3>10. <<Body(b, w, i, p), Body(b, w, s, p)>> \in b.covers /\ b.null[Body(b, w, s, p)] = Never
      BY <1>4, <1>9, <3>5, <3>7, RegexFacts
    <3>11. p \in 0 .. Len(w)
      BY <1>1
    <3>12. \A j \in p + 1 .. Len(w) : Meets(b, w, i, j) => \E l \in p + 1 .. j : Meets(b, w, s, l)
      BY <1>4, <3>7, <3>10, <3>11, CoversMatches
    <3>13. Shadows(b, w, p, c, i)
      BY <3>8, <3>9, <3>12 DEF Shadows, s
    <3> QED BY <3>13 DEF i
  <2>4. ASSUME NEW d \in Q, d.step <= k + 1, d \notin V PROVE \E e \in V : Shadows(b, w, p, e, p - d.step)
    <3>1. d.step <= k
      BY <1>7, <2>4
    <3>2. CASE d \in U
      BY <2>3, <2>4, <3>2
    <3>3. CASE d \notin U
      <4>1. PICK e \in U : Shadows(b, w, p, e, p - d.step)
        BY <1>2, <3>1, <3>3
      <4>2. CASE e \in V
        BY <4>1, <4>2
      <4>3. CASE e \notin V
        <5>1. Shadows(b, w, p, c, p - e.step)
          BY <2>3, <4>3
        <5>2. e \in Q /\ p - d.step \in from .. p - 1
          BY <1>2, <1>5
        <5>3. Shadows(b, w, p, c, p - d.step)
          BY <4>1, <5>1, <5>2, ShadowsThrough
        <5> QED BY <5>3
      <4> QED BY <4>2, <4>3
    <3> QED BY <3>2, <3>3
  <2> QED BY <1>6, <2>2, <2>4 DEF Kept
<1> QED BY <1>8, <1>9

-----------------------------------------------------------------------------
(* A chain takes one byte, and a state stays one.                          *)
LEMMA RebuildOK ==
  ASSUME NEW b, WellFormed(b), NEW w \in Seq(Alphabet), NEW from \in Nat, NEW p \in from .. Len(w),
         NEW Q, Tracked(b, w, from, p, Q), ApartOrMatched(b, Q)
  PROVE  ChainOK(b, w, from, p, RebuildChain(b, Q))
<1>1. p \in Nat /\ p <= Len(w) /\ Len(w) \in Nat
  OBVIOUS
<1>2. \A c \in Q : TrackFacts(b, w, from, p, c)
  BY <1>1, TracksFacts
<1>3. \A c \in Q : c.step \in 1 .. p /\ c.step \in Nat /\ c.step >= 1
  BY <1>1, <1>2 DEF TrackFacts
<1>4a. PICK m \in Nat : \E f : Rebuilds(b, Q, m, f)
  BY <1>1, <1>3, RebuildExists
<1>4. PICK f : Rebuilds(b, Q, m, f)
  BY <1>4a
<1>5. /\ f \in [0 .. m -> SUBSET Q] /\ f[0] = {}
      /\ \A k \in 1 .. m : f[k] = RebuiltAt(b, Q, k, f[k - 1])
      /\ RebuildChain(b, Q) = f[m]
      /\ \A c \in Q : c.step \in 1 .. m
  BY <1>4 DEF Rebuilds
<1> DEFINE S == {k \in 0 .. m : Kept(b, w, p, Q, k, f[k])}
<1>6. 0 \in S
  <2>1. Kept(b, w, p, Q, 0, {})
    <3>1. \A d \in Q : ~(d.step <= 0)
      BY <1>3
    <3> QED BY <3>1 DEF Kept, Apart
  <2>2. Kept(b, w, p, Q, 0, f[0])
    BY <1>5, <2>1
  <2>3. 0 \in 0 .. m
    BY <1>4
  <2> QED BY <2>2, <2>3
<1>7. \A k \in 0 .. m - 1 : k \in S => k + 1 \in S
  <2> SUFFICES ASSUME NEW k \in 0 .. m - 1, Kept(b, w, p, Q, k, f[k]) PROVE Kept(b, w, p, Q, k + 1, f[k + 1])
    OBVIOUS
  <2>1. k \in Nat /\ k + 1 \in 1 .. m /\ (k + 1) - 1 = k
    OBVIOUS
  <2>2. f[k + 1] = RebuiltAt(b, Q, k + 1, f[k])
    BY <1>5, <2>1
  <2>3. CASE AtStep(Q, k + 1) = {}
    <3>1. f[k + 1] = f[k]
      BY <2>2, <2>3 DEF RebuiltAt
    <3>2. \A d \in Q : d.step <= k + 1 => d.step <= k
      <4> SUFFICES ASSUME NEW d \in Q, d.step <= k + 1 PROVE d.step <= k
        OBVIOUS
      <4>1. d.step # k + 1
        BY <2>3 DEF AtStep
      <4>2. d.step \in Nat
        BY <1>3
      <4> QED BY <2>1, <4>1, <4>2
    <3>3. \A d \in f[k] : d.step <= k + 1
      <4> SUFFICES ASSUME NEW d \in f[k] PROVE d.step <= k + 1
        OBVIOUS
      <4>1. d \in Q /\ d.step <= k
        BY DEF Kept
      <4>2. d.step \in Nat
        BY <1>3, <4>1
      <4> QED BY <2>1, <4>1, <4>2
    <3> QED BY <3>1, <3>2, <3>3 DEF Kept
  <2>4. CASE AtStep(Q, k + 1) # {}
    <3> DEFINE c == CHOOSE x \in AtStep(Q, k + 1) : TRUE
    <3>1. c \in AtStep(Q, k + 1)
      BY <2>4
    <3> HIDE DEF c
    <3>2. c \in Q /\ c.step = k + 1
      BY <3>1 DEF AtStep
    <3>3. AtStep(Q, k + 1) = {c}
      <4>1. \A x \in AtStep(Q, k + 1) : x = c
        BY <3>2 DEF AtStep, Tracked
      <4> QED BY <3>1, <4>1
    <3>4. f[k + 1] = {c} \cup PruneCountedChain(b, c, f[k])
      BY <2>2, <2>4, <3>3 DEF RebuiltAt, c
    <3>5. Kept(b, w, p, Q, k + 1, {c} \cup PruneCountedChain(b, c, f[k]))
      BY <2>1, <3>2, KeptOn
    <3> QED BY <3>4, <3>5
  <2> QED BY <2>3, <2>4
<1> DEFINE U == f[m]
<1>8. Kept(b, w, p, Q, m, U)
  <2>1. 0 .. m \subseteq S
    <3> HIDE DEF S
    <3> QED BY <1>6, <1>7, UpInterval
  <2>2. m \in 0 .. m
    OBVIOUS
  <2> QED BY <2>1, <2>2
<1> HIDE DEF U, S
<1>9. /\ U \subseteq Q /\ Apart(U)
      /\ \A d \in Q : d \notin U => \E c \in U : Shadows(b, w, p, c, p - d.step)
  <2>1. \A d \in Q : d.step <= m
    BY <1>5
  <2> QED BY <1>8, <2>1 DEF Kept
<1>10. \A i \in from .. p - 1 : Covered(b, w, p, U, i)
  <2> SUFFICES ASSUME NEW i \in from .. p - 1 PROVE Covered(b, w, p, U, i)
    OBVIOUS
  <2>1. Covered(b, w, p, Q, i)
    BY DEF Tracked
  <2>2. ASSUME NEW c \in Q, c.step = p - i PROVE Covered(b, w, p, U, i)
    <3>1. CASE c \in U
      BY <2>2, <3>1 DEF Covered
    <3>2. CASE c \notin U
      <4>1. p - c.step = i
        BY <1>1, <2>2
      <4> QED BY <1>9, <3>2, <4>1 DEF Covered
    <3> QED BY <3>1, <3>2
  <2>3. ASSUME NEW c \in Q, Shadows(b, w, p, c, i) PROVE Covered(b, w, p, U, i)
    <3>1. CASE c \in U
      BY <2>3, <3>1 DEF Covered
    <3>2. CASE c \notin U
      <4>1. PICK e \in U : Shadows(b, w, p, e, p - c.step)
        BY <1>9, <3>2
      <4>2. e \in Q
        BY <1>9
      <4>3. Shadows(b, w, p, e, i)
        BY <2>3, <4>1, <4>2, ShadowsThrough
      <4> QED BY <4>3 DEF Covered
    <3> QED BY <3>1, <3>2
  <2> QED BY <2>1, <2>2, <2>3 DEF Covered
<1>11. Tracked(b, w, from, p, U)
  BY <1>9, <1>10 DEF Tracked
<1> QED BY <1>5, <1>9, <1>11 DEF ChainOK, U

LEMMA ChainStep ==
  ASSUME NEW b, WellFormed(b), NEW w \in Seq(Alphabet), NEW from \in Nat, NEW p \in from .. Len(w) - 1,
         NEW K, ChainOK(b, w, from, p, K), NEW mt, Class(b, mt), w[p + 1] \in mt
  PROVE  ChainOK(b, w, from, p + 1, ChainAfter(b, K, mt))
<1> DEFINE Q == DeriveChain(b, K, mt) \cup Spawned(b, mt)
<1>1. Tracked(b, w, from, p + 1, Q) /\ ApartOrMatched(b, Q)
  BY DerivedTracked
<1>2. p + 1 \in from .. Len(w)
  OBVIOUS
<1> HIDE DEF Q
<1>3. ChainOK(b, w, from, p + 1, RebuildChain(b, Q))
  BY <1>1, <1>2, RebuildOK
<1> QED BY <1>3 DEF ChainAfter, Q

\* where nothing has been read, there is nothing to follow
LEMMA ChainStart ==
  ASSUME NEW b, NEW w, NEW from \in Nat
  PROVE  ChainOK(b, w, from, from, {})
BY DEF ChainOK, Tracked, Apart

LEMMA RebuildSubset ==
  ASSUME NEW b, NEW Q, NEW n \in Nat, \A c \in Q : c.step \in 1 .. n
  PROVE  RebuildChain(b, Q) \subseteq Q
<1>1a. PICK m \in Nat : \E f : Rebuilds(b, Q, m, f)
  BY RebuildExists
<1>1. PICK f : Rebuilds(b, Q, m, f)
  BY <1>1a
<1>2. m \in 0 .. m
  OBVIOUS
<1> QED BY <1>1, <1>2 DEF Rebuilds

LEMMA DeriveCand ==
  ASSUME NEW b, WellFormed(b), NEW mt, Class(b, mt), NEW c, c \in Cand(b)
  PROVE  /\ Derive(b, c, mt) \in Cand(b) /\ Derive(b, c, mt).step = c.step + 1
         /\ Moved(b, c, mt) \in Cand(b) /\ Moved(b, c, mt).step = c.step + 1
<1>1. c.body \in Bodies(b) /\ c.step \in Nat /\ c.best \in Nat /\ c = [body |-> c.body, step |-> c.step, best |-> c.best]
  BY DEF Cand
<1>2. TransitionTerm(b, c.body, mt) \in Bodies(b)
  <2>1. PICK x \in mt : x \in Alphabet
    BY DEF Class
  <2>2. TransitionTerm(b, c.body, mt) = b.der[c.body][x]
    BY <1>1, AlikeDerivatives
  <2> QED BY <1>1, <2>1, <2>2, RegexFacts
<1>3. \A t, s, x : s \in Nat /\ x \in Nat => MatchedUpTo(b, t, s, x) \in Nat
  BY DEF MatchedUpTo
<1>4. c.step + 1 \in Nat
  BY <1>1
<1>5. Derive(b, c, mt) = [body |-> TransitionTerm(b, c.body, mt), step |-> c.step + 1,
                          best |-> MatchedUpTo(b, TransitionTerm(b, c.body, mt), c.step + 1, MatchedUpTo(b, c.body, c.step, c.best))]
  BY DEF Derive, DeriveTo, Candidate
<1>6. MatchedUpTo(b, TransitionTerm(b, c.body, mt), c.step + 1, MatchedUpTo(b, c.body, c.step, c.best)) \in Nat
  BY <1>1, <1>3, <1>4
<1>7. Derive(b, c, mt) \in Cand(b) /\ Derive(b, c, mt).step = c.step + 1
  BY <1>2, <1>4, <1>5, <1>6 DEF Cand
<1>8. [c EXCEPT !.step = @ + 1] = [body |-> c.body, step |-> c.step + 1, best |-> c.best]
  BY <1>1
<1>9. [c EXCEPT !.step = @ + 1] \in Cand(b) /\ [c EXCEPT !.step = @ + 1].step = c.step + 1
  BY <1>1, <1>4, <1>8 DEF Cand
<1> QED BY <1>7, <1>9 DEF Moved

LEMMA StateAfter ==
  ASSUME NEW b, WellFormed(b), NEW mt, Class(b, mt), NEW K, StateOK(b, K)
  PROVE  StateOK(b, ChainAfter(b, K, mt))
<1> DEFINE Q == DeriveChain(b, K, mt) \cup Spawned(b, mt)
           c0 == Candidate(b.pattern, 0, 0)
<1>1. PICK n \in Nat : \A c \in K : c.step \in 1 .. n
  BY DEF StateOK
<1>2. c0 \in Cand(b) /\ c0.step = 0
  <2>1. b.pattern \in Bodies(b)
    BY RegexFacts
  <2> QED BY <2>1 DEF Cand, Candidate
<1> HIDE DEF c0
<1>3. \A m \in Q : m = Derive(b, c0, mt) \/ \E c \in K : m = Moved(b, c, mt)
  BY DEF DeriveChain, Spawned, c0
<1>4. \A m \in Q : m \in Cand(b) /\ m.step \in 1 .. n + 1
  <2> SUFFICES ASSUME NEW m \in Q PROVE m \in Cand(b) /\ m.step \in 1 .. n + 1
    OBVIOUS
  <2>1. CASE m = Derive(b, c0, mt)
    <3>1. m \in Cand(b) /\ m.step = 0 + 1
      BY <1>2, <2>1, DeriveCand
    <3> QED BY <3>1
  <2>2. CASE \E c \in K : m = Moved(b, c, mt)
    <3>1. PICK c \in K : m = Moved(b, c, mt)
      BY <2>2
    <3>2. c \in Cand(b) /\ c.step \in 1 .. n
      BY <1>1 DEF StateOK
    <3>3. m \in Cand(b) /\ m.step = c.step + 1
      BY <3>1, <3>2, DeriveCand
    <3> QED BY <3>2, <3>3
  <2> QED BY <1>3, <2>1, <2>2
<1> HIDE DEF Q
<1>5. n + 1 \in Nat
  OBVIOUS
<1>6. RebuildChain(b, Q) \subseteq Q
  BY <1>4, <1>5, RebuildSubset
<1>7. StateOK(b, RebuildChain(b, Q))
  BY <1>4, <1>5, <1>6 DEF StateOK
<1> QED BY <1>7 DEF ChainAfter, Q

-----------------------------------------------------------------------------
(* What the scan reports on its way and at the end.                        *)
MatchOf(p, c) == <<p - c.step, (p - c.step) + c.best>>

LEMMA FirstTracked ==
  ASSUME NEW b, NEW w, NEW from \in Nat, NEW p \in Nat, NEW K, Tracked(b, w, from, p, K), K # {}
  PROVE  First(K) \in K /\ \A d \in K : d.step <= First(K).step
<1>1. \A c \in K : c.step \in 1 .. p
  <2> SUFFICES ASSUME NEW c \in K PROVE c.step \in 1 .. p
    OBVIOUS
  <2>1. TrackFacts(b, w, from, p, c)
    BY TracksFacts
  <2> QED BY <2>1 DEF TrackFacts
<1> QED BY <1>1, FirstFacts

LEMMA FinishedReports ==
  ASSUME NEW b, WellFormed(b), NEW w \in Seq(Alphabet), NEW from \in Nat, NEW p \in from .. Len(w),
         NEW K, ChainOK(b, w, from, p, K), Finished(K)
  PROVE  /\ First(K) \in K /\ First(K).step \in Nat /\ First(K).best \in Nat
         /\ First(K).step > 0 /\ First(K).best > 0 /\ First(K).best <= First(K).step
         /\ NextMatch(b, w, from, MatchOf(p, First(K)))
<1> DEFINE c == First(K)
           s == p - c.step
<1>1. p \in Nat /\ p <= Len(w) /\ Len(w) \in Nat /\ K # {} /\ c.body = BotId /\ c.best > 0 /\ Tracked(b, w, from, p, K)
  BY DEF Finished, ChainOK
<1>2. c \in K /\ \A d \in K : d.step <= c.step
  BY <1>1, FirstTracked
<1>3. \A d \in K : TrackFacts(b, w, from, p, d)
  BY <1>1, TracksFacts
<1> HIDE DEF c
<1>4. /\ c.step \in Nat /\ c.best \in Nat /\ c.step >= 1 /\ c.best <= c.step /\ from <= s
      /\ s \in 0 .. p /\ s + c.step = p /\ Body(b, w, s, p) = BotId /\ BestUpTo(b, w, s, p, c.best)
  BY <1>1, <1>2, <1>3 DEF TrackFacts
<1> DEFINE e == s + c.best
<1> HIDE DEF s
<1>5. s \in Nat /\ s \in 0 .. Len(w) /\ p \in s .. Len(w) /\ e \in s + 1 .. Len(w) /\ e <= p
  BY <1>1, <1>4, SMTT(30)
<1>6. Meets(b, w, s, e) /\ \A j \in e + 1 .. p : ~Meets(b, w, s, j)
  BY <1>1, <1>4 DEF BestUpTo
<1>7. \A j \in p .. Len(w) : ~Meets(b, w, s, j)
  BY <1>4, <1>5, BotStays
<1>8. \A j \in e + 1 .. Len(w) : ~Meets(b, w, s, j)
  <2>1. \A j \in e + 1 .. Len(w) : j \in e + 1 .. p \/ j \in p .. Len(w)
    BY <1>1, <1>5
  <2> QED BY <1>6, <1>7, <2>1
<1>9. Longest(b, w, <<s, e>>)
  BY <1>5, <1>6, <1>8 DEF Longest
<1>10. \A i \in from .. s - 1 : Hopeless(b, w, i)
  <2> SUFFICES ASSUME NEW i \in from .. s - 1 PROVE Hopeless(b, w, i)
    OBVIOUS
  <2>1. i \in Nat /\ i < s /\ i \in from .. p - 1
    BY <1>1, <1>4, <1>5
  <2>2. Covered(b, w, p, K, i)
    BY <1>1, <2>1 DEF Tracked
  <2>3. \A d \in K : d.step # p - i
    <3> SUFFICES ASSUME NEW d \in K, d.step = p - i PROVE FALSE
      OBVIOUS
    <3>1. p - i <= c.step
      BY <1>2
    <3> QED BY <1>1, <1>4, <2>1, <3>1
  <2>4. \A d \in K : ~Shadows(b, w, p, d, i)
    <3> SUFFICES ASSUME NEW d \in K, Shadows(b, w, p, d, i) PROVE FALSE
      OBVIOUS
    <3>1. p - d.step < i
      BY DEF Shadows
    <3>2. d.step <= c.step /\ d.step \in Nat
      BY <1>2, <1>3 DEF TrackFacts
    <3> QED BY <1>1, <1>4, <2>1, <3>1, <3>2
  <2> QED BY <2>2, <2>3, <2>4 DEF Covered
<1>11. NextMatch(b, w, from, <<s, e>>)
  BY <1>4, <1>9, <1>10 DEF NextMatch
<1>12. c.step > 0
  BY <1>4
<1> QED BY <1>1, <1>2, <1>4, <1>11, <1>12 DEF MatchOf, c, s

\* the matches that are pending, ms the set of them: they do not overlap, and nothing else is left
PendingSet(b, w, from, ms) ==
  /\ \A m \in ms : m = <<m[1], m[2]>> /\ Longest(b, w, m) /\ from <= m[1]
  /\ \A m, n \in ms : (m[1] < n[1] => m[2] <= n[1]) /\ (m[1] = n[1] => m = n)
  /\ \A i \in from .. Len(w) : Hopeless(b, w, i) \/ \E m \in ms : m[1] <= i /\ i < m[2]
PendingOf(p, K) == {MatchOf(p, c) : c \in {c \in K : c.best > 0}}

LEMMA EndReports ==
  ASSUME NEW b, WellFormed(b), NEW w \in Seq(Alphabet), NEW from \in Nat, NEW p, p = Len(w), from <= p,
         NEW K, ChainOK(b, w, from, p, K)
  PROVE  PendingSet(b, w, from, PendingOf(p, K))
<1> DEFINE ms == PendingOf(p, K)
<1>1. p \in Nat /\ Tracked(b, w, from, p, K) /\ Apart(K)
  BY DEF ChainOK
<1>2. \A c \in K : TrackFacts(b, w, from, p, c)
  BY <1>1, TracksFacts
<1>3. \A c \in K : /\ c.step \in Nat /\ c.best \in Nat /\ c.step >= 1 /\ c.best <= c.step /\ from <= p - c.step
                   /\ p - c.step \in 0 .. p /\ (p - c.step) + c.step = p /\ BestUpTo(b, w, p - c.step, p, c.best)
  BY <1>2 DEF TrackFacts
<1>4. \A m : m \in ms <=> \E c \in K : c.best > 0 /\ m = MatchOf(p, c)
  BY DEF PendingOf
<1> HIDE DEF ms
<1>5. ASSUME NEW c \in K, c.best > 0 PROVE Longest(b, w, MatchOf(p, c)) /\ from <= MatchOf(p, c)[1]
  <2> DEFINE s == p - c.step
  <2>1. s \in 0 .. p /\ s + c.step = p /\ c.step \in Nat /\ c.best \in Nat /\ c.best <= c.step /\ from <= s
        /\ BestUpTo(b, w, s, p, c.best)
    BY <1>3, <1>5
  <2> HIDE DEF s
  <2>2. Meets(b, w, s, s + c.best) /\ \A j \in s + c.best + 1 .. p : ~Meets(b, w, s, j)
    BY <1>5, <2>1 DEF BestUpTo
  <2>3. s \in Nat /\ s + c.best \in s + 1 .. p
    BY <1>1, <1>5, <2>1
  <2>4. Longest(b, w, <<s, s + c.best>>)
    BY <2>2, <2>3 DEF Longest
  <2> QED BY <2>1, <2>4 DEF MatchOf, s
<1>6. ASSUME NEW m \in ms PROVE m = <<m[1], m[2]>> /\ Longest(b, w, m) /\ from <= m[1]
  <2>1. PICK c \in K : c.best > 0 /\ m = MatchOf(p, c)
    BY <1>4
  <2> QED BY <1>5, <2>1 DEF MatchOf
<1>7. ASSUME NEW m \in ms, NEW n \in ms PROVE (m[1] < n[1] => m[2] <= n[1]) /\ (m[1] = n[1] => m = n)
  <2>1. PICK c \in K : c.best > 0 /\ m = MatchOf(p, c)
    BY <1>4
  <2>2. PICK d \in K : d.best > 0 /\ n = MatchOf(p, d)
    BY <1>4
  <2>3. m[1] = p - c.step /\ m[2] = (p - c.step) + c.best /\ n[1] = p - d.step
    BY <2>1, <2>2 DEF MatchOf
  <2>4. c.step \in Nat /\ c.best \in Nat
    BY <1>3
  <2>5. d.step \in Nat
    BY <1>3
  <2>6. m[1] < n[1] => m[2] <= n[1]
    <3> SUFFICES ASSUME p - c.step < p - d.step PROVE (p - c.step) + c.best <= p - d.step
      BY <2>3
    <3>1. d.step < c.step
      BY <1>1, <2>4, <2>5
    <3>2. c.best <= c.step - d.step
      BY <1>1, <3>1 DEF Apart
    <3> QED BY <1>1, <2>4, <2>5, <3>2
  <2>7. m[1] = n[1] => m = n
    <3> SUFFICES ASSUME p - c.step = p - d.step PROVE m = n
      BY <2>3
    <3>1. c.step = d.step
      BY <1>1, <2>4, <2>5
    <3>2. c = d
      BY <1>1, <3>1 DEF Tracked
    <3> QED BY <2>1, <2>2, <3>2
  <2> QED BY <2>6, <2>7
<1>8. ASSUME NEW i \in from .. p PROVE Hopeless(b, w, i) \/ \E m \in ms : m[1] <= i /\ i < m[2]
  <2>0. i \in Nat
    OBVIOUS
  <2>1. CASE i = p
    <3>1. Hopeless(b, w, i)
      BY <1>1, <2>1 DEF Hopeless, NoneYet
    <3> QED BY <3>1
  <2>2. CASE i # p
    <3>1. i \in from .. p - 1
      BY <1>1, <2>2
    <3>2. Covered(b, w, p, K, i)
      BY <1>1, <3>1 DEF Tracked
    <3>3. ASSUME NEW c \in K, c.best > 0, p - c.step <= i, i < (p - c.step) + c.best
          PROVE  \E m \in ms : m[1] <= i /\ i < m[2]
      <4>1. MatchOf(p, c) \in ms
        BY <1>4, <3>3
      <4>2. MatchOf(p, c)[1] <= i /\ i < MatchOf(p, c)[2]
        BY <3>3 DEF MatchOf
      <4> QED BY <4>1, <4>2
    <3>4. ASSUME NEW c \in K, c.step = p - i PROVE Hopeless(b, w, i) \/ \E m \in ms : m[1] <= i /\ i < m[2]
      <4>1. c.best \in Nat /\ BestUpTo(b, w, p - c.step, p, c.best)
        BY <1>3
      <4>2. p - c.step = i
        BY <1>1, <2>0, <3>4
      <4>3. CASE c.best = 0
        <5>1. NoneYet(b, w, i, p)
          BY <4>1, <4>2, <4>3 DEF BestUpTo
        <5> QED BY <5>1 DEF Hopeless
      <4>4. CASE c.best # 0
        <5>1. c.best > 0 /\ p - c.step <= i /\ i < (p - c.step) + c.best
          BY <2>0, <4>1, <4>2, <4>4
        <5> QED BY <3>3, <5>1
      <4> QED BY <4>3, <4>4
    <3>5. ASSUME NEW c \in K, Shadows(b, w, p, c, i) PROVE Hopeless(b, w, i) \/ \E m \in ms : m[1] <= i /\ i < m[2]
      <4>1. p - c.step < i /\ (i < (p - c.step) + c.best \/ NoneYet(b, w, i, p))
        BY <3>5 DEF Shadows
      <4>2. CASE NoneYet(b, w, i, p)
        BY <4>2 DEF Hopeless
      <4>3. CASE i < (p - c.step) + c.best
        <5>1. c.step \in Nat /\ c.best \in Nat
          BY <1>3
        <5>2. c.best > 0 /\ p - c.step <= i
          BY <1>1, <2>0, <4>1, <4>3, <5>1
        <5> QED BY <3>3, <4>3, <5>2
      <4> QED BY <4>1, <4>2, <4>3
    <3> QED BY <3>2, <3>4, <3>5 DEF Covered
  <2> QED BY <2>1, <2>2
<1>9. PendingSet(b, w, from, ms)
  BY <1>6, <1>7, <1>8 DEF PendingSet
<1> QED BY <1>9 DEF ms

-----------------------------------------------------------------------------
(* The matches so far, one more, those that are pending, and the matches   *)
(* of the empty word between them.                                         *)
LEMMA MatchesEnd ==
  ASSUME NEW b, NEW w \in Seq(Alphabet), NEW ms, MatchesOK(b, w, ms)
  PROVE  LastEnd(ms) \in 0 .. Len(w)
<1>1. CASE ms = <<>>
  BY <1>1 DEF LastEnd
<1>2. CASE ms # <<>>
  <2>1. ms \in Seq(Nat \X Nat) /\ Len(ms) \in 1 .. Len(ms)
    BY <1>2 DEF MatchesOK
  <2>2. Longest(b, w, ms[Len(ms)])
    BY <2>1 DEF MatchesOK, NextMatch
  <2> QED BY <1>2, <2>2 DEF LastEnd, Longest
<1> QED BY <1>1, <1>2

LEMMA MatchesOn ==
  ASSUME NEW b, NEW w, NEW ms, MatchesOK(b, w, ms), NEW m \in Nat \X Nat, NextMatch(b, w, LastEnd(ms), m)
  PROVE  MatchesOK(b, w, Append(ms, m)) /\ LastEnd(Append(ms, m)) = m[2]
<1> DEFINE n == Len(ms)
           ns == Append(ms, m)
<1>1. ms \in Seq(Nat \X Nat) /\ n \in Nat
  BY DEF MatchesOK
<1>2. ns \in Seq(Nat \X Nat) /\ Len(ns) = n + 1 /\ ns[n + 1] = m /\ \A k \in 1 .. n : ns[k] = ms[k]
  BY <1>1
<1> HIDE DEF ns
<1>3. LastEnd(ns) = m[2]
  BY <1>1, <1>2 DEF LastEnd
<1>4. \A k \in 1 .. n + 1 : NextMatch(b, w, EndBefore(ns, k), ns[k])
  <2> SUFFICES ASSUME NEW k \in 1 .. n + 1 PROVE NextMatch(b, w, EndBefore(ns, k), ns[k])
    OBVIOUS
  <2>1. CASE k = n + 1
    <3>1. EndBefore(ns, k) = LastEnd(ms)
      <4>1. CASE n = 0
        BY <1>1, <2>1, <4>1 DEF EndBefore, LastEnd
      <4>2. CASE n # 0
        <5>1. ms # <<>> /\ k # 1 /\ k - 1 = n /\ n \in 1 .. n
          BY <1>1, <2>1, <4>2
        <5>2. ns[k - 1] = ms[n]
          BY <1>2, <5>1
        <5> QED BY <5>1, <5>2 DEF EndBefore, LastEnd
      <4> QED BY <4>1, <4>2
    <3> QED BY <1>2, <2>1, <3>1
  <2>2. CASE k # n + 1
    <3>0. k \in 1 .. n
      <4>1. n \in Nat /\ k \in 1 .. n + 1 /\ k # n + 1
        BY <1>1, <2>2
      <4> QED BY ONLY <4>1
    <3>1. k \in 1 .. n /\ ns[k] = ms[k]
      BY <1>2, <3>0
    <3>2. EndBefore(ns, k) = EndBefore(ms, k)
      <4>1. k # 1 => k - 1 \in 1 .. n
        BY <1>1, <3>1
      <4> QED BY <1>2, <4>1 DEF EndBefore
    <3> QED BY <3>1, <3>2 DEF MatchesOK
  <2> QED BY <2>1, <2>2
<1>5. MatchesOK(b, w, ns)
  BY <1>2, <1>4 DEF MatchesOK
<1> QED BY <1>3, <1>5 DEF ns

LEMMA FirstPendingFacts ==
  ASSUME NEW b, NEW w, NEW from, NEW ms, PendingSet(b, w, from, ms), ms # {},
         NEW x, x = CHOOSE m \in ms : \A n \in ms : m[1] < n[1] \/ (m[1] = n[1] /\ m[2] >= n[2])
  PROVE  x \in ms /\ \A n \in ms : x[1] <= n[1]
<1> DEFINE T == {m[1] : m \in ms}
<1>1. \A m \in ms : m[1] \in Nat /\ m[2] \in Int
  BY DEF PendingSet, Longest
<1>2. T \in SUBSET Nat /\ T # {}
  BY <1>1
<1>3. PICK i \in T : \A k \in T : i <= k
  <2> HIDE DEF T
  <2> QED BY <1>2, LeastNat
<1>4. PICK y \in ms : i = y[1]
  BY <1>3
<1>5. \A n \in ms : y[1] <= n[1]
  BY <1>3, <1>4
<1>6. \A n \in ms : y[1] < n[1] \/ (y[1] = n[1] /\ y[2] >= n[2])
  <2> SUFFICES ASSUME NEW n \in ms, ~(y[1] < n[1]) PROVE y[1] = n[1] /\ y[2] >= n[2]
    OBVIOUS
  <2>1. y[1] = n[1]
    BY <1>1, <1>4, <1>5
  <2>2. y = n
    BY <1>4, <2>1 DEF PendingSet
  <2> QED BY <1>1, <2>1, <2>2
<1>7. x \in ms /\ \A n \in ms : x[1] < n[1] \/ (x[1] = n[1] /\ x[2] >= n[2])
  BY <1>4, <1>6
<1> QED BY <1>1, <1>7

LEMMA PendingOn ==
  ASSUME NEW b, NEW w \in Seq(Alphabet), NEW from \in Nat, NEW ms, PendingSet(b, w, from, ms),
         NEW m \in ms, \A n \in ms : m[1] <= n[1]
  PROVE  /\ m \in Nat \X Nat /\ NextMatch(b, w, from, m) /\ from <= m[1]
         /\ PendingSet(b, w, m[2], ms \ {m})
<1>1. m = <<m[1], m[2]>> /\ Longest(b, w, m) /\ from <= m[1] /\ m[1] \in Nat /\ m[2] \in m[1] + 1 .. Len(w)
  BY DEF PendingSet, Longest
<1>2. m \in Nat \X Nat /\ Len(w) \in Nat /\ m[2] \in Nat
  BY <1>1
<1>3. \A n \in ms : n = <<n[1], n[2]>> /\ Longest(b, w, n) /\ n[1] \in Nat
  BY DEF PendingSet, Longest
<1>4. \A i \in from .. m[1] - 1 : Hopeless(b, w, i)
  <2> SUFFICES ASSUME NEW i \in from .. m[1] - 1 PROVE Hopeless(b, w, i)
    OBVIOUS
  <2>1. i \in from .. Len(w) /\ i < m[1] /\ i \in Nat
    BY <1>1, <1>2
  <2>2. \A n \in ms : ~(n[1] <= i)
    <3> SUFFICES ASSUME NEW n \in ms, n[1] <= i PROVE FALSE
      OBVIOUS
    <3>1. m[1] <= n[1] /\ n[1] \in Nat
      BY <1>3
    <3> QED BY <1>1, <2>1, <3>1
  <2> QED BY <2>1, <2>2 DEF PendingSet
<1>5. NextMatch(b, w, from, m)
  BY <1>1, <1>4 DEF NextMatch
<1>6. \A n \in ms \ {m} : m[2] <= n[1]
  <2> SUFFICES ASSUME NEW n \in ms, n # m PROVE m[2] <= n[1]
    OBVIOUS
  <2>1. m[1] # n[1]
    BY DEF PendingSet
  <2>2. m[1] < n[1]
    BY <1>1, <1>3, <2>1
  <2> QED BY <2>2 DEF PendingSet
<1>7. \A i \in m[2] .. Len(w) : Hopeless(b, w, i) \/ \E n \in ms \ {m} : n[1] <= i /\ i < n[2]
  <2> SUFFICES ASSUME NEW i \in m[2] .. Len(w), ~Hopeless(b, w, i) PROVE \E n \in ms \ {m} : n[1] <= i /\ i < n[2]
    OBVIOUS
  <2>1. i \in from .. Len(w) /\ ~(i < m[2])
    BY <1>1, <1>2
  <2>2. PICK n \in ms : n[1] <= i /\ i < n[2]
    BY <2>1 DEF PendingSet
  <2>3. n # m
    BY <2>1, <2>2
  <2> QED BY <2>2, <2>3
<1>8. PendingSet(b, w, m[2], ms \ {m})
  BY <1>3, <1>6, <1>7 DEF PendingSet
<1> QED BY <1>1, <1>2, <1>5, <1>8

LEMMA EndsFacts ==
  ASSUME NEW b, WellFormed(b), NEW w \in Seq(Alphabet), NEW i \in 0 .. Len(w)
  PROVE  /\ \A j : j \in EndsFrom(b, w, i) <=> j \in i .. Len(w) /\ Meets(b, w, i, j)
         /\ Meets(b, w, i, i) <=> b.null[b.pattern] # Never
<1>1. Body(b, w, i, i) = b.pattern
  BY BodiesCorrect DEF BodiesOK
<1> QED BY <1>1 DEF EndsFrom, Meets, Body

LEMMA MatchesLeftmostLongest ==
  ASSUME NEW b, WellFormed(b), NEW w \in Seq(Alphabet), NEW ms, MatchesOK(b, w, ms), NoMore(b, w, LastEnd(ms)),
         b.null[b.pattern] = Never
  PROVE  LeftmostLongest([i \in 0 .. Len(w) |-> EndsFrom(b, w, i)], ms)
<1> DEFINE ends == [i \in 0 .. Len(w) |-> EndsFrom(b, w, i)]
           starts == {i \in DOMAIN ends : ends[i] # {}}
<1>1. \A i \in starts : i \in 0 .. Len(w) /\ ~Hopeless(b, w, i)
  <2> SUFFICES ASSUME NEW i \in 0 .. Len(w), EndsFrom(b, w, i) # {} PROVE ~Hopeless(b, w, i)
    OBVIOUS
  <2>1. PICK j \in i .. Len(w) : Meets(b, w, i, j)
    BY EndsFacts
  <2>2. j # i
    BY <2>1, EndsFacts
  <2>3. j \in i + 1 .. Len(w)
    BY <2>2
  <2> QED BY <2>1, <2>3 DEF Hopeless, NoneYet
<1>2. ms \in Seq(Nat \X Nat) /\ Len(ms) \in Nat /\ Len(w) \in Nat
  BY DEF MatchesOK
<1>3. ASSUME NEW k \in 1 .. Len(ms)
      PROVE  /\ NextMatch(b, w, EndBefore(ms, k), ms[k]) /\ After(ms, k) = ms[k][2]
             /\ ms[k][1] \in Nat /\ ms[k][2] \in ms[k][1] + 1 .. Len(w)
  <2>1. NextMatch(b, w, EndBefore(ms, k), ms[k])
    BY DEF MatchesOK
  <2>2. ms[k][1] \in Nat /\ ms[k][2] \in ms[k][1] + 1 .. Len(w)
    BY <2>1 DEF NextMatch, Longest
  <2>3. After(ms, k) = ms[k][2]
    BY <2>2 DEF After, Greater
  <2> QED BY <2>1, <2>2, <2>3
<1>4. \A k \in 1 .. Len(ms) : EndBefore(ms, k) = After(ms, k - 1)
  <2> SUFFICES ASSUME NEW k \in 1 .. Len(ms) PROVE EndBefore(ms, k) = After(ms, k - 1)
    OBVIOUS
  <2>1. CASE k = 1
    BY <2>1 DEF EndBefore, After
  <2>2. CASE k # 1
    <3>1. k - 1 \in 1 .. Len(ms)
      <4>1. Len(ms) \in Nat /\ k \in 1 .. Len(ms) /\ k # 1
        BY <1>2, <2>2
      <4> QED BY ONLY <4>1
    <3> QED BY <1>3, <2>2, <3>1 DEF EndBefore
  <2> QED BY <2>1, <2>2
<1>5. After(ms, Len(ms)) = LastEnd(ms) /\ After(ms, Len(ms)) \in Nat
  <2>1. CASE ms = <<>>
    BY <2>1 DEF After, LastEnd
  <2>2. CASE ms # <<>>
    <3>1. Len(ms) \in 1 .. Len(ms)
      BY <1>2, <2>2
    <3> QED BY <1>2, <1>3, <2>2, <3>1 DEF LastEnd
  <2> QED BY <2>1, <2>2
<1>6. ASSUME NEW k \in 1 .. Len(ms)
      PROVE  /\ ms[k][1] \in starts /\ ms[k][1] >= After(ms, k - 1)
             /\ \A i \in starts : i >= After(ms, k - 1) => ms[k][1] <= i
             /\ ms[k][2] \in ends[ms[k][1]] /\ \A j \in ends[ms[k][1]] : j <= ms[k][2]
  <2> DEFINE s == ms[k][1]
             e == ms[k][2]
             a == After(ms, k - 1)
  <2>1. /\ s \in Nat /\ e \in s + 1 .. Len(w) /\ Meets(b, w, s, e) /\ a <= s
        /\ \A j \in e + 1 .. Len(w) : ~Meets(b, w, s, j)
        /\ \A i \in a .. s - 1 : Hopeless(b, w, i)
    BY <1>3, <1>4 DEF NextMatch, Longest
  <2>2. a \in Nat
    <3>1. CASE k = 1
      BY <3>1 DEF After
    <3>2. CASE k # 1
      <4>1. k - 1 \in 1 .. Len(ms)
        BY <1>2, <3>2
      <4>2. a = ms[k - 1][2] /\ ms[k - 1][1] \in Nat /\ ms[k - 1][2] \in ms[k - 1][1] + 1 .. Len(w)
        BY <1>3, <4>1
      <4> HIDE DEF a
      <4> QED BY <1>2, <4>2, SMTT(30)
    <3> QED BY <3>1, <3>2
  <2> HIDE DEF s, e, a
  <2>3. s \in 0 .. Len(w) /\ e \in s .. Len(w)
    BY <1>2, <2>1
  <2>4. ends[s] = EndsFrom(b, w, s)
    BY <2>3
  <2>5. e \in ends[s] /\ \A j \in ends[s] : j <= e
    <3>1. e \in ends[s]
      BY <2>1, <2>3, <2>4, EndsFacts
    <3>2. ASSUME NEW j \in ends[s] PROVE j <= e
      <4>1. j \in s .. Len(w) /\ Meets(b, w, s, j)
        BY <2>3, <2>4, EndsFacts
      <4>2. ~(j \in e + 1 .. Len(w))
        BY <2>1, <4>1
      <4> QED BY <1>2, <2>1, <4>1, <4>2
    <3> QED BY <3>1, <3>2
  <2>6. s \in starts
    BY <2>3, <2>5
  <2>7. \A i \in starts : i >= a => s <= i
    <3> SUFFICES ASSUME NEW i \in starts, i >= a, ~(s <= i) PROVE FALSE
      OBVIOUS
    <3>1. i \in 0 .. Len(w) /\ ~Hopeless(b, w, i)
      BY <1>1
    <3>2. i \in a .. s - 1
      BY <2>1, <2>2, <3>1
    <3> QED BY <2>1, <3>1, <3>2
  <2>8. s >= a
    BY <2>1, <2>2
  <2> QED BY <2>5, <2>6, <2>7, <2>8 DEF s, e, a
<1>7. \A i \in starts : i < After(ms, Len(ms))
  <2> SUFFICES ASSUME NEW i \in starts PROVE i < After(ms, Len(ms))
    OBVIOUS
  <2>1. i \in 0 .. Len(w) /\ ~Hopeless(b, w, i)
    BY <1>1
  <2>2. ~(i \in LastEnd(ms) .. Len(w))
    BY <2>1 DEF NoMore
  <2> QED BY <1>2, <1>5, <2>1, <2>2
<1> QED BY <1>6, <1>7 DEF LeftmostLongest

-----------------------------------------------------------------------------
(* The matches of the empty word are filled in.                            *)
BestEnd(b, w, i, e) ==
  /\ i \in 0 .. Len(w) /\ e \in i .. Len(w) /\ Meets(b, w, i, e)
  /\ \A j \in e + 1 .. Len(w) : ~Meets(b, w, i, j)
FillsOK(b, w, fs) ==
  /\ fs \in Seq(Nat \X Nat)
  /\ \A k \in 1 .. Len(fs) : fs[k][1] = After(fs, k - 1) /\ BestEnd(b, w, fs[k][1], fs[k][2])
Fills(b, w, fs, at) == FillsOK(b, w, fs) /\ After(fs, Len(fs)) = at

LEMMA FillsOne ==
  ASSUME NEW b, NEW w \in Seq(Alphabet), NEW fs, NEW at \in Nat, Fills(b, w, fs, at),
         NEW m, m = <<m[1], m[2]>>, m[1] = at, BestEnd(b, w, m[1], m[2])
  PROVE  Fills(b, w, Append(fs, m), Greater(m[1] + 1, m[2]))
<1> DEFINE n == Len(fs)
           gs == Append(fs, m)
<1>1. fs \in Seq(Nat \X Nat) /\ n \in Nat /\ After(fs, n) = at
  BY DEF Fills, FillsOK
<1>2. m \in Nat \X Nat
  <2>1. m[1] \in Nat /\ m[2] \in Nat
    BY DEF BestEnd
  <2> QED BY <2>1
<1>3. gs \in Seq(Nat \X Nat) /\ Len(gs) = n + 1 /\ gs[n + 1] = m /\ \A k \in 1 .. n : gs[k] = fs[k]
  BY <1>1, <1>2
<1> HIDE DEF gs
<1>4. \A k \in 0 .. n : After(gs, k) = After(fs, k)
  <2> SUFFICES ASSUME NEW k \in 0 .. n PROVE After(gs, k) = After(fs, k)
    OBVIOUS
  <2>1. k # 0 => k \in 1 .. n
    BY <1>1
  <2> QED BY <1>3, <2>1 DEF After
<1>5. After(gs, n + 1) = Greater(m[1] + 1, m[2])
  <2>1. n + 1 # 0
    BY <1>1
  <2> QED BY <1>3, <2>1 DEF After
<1>6. ASSUME NEW k \in 1 .. n + 1 PROVE gs[k][1] = After(gs, k - 1) /\ BestEnd(b, w, gs[k][1], gs[k][2])
  <2>1. CASE k = n + 1
    <3>1. k - 1 = n /\ n \in 0 .. n
      BY <1>1, <2>1
    <3>2. After(gs, k - 1) = at
      BY <1>1, <1>4, <3>1
    <3> QED BY <1>3, <2>1, <3>2
  <2>2. CASE k # n + 1
    <3>0. k \in 1 .. n /\ k - 1 \in 0 .. n
      <4>1. n \in Nat /\ k \in 1 .. n + 1 /\ k # n + 1
        BY <1>1, <2>2
      <4> QED BY ONLY <4>1
    <3>1. gs[k] = fs[k] /\ After(gs, k - 1) = After(fs, k - 1)
      BY <1>3, <1>4, <3>0
    <3> QED BY <3>0, <3>1 DEF Fills, FillsOK
  <2> QED BY <2>1, <2>2
<1>7. FillsOK(b, w, gs) /\ After(gs, Len(gs)) = Greater(m[1] + 1, m[2])
  BY <1>3, <1>5, <1>6 DEF FillsOK
<1> QED BY <1>7 DEF Fills, gs

LEMMA ConcatOne ==
  ASSUME NEW S, NEW s \in Seq(S), NEW t \in Seq(S), NEW m \in S
  PROVE  s \o Append(t, m) = Append(s \o t, m)
<1>1. <<m>> \in Seq(S) /\ s \o t \in Seq(S)
  OBVIOUS
<1>2. Append(t, m) = t \o <<m>> /\ Append(s \o t, m) = (s \o t) \o <<m>>
  BY <1>1, AppendIsConcat
<1>3. (s \o t) \o <<m>> = s \o (t \o <<m>>)
  BY <1>1, ConcatAssociative
<1> QED BY <1>2, <1>3

LEMMA FillsEmpty ==
  ASSUME NEW b, WellFormed(b), b.null[b.pattern] # Never, NEW w \in Seq(Alphabet), NEW fs, NEW at \in Nat,
         Fills(b, w, fs, at), NEW to \in Nat, at <= to, to <= Len(w) + 1, \A i \in at .. to - 1 : Hopeless(b, w, i)
  PROVE  Fills(b, w, fs \o EmptyAt(at, to), to)
<1> DEFINE n == to - at
           E(k) == [i \in 1 .. k |-> <<at + i - 1, at + i - 1>>]
           S == {k \in 0 .. n : Fills(b, w, fs \o E(k), at + k)}
<1>1. n \in Nat /\ at + n = to /\ Len(w) \in Nat /\ fs \in Seq(Nat \X Nat)
  BY DEF Fills, FillsOK
<1>2. \A k \in Nat : E(k) \in Seq(Nat \X Nat) /\ Len(E(k)) = k
  <2> SUFFICES ASSUME NEW k \in Nat PROVE E(k) \in Seq(Nat \X Nat) /\ Len(E(k)) = k
    OBVIOUS
  <2>1. \A i \in 1 .. k : <<at + i - 1, at + i - 1>> \in Nat \X Nat
    OBVIOUS
  <2> QED BY <2>1
<1>3. 0 \in S
  <2>1. E(0) = <<>>
    BY <1>2
  <2>2. fs \o E(0) = fs
    BY <1>1, <2>1
  <2> QED BY <1>1, <2>2
<1>4. \A k \in 0 .. n - 1 : k \in S => k + 1 \in S
  <2> SUFFICES ASSUME NEW k \in 0 .. n - 1, Fills(b, w, fs \o E(k), at + k)
               PROVE  Fills(b, w, fs \o E(k + 1), at + (k + 1))
    BY <1>1
  <2> DEFINE m == <<at + k, at + k>>
  <2>1. k \in Nat /\ k + 1 \in Nat /\ at + k \in Nat /\ at + k \in at .. to - 1 /\ at + k \in 0 .. Len(w)
    BY <1>1
  <2>2. Meets(b, w, at + k, at + k)
    BY <2>1, EndsFacts
  <2>3. \A j \in (at + k) + 1 .. Len(w) : ~Meets(b, w, at + k, j)
    BY <2>1 DEF Hopeless, NoneYet
  <2>4. BestEnd(b, w, at + k, at + k)
    BY <2>1, <2>2, <2>3 DEF BestEnd
  <2>5. m = <<m[1], m[2]>> /\ m[1] = at + k /\ m[2] = at + k
    OBVIOUS
  <2>6. Greater(m[1] + 1, m[2]) = at + (k + 1)
    BY <2>1, <2>5 DEF Greater
  <2>7. Append(fs \o E(k), m) = fs \o E(k + 1)
    <3>1. E(k) \in Seq(Nat \X Nat) /\ Len(E(k)) = k /\ E(k + 1) \in Seq(Nat \X Nat) /\ Len(E(k + 1)) = k + 1
      BY <1>2, <2>1
    <3>2. \A i \in 1 .. k : E(k + 1)[i] = E(k)[i]
      BY <2>1, SMTT(30)
    <3>3. E(k + 1)[k + 1] = m
      BY <2>1
    <3>4. m \in Nat \X Nat
      BY <2>1
    <3> HIDE DEF E, m
    <3>5. E(k + 1) = Append(E(k), m)
      <4>1. Append(E(k), m) \in Seq(Nat \X Nat) /\ Len(Append(E(k), m)) = k + 1
        <5> DEFINE NN == Nat \X Nat
                   q == E(k)
        <5>1. q \in Seq(NN) /\ Len(q) = k /\ m \in NN
          BY <3>1, <3>4
        <5> HIDE DEF NN, q
        <5>2. Append(q, m) \in Seq(NN) /\ Len(Append(q, m)) = Len(q) + 1
          BY ONLY <5>1, AppendProperties
        <5> QED BY <5>1, <5>2 DEF NN, q
      <4>2. \A i \in 1 .. k + 1 : E(k + 1)[i] = Append(E(k), m)[i]
        <5> SUFFICES ASSUME NEW i \in 1 .. k + 1 PROVE E(k + 1)[i] = Append(E(k), m)[i]
          OBVIOUS
        <5>1. CASE i = k + 1
          <6>1. Append(E(k), m)[Len(E(k)) + 1] = m
            BY ONLY <3>1, <3>4, AppendProperties, ZenonT(40)
          <6> QED
            BY <3>1, <3>3, <5>1, <6>1
        <5>2. CASE i # k + 1
          <6>1. i \in 1 .. k
            BY <2>1, <5>2
          <6>2. Append(E(k), m)[i] = E(k)[i]
            BY <3>1, <6>1
          <6> QED BY <3>2, <6>1, <6>2
        <5> QED BY <5>1, <5>2
      <4> QED BY <3>1, <4>1, <4>2, SeqEqual
    <3>6. fs \o Append(E(k), m) = Append(fs \o E(k), m)
      <4> DEFINE NN == Nat \X Nat
                 q == E(k)
      <4>1. fs \in Seq(NN) /\ q \in Seq(NN) /\ m \in NN
        BY <1>1, <3>1, <3>4
      <4> HIDE DEF NN, q
      <4>2. fs \o Append(q, m) = Append(fs \o q, m)
        BY ONLY <4>1, ConcatOne
      <4> QED BY <4>2 DEF q
    <3> QED BY <3>5, <3>6
  <2>8. Fills(b, w, Append(fs \o E(k), m), Greater(m[1] + 1, m[2]))
    <3> HIDE DEF m, E
    <3> QED BY <2>1, <2>4, <2>5, FillsOne
  <2> QED BY <2>6, <2>7, <2>8
<1>5. n \in S
  <2>1. 0 .. n \subseteq S
    <3> HIDE DEF S, n
    <3> QED BY <1>1, <1>3, <1>4, UpInterval
  <2>2. n \in 0 .. n
    BY <1>1
  <2> QED BY <2>1, <2>2
<1>6. EmptyAt(at, to) = E(n)
  <2>1. Greater(to - at, 0) = n
    BY <1>1 DEF Greater
  <2> QED BY <2>1 DEF EmptyAt
<1>7. Fills(b, w, fs \o E(n), at + n)
  BY <1>5
<1> HIDE DEF E, n
<1> QED BY <1>1, <1>6, <1>7

LEMMA FillsLeftmostLongest ==
  ASSUME NEW b, WellFormed(b), NEW w \in Seq(Alphabet), NEW fs, Fills(b, w, fs, Len(w) + 1)
  PROVE  LeftmostLongest([i \in 0 .. Len(w) |-> EndsFrom(b, w, i)], fs)
<1> DEFINE ends == [i \in 0 .. Len(w) |-> EndsFrom(b, w, i)]
           starts == {i \in DOMAIN ends : ends[i] # {}}
<1>1. fs \in Seq(Nat \X Nat) /\ Len(fs) \in Nat /\ Len(w) \in Nat /\ After(fs, Len(fs)) = Len(w) + 1
  BY DEF Fills, FillsOK
<1>2. \A i \in starts : i \in 0 .. Len(w)
  OBVIOUS
<1>3. ASSUME NEW k \in 1 .. Len(fs)
      PROVE  /\ fs[k][1] \in starts /\ fs[k][1] >= After(fs, k - 1)
             /\ \A i \in starts : i >= After(fs, k - 1) => fs[k][1] <= i
             /\ fs[k][2] \in ends[fs[k][1]] /\ \A j \in ends[fs[k][1]] : j <= fs[k][2]
  <2> DEFINE s == fs[k][1]
             e == fs[k][2]
             a == After(fs, k - 1)
  <2>1. s = a /\ BestEnd(b, w, s, e)
    BY DEF Fills, FillsOK
  <2> HIDE DEF s, e, a
  <2>2. /\ s \in 0 .. Len(w) /\ e \in s .. Len(w) /\ Meets(b, w, s, e)
        /\ \A j \in e + 1 .. Len(w) : ~Meets(b, w, s, j)
    BY <2>1 DEF BestEnd
  <2>3. ends[s] = EndsFrom(b, w, s)
    BY <2>2
  <2>4. e \in ends[s]
    BY <2>2, <2>3, EndsFacts
  <2>5. ASSUME NEW j \in ends[s] PROVE j <= e
    <3>1. j \in s .. Len(w) /\ Meets(b, w, s, j)
      BY <2>2, <2>3, <2>5, EndsFacts
    <3>2. ~(j \in e + 1 .. Len(w))
      BY <2>2, <3>1
    <3> QED BY <1>1, <2>2, <3>1, <3>2
  <2>6. s \in starts
    BY <2>2, <2>4
  <2>7. s >= a /\ \A i \in starts : i >= a => s <= i
    BY <1>2, <2>1, <2>2
  <2> QED BY <2>4, <2>5, <2>6, <2>7 DEF s, e, a
<1>4. \A i \in starts : i < After(fs, Len(fs))
  BY <1>1, <1>2
<1> QED BY <1>3, <1>4 DEF LeftmostLongest

-----------------------------------------------------------------------------
(* The table and the states grow.                                          *)
Extends(d, e) ==
  /\ e.minterms = d.minterms /\ e.lookup = d.lookup
  /\ e.prefix = d.prefix /\ e.sets = d.sets /\ e.after = d.after
  /\ Len(d.states) \in Nat /\ Len(e.states) \in Nat /\ Len(d.states) <= Len(e.states)
  /\ \A s \in 1 .. Len(d.states) : e.states[s] = d.states[s]
Gives(d, s, K) == s \in 1 .. Len(d.states) /\ d.states[s] = K

LEMMA StateForFacts ==
  ASSUME NEW d, NEW K, Registered(d, K)
  PROVE  Gives(d, StateFor(d, K), K)
BY DEF Registered, StateFor, Gives

LEMMA ExtendsSelf ==
  ASSUME NEW b, NEW d, DfaOK(b, d)
  PROVE  Extends(d, d)
BY DEF Extends, DfaOK, StatesOK

LEMMA RegisterOK ==
  ASSUME NEW b, WellFormed(b), NEW d, DfaOK(b, d), NEW K, StateOK(b, K), NEW e, e = Register(d, K)
  PROVE  /\ DfaOK(b, e) /\ Extends(d, e) /\ Gives(e, StateFor(e, K), K)
<1>1. /\ d.states \in Seq(SUBSET Cand(b)) /\ Len(d.states) \in Nat /\ Len(d.states) >= 1 /\ d.states[1] = {}
      /\ \A s, t \in 1 .. Len(d.states) : d.states[s] = d.states[t] => s = t
      /\ \A s \in 1 .. Len(d.states) : StateOK(b, d.states[s])
  BY DEF DfaOK, StatesOK
<1>2. CASE Registered(d, K)
  <2>1. e = d
    BY <1>2 DEF Register
  <2> QED BY <1>2, <2>1, StateForFacts, ExtendsSelf
<1>3. CASE ~Registered(d, K)
  <2> DEFINE n == Len(d.states)
  <2>1. e = [d EXCEPT !.states = Append(d.states, K)]
    BY <1>3 DEF Register
  <2>2. d = [minterms |-> d.minterms, lookup |-> d.lookup, states |-> d.states, table |-> d.table,
             prefix |-> d.prefix, sets |-> d.sets, after |-> d.after]
    BY DEF DfaOK, DfaShape
  <2>3. e = [minterms |-> d.minterms, lookup |-> d.lookup, states |-> Append(d.states, K), table |-> d.table,
             prefix |-> d.prefix, sets |-> d.sets, after |-> d.after]
    BY <2>1, <2>2
  <2>4. /\ e.minterms = d.minterms /\ e.lookup = d.lookup /\ e.table = d.table /\ e.states = Append(d.states, K)
        /\ e.prefix = d.prefix /\ e.sets = d.sets /\ e.after = d.after
    BY <2>3
  <2>5. K \in SUBSET Cand(b)
    BY DEF StateOK
  <2>6. /\ e.states \in Seq(SUBSET Cand(b)) /\ Len(e.states) = n + 1 /\ e.states[n + 1] = K
        /\ \A s \in 1 .. n : e.states[s] = d.states[s]
    BY <1>1, <2>4, <2>5
  <2>7. \A s \in 1 .. n : d.states[s] # K
    BY <1>3 DEF Registered
  <2>8. \A s \in 1 .. n + 1 : s = n + 1 \/ s \in 1 .. n
    BY <1>1
  <2>9. \A s, t \in 1 .. n + 1 : e.states[s] = e.states[t] => s = t
    BY <1>1, <2>6, <2>7, <2>8, ZenonT(40)
  <2>10. \A s \in 1 .. n + 1 : StateOK(b, e.states[s])
    BY <1>1, <2>6, <2>8
  <2>11. 1 \in 1 .. n /\ n + 1 >= 1 /\ n + 1 \in 1 .. n + 1 /\ n <= n + 1 /\ n + 1 \in Nat
    BY <1>1
  <2>12. StatesOK(b, e)
    BY <1>1, <2>6, <2>9, <2>10, <2>11 DEF StatesOK
  <2>13. DfaShape(e)
    <3>1. d.table \in [DOMAIN d.table -> Nat]
      BY DEF DfaOK, DfaShape
    <3> QED BY <2>3, <2>4, <3>1 DEF DfaShape
  <2>14. ClassesOK(b, e)
    BY <2>4 DEF DfaOK, ClassesOK
  <2>15. TableOK(b, e)
    <3>1. /\ DOMAIN d.table \subseteq (1 .. n) \X (0 .. Len(d.minterms) - 1)
          /\ \A x \in DOMAIN d.table : d.table[x] \in 1 .. n /\ d.states[d.table[x]] = NextChain(b, d, x[1], x[2])
      BY DEF DfaOK, TableOK, Entries
    <3>2. 1 .. n \subseteq 1 .. n + 1
      BY <1>1
    <3>3. \A x \in DOMAIN e.table : e.table[x] \in 1 .. n + 1 /\ e.states[e.table[x]] = NextChain(b, e, x[1], x[2])
      <4> SUFFICES ASSUME NEW x \in DOMAIN d.table
                   PROVE  d.table[x] \in 1 .. n + 1 /\ e.states[d.table[x]] = NextChain(b, e, x[1], x[2])
        BY <2>4
      <4>1. d.table[x] \in 1 .. n /\ x[1] \in 1 .. n
        BY <3>1
      <4>2. NextChain(b, e, x[1], x[2]) = NextChain(b, d, x[1], x[2])
        BY <2>4, <2>6, <4>1 DEF NextChain
      <4> QED BY <2>6, <3>1, <3>2, <4>1, <4>2
    <3>4. DOMAIN e.table \subseteq (1 .. n + 1) \X (0 .. Len(e.minterms) - 1)
      BY <2>4, <3>1, <3>2
    <3> QED BY <2>6, <3>3, <3>4 DEF TableOK, Entries
  <2>16. Extends(d, e)
    BY <1>1, <2>4, <2>6, <2>11 DEF Extends
  <2>17. Registered(e, K)
    BY <2>6, <2>11 DEF Registered
  <2> QED BY <2>12, <2>13, <2>14, <2>15, <2>16, <2>17, StateForFacts DEF DfaOK
<1> QED BY <1>2, <1>3

LEMMA EnterOK ==
  ASSUME NEW b, NEW d, DfaOK(b, d), NEW x \in Entries(d), NEW s, Gives(d, s, NextChain(b, d, x[1], x[2])),
         NEW e, e = Enter(d, x, s)
  PROVE  /\ DfaOK(b, e) /\ Extends(d, e) /\ e.states = d.states
         /\ x \in DOMAIN e.table /\ e.table[x] = s
<1> DEFINE T == [y \in DOMAIN d.table \cup {x} |-> IF y = x THEN s ELSE d.table[y]]
<1>1. d = [minterms |-> d.minterms, lookup |-> d.lookup, states |-> d.states, table |-> d.table,
           prefix |-> d.prefix, sets |-> d.sets, after |-> d.after]
  BY DEF DfaOK, DfaShape
<1>2. e = [d EXCEPT !.table = T]
  BY DEF Enter
<1>3. DOMAIN T = DOMAIN d.table \cup {x} /\ T[x] = s /\ \A y \in DOMAIN d.table : y # x => T[y] = d.table[y]
  OBVIOUS
<1>4. Len(d.states) \in Nat
  BY DEF DfaOK, StatesOK
<1>5. s \in Nat /\ s \in 1 .. Len(d.states) /\ d.states[s] = NextChain(b, d, x[1], x[2])
  BY <1>4 DEF Gives
<1>6. T \in [DOMAIN T -> Nat]
  <2>1. d.table \in [DOMAIN d.table -> Nat]
    BY DEF DfaOK, DfaShape
  <2> QED BY <1>5, <2>1
<1> HIDE DEF T
<1>7. e = [minterms |-> d.minterms, lookup |-> d.lookup, states |-> d.states, table |-> T,
           prefix |-> d.prefix, sets |-> d.sets, after |-> d.after]
  BY <1>1, <1>2
<1>8. /\ e.minterms = d.minterms /\ e.lookup = d.lookup /\ e.table = T /\ e.states = d.states
      /\ e.prefix = d.prefix /\ e.sets = d.sets /\ e.after = d.after
  BY <1>7
<1>9. DfaShape(e) /\ ClassesOK(b, e) /\ StatesOK(b, e)
  <2>1. DfaShape(e)
    BY <1>6, <1>7, <1>8 DEF DfaShape
  <2>2. ClassesOK(b, e)
    BY <1>8 DEF DfaOK, ClassesOK
  <2>3. StatesOK(b, e)
    BY <1>8 DEF DfaOK, StatesOK
  <2> QED BY <2>1, <2>2, <2>3
<1>10. TableOK(b, e)
  <2>1. /\ DOMAIN d.table \subseteq Entries(d)
        /\ \A y \in DOMAIN d.table : d.table[y] \in 1 .. Len(d.states) /\ d.states[d.table[y]] = NextChain(b, d, y[1], y[2])
    BY DEF DfaOK, TableOK
  <2>2. Entries(e) = Entries(d) /\ \A y : NextChain(b, e, y[1], y[2]) = NextChain(b, d, y[1], y[2])
    BY <1>8 DEF Entries, NextChain
  <2>3. \A y \in DOMAIN e.table : e.table[y] \in 1 .. Len(e.states) /\ e.states[e.table[y]] = NextChain(b, d, y[1], y[2])
    BY <1>3, <1>5, <1>8, <2>1
  <2>4. DOMAIN e.table \subseteq Entries(e)
    BY <1>3, <1>8, <2>1, <2>2
  <2> QED BY <2>2, <2>3, <2>4 DEF TableOK
<1>11. Extends(d, e)
  BY <1>4, <1>8 DEF Extends
<1> QED BY <1>3, <1>8, <1>9, <1>10, <1>11 DEF DfaOK

\* the transition of state s by the class mt
Leading(b, d, e, s, mt) ==
  /\ DfaOK(b, e) /\ Extends(d, e)
  /\ <<s, mt>> \in DOMAIN e.table /\ Gives(e, e.table[<<s, mt>>], NextChain(b, d, s, mt))

LEMMA FilledOK ==
  ASSUME NEW b, WellFormed(b), NEW d, DfaOK(b, d), NEW s, NEW mt, <<s, mt>> \in Entries(d)
  PROVE  Leading(b, d, Filled(b, d, s, mt), s, mt)
<1> DEFINE x == <<s, mt>>
           K == NextChain(b, d, s, mt)
           e == Register(d, K)
           f == Enter(e, x, StateFor(e, K))
<1>1. CASE x \in DOMAIN d.table
  <2>1. Filled(b, d, s, mt) = d
    BY <1>1 DEF Filled
  <2>2. Gives(d, d.table[x], NextChain(b, d, x[1], x[2]))
    BY <1>1 DEF DfaOK, TableOK, Gives
  <2>3. x[1] = s /\ x[2] = mt
    OBVIOUS
  <2> QED BY <1>1, <2>1, <2>2, <2>3, ExtendsSelf DEF Leading
<1>2. CASE x \notin DOMAIN d.table
  <2>0. Len(d.states) \in Nat /\ Len(d.minterms) \in Nat
    BY DEF DfaOK, StatesOK, ClassesOK
  <2>1. s \in 1 .. Len(d.states) /\ mt \in 0 .. Len(d.minterms) - 1
    BY DEF Entries
  <2>2. StateOK(b, K)
    <3>1. StateOK(b, d.states[s])
      BY <2>1 DEF DfaOK, StatesOK
    <3>2. mt + 1 \in 1 .. Len(d.minterms)
      BY <2>0, <2>1
    <3>3. Class(b, d.minterms[mt + 1])
      BY <3>2 DEF DfaOK, ClassesOK
    <3> QED BY <3>1, <3>3, StateAfter DEF NextChain
  <2>3. Filled(b, d, s, mt) = f
    BY <1>2 DEF Filled, RegisterAndEnter
  <2> HIDE DEF K, e
  <2>4. DfaOK(b, e) /\ Extends(d, e) /\ Gives(e, StateFor(e, K), K)
    <3>1. e = Register(d, K)
      BY DEF e
    <3> QED BY <2>2, <3>1, RegisterOK
  <2>5. NextChain(b, e, s, mt) = K
    BY <2>1, <2>4 DEF Extends, NextChain, K
  <2>6. x \in Entries(e)
    <3>1. Len(d.states) \in Nat /\ Len(e.states) \in Nat /\ Len(d.states) <= Len(e.states) /\ e.minterms = d.minterms
      BY <2>4 DEF Extends
    <3>2. s \in 1 .. Len(e.states)
      BY <2>1, <3>1
    <3> QED BY <2>1, <3>1, <3>2 DEF Entries
  <2>7. x[1] = s /\ x[2] = mt
    OBVIOUS
  <2>8. Gives(e, StateFor(e, K), NextChain(b, e, x[1], x[2]))
    BY <2>4, <2>5, <2>7
  <2>9. f = Enter(e, x, StateFor(e, K))
    OBVIOUS
  <2> HIDE DEF x, f
  <2>10. DfaOK(b, f) /\ Extends(e, f) /\ f.states = e.states /\ x \in DOMAIN f.table /\ f.table[x] = StateFor(e, K)
    BY <2>4, <2>6, <2>8, <2>9, EnterOK
  <2>11. Extends(d, f)
    BY <2>4, <2>10 DEF Extends
  <2>12. Gives(f, f.table[x], K)
    BY <2>4, <2>10 DEF Gives
  <2> QED BY <2>3, <2>10, <2>11, <2>12 DEF Leading, x, K
<1> QED BY <1>1, <1>2

-----------------------------------------------------------------------------
(* The byte at p takes the scan from a state to the next.                  *)
LEMMA LookupFacts ==
  ASSUME NEW b, NEW d, DfaOK(b, d), NEW s \in 1 .. Len(d.states), NEW c \in Alphabet
  PROVE  /\ <<s, d.lookup[c]>> \in Entries(d)
         /\ Class(b, d.minterms[d.lookup[c] + 1]) /\ c \in d.minterms[d.lookup[c] + 1]
<1>1. d.lookup[c] \in Nat /\ d.lookup[c] + 1 \in 1 .. Len(d.minterms) /\ c \in d.minterms[d.lookup[c] + 1]
  BY DEF DfaOK, ClassesOK
<1>2. Class(b, d.minterms[d.lookup[c] + 1])
  BY <1>1 DEF DfaOK, ClassesOK
<1>3. Len(d.minterms) \in Nat
  BY DEF DfaOK, ClassesOK
<1>4. d.lookup[c] \in 0 .. Len(d.minterms) - 1
  BY <1>1, <1>3
<1> QED BY <1>1, <1>2, <1>4 DEF Entries

LEMMA ScanStep ==
  ASSUME NEW b, WellFormed(b), NEW w \in Seq(Alphabet), NEW from \in Nat, NEW p \in from .. Len(w) - 1,
         NEW d, DfaOK(b, d), NEW s \in 1 .. Len(d.states), ChainOK(b, w, from, p, d.states[s]),
         NEW e, NEW t, Gives(e, t, NextChain(b, d, s, d.lookup[w[p + 1]]))
  PROVE  t \in 1 .. Len(e.states) /\ ChainOK(b, w, from, p + 1, e.states[t])
<1> DEFINE mt == d.minterms[d.lookup[w[p + 1]] + 1]
<1>1. w[p + 1] \in Alphabet
  OBVIOUS
<1>2. Class(b, mt) /\ w[p + 1] \in mt
  BY <1>1, LookupFacts
<1>3. t \in 1 .. Len(e.states) /\ e.states[t] = ChainAfter(b, d.states[s], mt)
  BY DEF Gives, NextChain
<1> HIDE DEF mt
<1>4. ChainOK(b, w, from, p + 1, ChainAfter(b, d.states[s], mt))
  BY <1>2, ChainStep
<1> QED BY <1>3, <1>4

LEMMA StepsAfter ==
  ASSUME NEW b, WellFormed(b), NEW mt, Class(b, mt), NEW K, StateOK(b, K)
  PROVE  \A m \in ChainAfter(b, K, mt) : m.step = 1 \/ \E c \in K : m.step = c.step + 1
<1> DEFINE Q == DeriveChain(b, K, mt) \cup Spawned(b, mt)
           c0 == Candidate(b.pattern, 0, 0)
<1>1. PICK n \in Nat : \A c \in K : c.step \in 1 .. n
  BY DEF StateOK
<1>2. c0 \in Cand(b) /\ c0.step = 0
  <2>1. b.pattern \in Bodies(b)
    BY RegexFacts
  <2> QED BY <2>1 DEF Cand, Candidate
<1> HIDE DEF c0
<1>3. \A m \in Q : m = Derive(b, c0, mt) \/ \E c \in K : m = Moved(b, c, mt)
  BY DEF DeriveChain, Spawned, c0
<1>4. \A m \in Q : (m.step = 1 \/ \E c \in K : m.step = c.step + 1) /\ m.step \in 1 .. n + 1
  <2> SUFFICES ASSUME NEW m \in Q PROVE (m.step = 1 \/ \E c \in K : m.step = c.step + 1) /\ m.step \in 1 .. n + 1
    OBVIOUS
  <2>1. CASE m = Derive(b, c0, mt)
    <3>1. m.step = 0 + 1
      BY <1>2, <2>1, DeriveCand
    <3> QED BY <3>1
  <2>2. CASE \E c \in K : m = Moved(b, c, mt)
    <3>1. PICK c \in K : m = Moved(b, c, mt)
      BY <2>2
    <3>2. c \in Cand(b) /\ c.step \in 1 .. n
      BY <1>1 DEF StateOK
    <3>3. m.step = c.step + 1
      BY <3>1, <3>2, DeriveCand
    <3> QED BY <3>2, <3>3
  <2> QED BY <1>3, <2>1, <2>2
<1> HIDE DEF Q
<1>5. n + 1 \in Nat
  OBVIOUS
<1>6. RebuildChain(b, Q) \subseteq Q
  BY <1>4, <1>5, RebuildSubset
<1> QED BY <1>4, <1>6 DEF ChainAfter, Q

\* a byte that a match can begin with is followed
LEMMA SpawnStays ==
  ASSUME NEW b, WellFormed(b), NEW mt, Class(b, mt), NEW x \in mt, b.der[b.pattern][x] # BotId
  PROVE  ChainAfter(b, {}, mt) # {}
<1> DEFINE c0 == Candidate(b.pattern, 0, 0)
           m == Derive(b, c0, mt)
           Q == DeriveChain(b, {}, mt) \cup Spawned(b, mt)
<1>1. b.pattern \in Bodies(b)
  BY RegexFacts
<1>2. c0 \in Cand(b) /\ c0.step = 0 /\ c0.body = b.pattern
  BY <1>1 DEF Cand, Candidate
<1>3. TransitionTerm(b, b.pattern, mt) # BotId
  BY <1>1, AlikeDerivatives
<1>4. m.body # BotId
  BY <1>2, <1>3 DEF Derive, DeriveTo, Candidate
<1>5. m.step = 0 + 1
  <2> HIDE DEF c0
  <2> QED BY <1>2, DeriveCand
<1> HIDE DEF m
<1>6. Alive(m)
  BY <1>4 DEF Alive
<1>7. Q = {m}
  BY <1>6 DEF DeriveChain, Spawned, m
<1> HIDE DEF Q
<1>8. \A c \in Q : c.step \in 1 .. 1
  BY <1>5, <1>7
<1>9a. PICK n \in Nat : \E f : Rebuilds(b, Q, n, f)
  BY <1>8, RebuildExists
<1>9. PICK f : Rebuilds(b, Q, n, f)
  BY <1>9a
<1>10. AtStep(Q, n) # {} /\ m.step \in 1 .. n
  BY <1>7, <1>9 DEF Rebuilds
<1>11. n \in 1 .. n
  BY <1>5, <1>9, <1>10
<1>12. RebuildChain(b, Q) = RebuiltAt(b, Q, n, f[n - 1])
  BY <1>9, <1>11 DEF Rebuilds
<1>13. RebuildChain(b, Q) # {}
  BY <1>10, <1>12 DEF RebuiltAt
<1> QED BY <1>13 DEF ChainAfter, Q

-----------------------------------------------------------------------------
(* The minterms: the cells are the classes of the sets that have cut them. *)
ClassOf(T, x) == {y \in Alphabet : \A S \in T : x \in S <=> y \in S}
AllCells(t) == t.rest \cup {t.first}
CellsOK(T, t) ==
  /\ t.first \notin t.rest
  /\ \A X \in AllCells(t) : X # {} /\ \A x \in X : X = ClassOf(T, x)
  /\ \A x \in Alphabet : \E X \in AllCells(t) : x \in X

LEMMA UncutOK == CellsOK({}, Uncut)
<1>1. Uncut.first = Alphabet /\ Uncut.rest = {} /\ AllCells(Uncut) = {Alphabet}
  BY DEF Uncut, AllCells
<1>2. \A x \in Alphabet : Alphabet = ClassOf({}, x)
  BY DEF ClassOf
<1>3. Alphabet # {}
  BY AlphabetAssumption
<1> QED BY <1>1, <1>2, <1>3 DEF CellsOK

LEMMA RefineOK ==
  ASSUME NEW T, NEW t, CellsOK(T, t), NEW S
  PROVE  CellsOK(T \cup {S}, Refine(t, S))
<1> DEFINE fst == IF t.first \subseteq S THEN t.first ELSE t.first \ S
           all == UNION {Parts(X, S) : X \in AllCells(t)}
           r == Refine(t, S)
<1>1. r.first = fst /\ r.rest = all \ {fst}
  <2>1. r = [first |-> fst, rest |-> all \ {fst}]
    BY Zenon DEF Refine, AllCells
  <2> HIDE DEF all, fst, r
  <2> QED BY <2>1
<1>2. \A Y : Y \in all <=> Y # {} /\ \E X \in AllCells(t) : Y = X \cap S \/ Y = X \ S
  BY DEF Parts
<1>3. fst \in all
  <2>1. t.first \in AllCells(t) /\ t.first # {}
    BY DEF CellsOK, AllCells
  <2>2. fst # {} /\ (fst = t.first \cap S \/ fst = t.first \ S)
    BY <2>1
  <2> HIDE DEF all, fst
  <2> QED BY <1>2, <2>1, <2>2
<1> HIDE DEF all, fst
<1>4. AllCells(r) = all
  BY <1>1, <1>3 DEF AllCells
<1>5. ASSUME NEW Y \in all, NEW y \in Y PROVE Y = ClassOf(T \cup {S}, y)
  <2>1. PICK X \in AllCells(t) : Y = X \cap S \/ Y = X \ S
    BY <1>2
  <2>2. y \in X /\ X = ClassOf(T, y)
    BY <2>1 DEF CellsOK
  <2>3. \A z : z \in ClassOf(T \cup {S}, y) <=> z \in ClassOf(T, y) /\ (y \in S <=> z \in S)
    BY DEF ClassOf
  <2>4. \A z : z \in Y <=> z \in X /\ (y \in S <=> z \in S)
    BY <2>1
  <2> QED BY <2>2, <2>3, <2>4
<1>6. ASSUME NEW x \in Alphabet PROVE \E Y \in all : x \in Y
  <2>1. PICK X \in AllCells(t) : x \in X
    BY DEF CellsOK
  <2>2. CASE x \in S
    <3>1. x \in X \cap S
      BY <2>1, <2>2
    <3>2. X \cap S \in all
      BY <1>2, <3>1
    <3> QED BY <3>1, <3>2
  <2>3. CASE x \notin S
    <3>1. x \in X \ S
      BY <2>1, <2>3
    <3>2. X \ S \in all
      BY <1>2, <3>1
    <3> QED BY <3>1, <3>2
  <2> QED BY <2>2, <2>3
<1>7. r.first \notin r.rest
  BY <1>1
<1>8. \A Y \in all : Y # {}
  BY <1>2
<1> QED BY <1>4, <1>5, <1>6, <1>7, <1>8 DEF CellsOK

LEMMA CellsCount ==
  ASSUME NEW T, NEW t, CellsOK(T, t)
  PROVE  /\ IsFiniteSet(t.rest) /\ Cardinality(t.rest) \in Nat
         /\ Cardinality(t.rest) + 1 <= Cardinality(Alphabet) /\ Cardinality(Alphabet) \in Nat
<1> DEFINE C == AllCells(t)
           f == [X \in C |-> CHOOSE x \in X : TRUE]
<1>1. \A X \in C : f[X] \in X
  BY DEF CellsOK
<1>2. \A X \in C : \A x \in X : X = ClassOf(T, x)
  BY DEF CellsOK
<1>3. \A X \in C : f[X] \in Alphabet
  BY <1>1, <1>2 DEF ClassOf
<1>4. \A X, Y \in C : f[X] = f[Y] => X = Y
  <2> HIDE DEF f, C
  <2> QED BY <1>1, <1>2
<1>5. f \in Injection(C, Alphabet)
  <2>1. f \in [C -> Alphabet]
    BY <1>3
  <2> HIDE DEF f, C
  <2> QED BY <1>4, <2>1 DEF Injection, IsInjective
<1> HIDE DEF f
<1>6. IsFiniteSet(Alphabet)
  BY AlphabetAssumption
<1>7. IsFiniteSet(C) /\ Cardinality(C) <= Cardinality(Alphabet)
  BY <1>5, <1>6, FS_Injection
<1>8. t.rest = C \ {t.first} /\ t.first \in C
  BY DEF CellsOK, AllCells
<1>9. IsFiniteSet(t.rest) /\ Cardinality(t.rest) = Cardinality(C) - 1
  BY <1>7, <1>8, FS_RemoveElement
<1>10. Cardinality(C) \in Nat /\ Cardinality(t.rest) \in Nat /\ Cardinality(Alphabet) \in Nat
  BY <1>6, <1>7, <1>9, FS_CardinalityType
<1> QED BY <1>7, <1>9, <1>10

LEMMA SameChoice ==
  ASSUME NEW S, NEW T, S = T
  PROVE  (CHOOSE i \in S : TRUE) = (CHOOSE i \in T : TRUE)
  OBVIOUS

LEMMA MintermsOK ==
  ASSUME NEW b, WellFormed(b), NEW t, CellsOK(b.tests, t), NEW order \in Orders(t.rest)
  PROVE  ClassesOK(b, NewDfa(GenerateMinterms(t, order)))
<1> DEFINE M == GenerateMinterms(t, order)
           n == Cardinality(t.rest)
           L == MintermsLookup(M)
           d == NewDfa(M)
<1>1. n \in Nat /\ n + 1 <= Cardinality(Alphabet) /\ Cardinality(Alphabet) \in Nat
  BY CellsCount
<1>2. IndexLimit \in Nat /\ n < IndexLimit
  BY <1>1, AlphabetAssumption
<1>3. order \in [1 .. n -> t.rest] /\ \A X \in t.rest : \E i \in 1 .. n : order[i] = X
  BY DEF Orders
<1>4. \A X \in AllCells(t) : X \in SUBSET Alphabet /\ X # {} /\ \A x \in X : X = ClassOf(b.tests, x)
  BY DEF CellsOK, ClassOf
<1>5. t.rest \subseteq AllCells(t) /\ t.first \in AllCells(t)
  BY DEF AllCells
<1>6. order \in Seq(SUBSET Alphabet) /\ Len(order) = n
  <2>1. t.rest \subseteq SUBSET Alphabet
    BY <1>4, <1>5
  <2>2. order \in [1 .. n -> SUBSET Alphabet]
    BY <1>3, <2>1
  <2> HIDE DEF n
  <2> QED BY <1>1, <2>2
<1>7. /\ M \in Seq(SUBSET Alphabet) /\ Len(M) = n + 1 /\ M[1] = t.first
      /\ \A i \in 2 .. n + 1 : M[i] = order[i - 1] /\ i - 1 \in 1 .. n
  <2>1. t.first \in SUBSET Alphabet
    BY <1>4, <1>5
  <2> HIDE DEF n
  <2>2. M = <<t.first>> \o order
    BY DEF GenerateMinterms
  <2>3. M \in Seq(SUBSET Alphabet) /\ Len(M) = n + 1 /\ M[1] = t.first
    BY <1>1, <1>6, <2>1, <2>2
  <2>4. \A i \in 2 .. n + 1 : M[i] = order[i - 1] /\ i - 1 \in 1 .. n
    BY <1>1, <1>6, <2>1, <2>2
  <2> QED BY <2>3, <2>4
<1> HIDE DEF n, M
<1>8. \A i \in 1 .. n + 1 : M[i] \in AllCells(t)
  <2>1. \A i \in 1 .. n + 1 : i = 1 \/ i \in 2 .. n + 1
    BY <1>1
  <2>2. \A i \in 2 .. n + 1 : M[i] \in t.rest
    BY <1>3, <1>7
  <2> QED BY <1>5, <1>7, <2>1, <2>2
<1>9. \A X \in t.rest : \E i \in 2 .. n + 1 : M[i] = X
  <2> SUFFICES ASSUME NEW X \in t.rest PROVE \E i \in 2 .. n + 1 : M[i] = X
    OBVIOUS
  <2>1. PICK i \in 1 .. n : order[i] = X
    BY <1>3
  <2>2. i + 1 \in 2 .. n + 1 /\ (i + 1) - 1 = i
    BY <1>1
  <2> QED BY <1>7, <2>1, <2>2
<1>10. \A c \in Alphabet : L[c] = IF \E i \in 2 .. n + 1 : c \in M[i]
                                  THEN ((CHOOSE i \in 2 .. n + 1 : c \in M[i]) - 1) % IndexLimit ELSE 0
  BY <1>7 DEF MintermsLookup
<1>11. DOMAIN L = Alphabet /\ L = [c \in Alphabet |-> L[c]]
  BY DEF MintermsLookup
<1>12. \A i \in 2 .. n + 1 : (i - 1) % IndexLimit = i - 1 /\ i - 1 \in Nat /\ i \in 1 .. n + 1 /\ (i - 1) + 1 = i
  BY <1>1, <1>2
<1> HIDE DEF L
<1>13. ASSUME NEW c \in Alphabet
       PROVE  L[c] \in Nat /\ L[c] + 1 \in 1 .. n + 1 /\ c \in M[L[c] + 1]
  <2>1. CASE \E i \in 2 .. n + 1 : c \in M[i]
    <3> DEFINE i == CHOOSE i \in 2 .. n + 1 : c \in M[i]
    <3>1. i \in 2 .. n + 1 /\ c \in M[i]
      BY <2>1
    <3>2. L[c] = (i - 1) % IndexLimit
      BY <1>10, <2>1
    <3> HIDE DEF i
    <3>3. L[c] = i - 1
      BY <1>12, <3>1, <3>2
    <3> QED BY <1>12, <3>1, <3>3
  <2>2. CASE ~(\E i \in 2 .. n + 1 : c \in M[i])
    <3>1. L[c] = 0
      BY <1>10, <2>2
    <3>2. PICK X \in AllCells(t) : c \in X
      BY DEF CellsOK
    <3>3. X \notin t.rest
      BY <1>9, <2>2, <3>2
    <3>4. X = t.first
      BY <3>2, <3>3 DEF AllCells
    <3> QED BY <1>1, <1>7, <3>1, <3>2, <3>4
  <2> QED BY <2>1, <2>2
<1>14. \A m \in 1 .. n + 1 : Class(b, M[m])
  <2> SUFFICES ASSUME NEW m \in 1 .. n + 1 PROVE Class(b, M[m])
    OBVIOUS
  <2>1. M[m] \in SUBSET Alphabet /\ M[m] # {} /\ \A x \in M[m] : M[m] = ClassOf(b.tests, x)
    BY <1>4, <1>8
  <2>2. \A x, y \in M[m] : Alike(b, x, y)
    BY <2>1 DEF ClassOf, Alike
  <2> QED BY <2>1, <2>2 DEF Class
<1>15. ASSUME NEW x \in Alphabet, NEW y \in Alphabet PROVE L[x] = L[y] <=> Alike(b, x, y)
  <2>1. ASSUME L[x] = L[y] PROVE Alike(b, x, y)
    BY <1>13, <1>14, <2>1 DEF Class
  <2>2. ASSUME Alike(b, x, y) PROVE L[x] = L[y]
    <3>1. \A m \in 1 .. n + 1 : x \in M[m] <=> y \in M[m]
      <4> SUFFICES ASSUME NEW m \in 1 .. n + 1 PROVE x \in M[m] <=> y \in M[m]
        OBVIOUS
      <4>1. \A z \in M[m] : M[m] = ClassOf(b.tests, z)
        BY <1>4, <1>8
      <4>2. x \in M[m] => y \in M[m]
        BY <2>2, <4>1 DEF ClassOf, Alike
      <4>3. y \in M[m] => x \in M[m]
        BY <2>2, <4>1 DEF ClassOf, Alike
      <4> QED BY <4>2, <4>3
    <3>2. \A i \in 2 .. n + 1 : x \in M[i] <=> y \in M[i]
      BY <1>12, <3>1
    <3>3. (CHOOSE i \in 2 .. n + 1 : x \in M[i]) = (CHOOSE i \in 2 .. n + 1 : y \in M[i])
      BY <3>2
    <3> QED BY <1>10, <3>2, <3>3
  <2> QED BY <2>1, <2>2
<1>16. d.minterms = M /\ d.lookup = L
  BY DEF NewDfa, L
<1>17. d.lookup \in [Alphabet -> Nat]
  BY <1>11, <1>13, <1>16
<1> HIDE DEF d
<1>18. ClassesOK(b, d)
  BY <1>7, <1>13, <1>14, <1>15, <1>16, <1>17 DEF ClassesOK
<1> QED BY <1>18 DEF d, M

-----------------------------------------------------------------------------
(* The prefix: every match goes through the sets.                          *)
Fits(sets, w, i) == i + Len(sets) <= Len(w) /\ \A k \in 1 .. Len(sets) : w[i + k] \in sets[k]

LEMMA FrontiersIn ==
  ASSUME NEW b, WellFormed(b), NEW sets, NEW F, Len(sets) \in Nat, Frontiers(b, sets, F)
  PROVE  \A k \in 1 .. Len(sets) + 1 : F[k] \subseteq Bodies(b)
<1> DEFINE n == Len(sets)
           S == {k \in 0 .. n : F[k + 1] \subseteq Bodies(b)}
<1>1. 0 \in S
  <2>1. F[0 + 1] = {b.pattern}
    BY DEF Frontiers
  <2> QED BY <2>1, RegexFacts
<1>2. \A k \in 0 .. n - 1 : k \in S => k + 1 \in S
  <2> SUFFICES ASSUME NEW k \in 0 .. n - 1, F[k + 1] \subseteq Bodies(b) PROVE F[(k + 1) + 1] \subseteq Bodies(b)
    OBVIOUS
  <2>1. k + 1 \in 1 .. n
    OBVIOUS
  <2>2. F[(k + 1) + 1] = Targets(b, F[k + 1])
    BY <2>1 DEF Frontiers
  <2>3. \A x \in Bodies(b), c \in Alphabet : b.der[x][c] \in Bodies(b)
    BY RegexFacts
  <2> QED BY <2>2, <2>3 DEF Targets
<1>3. \A k \in 0 .. n : k \in S
  <2> HIDE DEF S
  <2> QED BY <1>1, <1>2, UpInterval
<1> QED
  <2> SUFFICES ASSUME NEW k \in 1 .. n + 1 PROVE F[k] \subseteq Bodies(b)
    OBVIOUS
  <2>1. k - 1 \in 0 .. n /\ (k - 1) + 1 = k
    OBVIOUS
  <2>2. k - 1 \in S
    BY <1>3, <2>1
  <2> QED BY <2>1, <2>2

LEMMA LeadsFits ==
  ASSUME NEW b, WellFormed(b), NEW w \in Seq(Alphabet), NEW sets, NEW F, Len(sets) \in Nat, Frontiers(b, sets, F),
         NEW i \in 0 .. Len(w), NEW j \in i + 1 .. Len(w), Meets(b, w, i, j)
  PROVE  Fits(sets, w, i) /\ i + Len(sets) <= j
<1> DEFINE n == Len(sets)
           S == {k \in 0 .. n : /\ i + k <= j /\ Body(b, w, i, i + k) \in F[k + 1]
                                /\ \A l \in 1 .. k : w[i + l] \in sets[l]}
<1>1. i \in Nat /\ j \in Nat /\ j <= Len(w) /\ Len(w) \in Nat /\ i + 0 = i /\ i + 0 <= j
  OBVIOUS
<1>2. 0 \in S
  <2>1. F[0 + 1] = {b.pattern}
    BY DEF Frontiers
  <2>2. Body(b, w, i, i) = b.pattern
    BY BodiesCorrect DEF BodiesOK
  <2> QED BY <1>1, <2>1, <2>2
<1>3. \A k \in 0 .. n - 1 : k \in S => k + 1 \in S
  <2> SUFFICES ASSUME NEW k \in 0 .. n - 1, k \in S PROVE k + 1 \in S
    OBVIOUS
  <2> DEFINE x == Body(b, w, i, i + k)
  <2>1. k \in Nat /\ k + 1 \in 1 .. n /\ k + 1 \in 0 .. n /\ i + (k + 1) = (i + k) + 1
    BY <1>1
  <2>2. i + k <= j /\ x \in F[k + 1] /\ \A l \in 1 .. k : w[i + l] \in sets[l]
    OBVIOUS
  <2>3. /\ sets[k + 1] = BytesOn(b, F[k + 1]) /\ F[(k + 1) + 1] = Targets(b, F[k + 1])
        /\ ~AnyNonbeginNullable(b, F[k + 1])
    BY <2>1 DEF Frontiers
  <2>4. F[k + 1] \subseteq Bodies(b)
    <3>1. k + 1 \in 1 .. n + 1
      BY <2>1
    <3> QED BY <3>1, FrontiersIn
  <2>5. i + k # j
    <3> SUFFICES ASSUME i + k = j PROVE FALSE
      OBVIOUS
    <3>1. b.null[x] # Never
      BY DEF Meets
    <3>2. b.null[x] \cap {"center", "end"} # {}
      <4> HIDE DEF x
      <4> QED BY <2>2, <2>4, <3>1, NullFacts
    <3> QED BY <2>2, <2>3, <3>2 DEF AnyNonbeginNullable
  <2>6. (i + k) + 1 <= j /\ i + k \in i .. Len(w) - 1 /\ (i + k) + 1 \in i .. Len(w) /\ j \in (i + k) + 1 .. Len(w)
    BY <1>1, <2>1, <2>2, <2>5
  <2> DEFINE c == w[(i + k) + 1]
             y == Body(b, w, i, (i + k) + 1)
  <2>7. y = b.der[x][c] /\ c \in Alphabet
    BY <2>6, BodiesCorrect DEF BodiesOK
  <2>8. y # BotId
    BY <2>6, BotStays
  <2> HIDE DEF x, y, c
  <2>9. y \in F[(k + 1) + 1] /\ c \in sets[k + 1]
    BY <2>2, <2>3, <2>7, <2>8 DEF Targets, BytesOn
  <2>10. \A l \in 1 .. k + 1 : w[i + l] \in sets[l]
    <3>1. \A l \in 1 .. k + 1 : l = k + 1 \/ l \in 1 .. k
      BY <2>1
    <3>2. w[i + (k + 1)] \in sets[k + 1]
      BY <2>1, <2>9 DEF c
    <3> QED BY <2>2, <3>1, <3>2
  <2>11. i + (k + 1) <= j /\ Body(b, w, i, i + (k + 1)) \in F[(k + 1) + 1]
    BY <2>1, <2>6, <2>9 DEF y
  <2> QED BY <2>1, <2>10, <2>11
<1>4. n \in S
  <2>1. 0 .. n \subseteq S
    <3> HIDE DEF S
    <3> QED BY <1>2, <1>3, UpInterval
  <2>2. n \in 0 .. n
    OBVIOUS
  <2> QED BY <2>1, <2>2
<1>5. i + n <= j /\ \A l \in 1 .. n : w[i + l] \in sets[l]
  BY <1>4
<1> HIDE DEF S
<1>6. i + n <= Len(w)
  BY <1>1, <1>5
<1> QED BY <1>5, <1>6 DEF Fits

LEMMA LeadsFirst ==
  ASSUME NEW b, NEW sets, NEW F, Len(sets) \in Nat, Len(sets) >= 1, Frontiers(b, sets, F), NEW x \in sets[1]
  PROVE  x \in Alphabet /\ b.der[b.pattern][x] # BotId
<1>1. 1 \in 1 .. Len(sets)
  OBVIOUS
<1>2. sets[1] = BytesOn(b, {b.pattern})
  BY <1>1 DEF Frontiers
<1> QED BY <1>2 DEF BytesOn

OnFrom(b, sets, F, X) ==
  /\ Append(sets, BytesOn(b, X)) \in Seq(SUBSET Alphabet)
  /\ Append(F, Targets(b, X)) \in Seq(SUBSET Bodies(b))
  /\ Frontiers(b, Append(sets, BytesOn(b, X)), Append(F, Targets(b, X)))
  /\ Append(F, Targets(b, X))[Len(F) + 1] = Targets(b, X)
  /\ Len(Append(F, Targets(b, X))) = Len(F) + 1 /\ Len(Append(sets, BytesOn(b, X))) = Len(sets) + 1

LEMMA FrontiersOn ==
  ASSUME NEW b, NEW sets \in Seq(SUBSET Alphabet), NEW F \in Seq(SUBSET Bodies(b)), Frontiers(b, sets, F),
         WellFormed(b), NEW X, F[Len(F)] = X, ~AnyNonbeginNullable(b, X), Targets(b, X) # {}
  PROVE  OnFrom(b, sets, F, X)
<1> DEFINE n == Len(sets)
           Y == BytesOn(b, X)
           Z == Targets(b, X)
           s2 == Append(sets, Y)
           F2 == Append(F, Z)
<1>1. n \in Nat /\ Len(F) = n + 1 /\ F[1] = {b.pattern} /\ X = F[n + 1]
  BY DEF Frontiers
<1>2. Y \in SUBSET Alphabet
  BY DEF BytesOn
<1>3. Z \in SUBSET Bodies(b)
  <2>1. X \subseteq Bodies(b)
    <3>1. n + 1 \in 1 .. n + 1
      BY <1>1
    <3> QED BY <1>1, <3>1, FrontiersIn
  <2>2. \A x \in Bodies(b), c \in Alphabet : b.der[x][c] \in Bodies(b)
    BY RegexFacts
  <2> QED BY <2>1, <2>2 DEF Targets
<1> HIDE DEF Y, Z
<1>4. s2 \in Seq(SUBSET Alphabet) /\ Len(s2) = n + 1 /\ s2[n + 1] = Y /\ \A k \in 1 .. n : s2[k] = sets[k]
  BY <1>1, <1>2
<1>5. /\ F2 \in Seq(SUBSET Bodies(b)) /\ Len(F2) = (n + 1) + 1 /\ F2[(n + 1) + 1] = Z
      /\ \A k \in 1 .. n + 1 : F2[k] = F[k]
  BY <1>1, <1>3
<1> HIDE DEF s2, F2
<1>6. ASSUME NEW k \in 1 .. n + 1
      PROVE  /\ s2[k] = BytesOn(b, F2[k]) /\ F2[k + 1] = Targets(b, F2[k])
             /\ ~AnyNonbeginNullable(b, F2[k]) /\ F2[k + 1] # {}
  <2>1. CASE k = n + 1
    BY <1>1, <1>4, <1>5, <2>1 DEF Y, Z
  <2>2. CASE k # n + 1
    <3>1. k \in 1 .. n /\ k + 1 \in 1 .. n + 1
      BY <1>1, <2>2
    <3>2. /\ sets[k] = BytesOn(b, F[k]) /\ F[k + 1] = Targets(b, F[k])
          /\ ~AnyNonbeginNullable(b, F[k]) /\ F[k + 1] # {}
      BY <3>1 DEF Frontiers
    <3> QED BY <1>4, <1>5, <3>1, <3>2
  <2> QED BY <2>1, <2>2
<1>7. F2[1] = {b.pattern}
  <2>1. 1 \in 1 .. n + 1
    BY <1>1
  <2> QED BY <1>1, <1>5, <2>1
<1>8. Frontiers(b, s2, F2)
  BY <1>4, <1>5, <1>6, <1>7 DEF Frontiers
<1> QED BY <1>1, <1>4, <1>5, <1>8 DEF OnFrom, s2, F2, Y, Z

LEMMA FrontiersCut ==
  ASSUME NEW b, NEW sets \in Seq(SUBSET Alphabet), NEW F \in Seq(SUBSET Bodies(b)), Frontiers(b, sets, F),
         NEW n \in 0 .. Len(sets)
  PROVE  SubSeq(sets, 1, n) \in Seq(SUBSET Alphabet) /\ Len(SubSeq(sets, 1, n)) = n /\ Leads(b, SubSeq(sets, 1, n))
<1> DEFINE s2 == SubSeq(sets, 1, n)
           F2 == SubSeq(F, 1, n + 1)
<1>1. n \in Nat /\ n <= Len(sets) /\ Len(sets) \in Nat /\ Len(F) = Len(sets) + 1 /\ F[1] = {b.pattern}
  BY DEF Frontiers
<1>2. s2 \in Seq(SUBSET Alphabet) /\ Len(s2) = n /\ \A k \in 1 .. n : s2[k] = sets[k]
  BY <1>1
<1>3. F2 \in Seq(SUBSET Bodies(b)) /\ Len(F2) = n + 1 /\ \A k \in 1 .. n + 1 : F2[k] = F[k]
  BY <1>1
<1> HIDE DEF s2, F2
<1>4. ASSUME NEW k \in 1 .. n
      PROVE  /\ s2[k] = BytesOn(b, F2[k]) /\ F2[k + 1] = Targets(b, F2[k])
             /\ ~AnyNonbeginNullable(b, F2[k]) /\ F2[k + 1] # {}
  <2>1. k \in 1 .. Len(sets) /\ k \in 1 .. n + 1 /\ k + 1 \in 1 .. n + 1
    BY <1>1
  <2>2. /\ sets[k] = BytesOn(b, F[k]) /\ F[k + 1] = Targets(b, F[k])
        /\ ~AnyNonbeginNullable(b, F[k]) /\ F[k + 1] # {}
    BY <2>1 DEF Frontiers
  <2> QED BY <1>2, <1>3, <2>1, <2>2
<1>5. F2[1] = {b.pattern}
  <2>1. 1 \in 1 .. n + 1
    BY <1>1
  <2> QED BY <1>1, <1>3, <2>1
<1>6. Frontiers(b, s2, F2)
  BY <1>2, <1>3, <1>4, <1>5 DEF Frontiers
<1> QED BY <1>2, <1>3, <1>6 DEF Leads, s2

LEMMA DeadEnd ==
  ASSUME NEW b, WellFormed(b), NEW sets, NEW F, Len(sets) \in Nat, Frontiers(b, sets, F),
         ~AnyNonbeginNullable(b, F[Len(sets) + 1]), Targets(b, F[Len(sets) + 1]) = {}
  PROVE  Barren(b)
<1> DEFINE n == Len(sets)
           B == {BotId} \cup UNION {F[k] : k \in 1 .. n + 1}
<1>1. \A k \in 1 .. n + 1 : F[k] \subseteq Bodies(b)
  BY FrontiersIn
<1>2. B \in SUBSET Bodies(b)
  BY <1>1, RegexFacts
<1>3. b.pattern \in B
  <2>1. F[1] = {b.pattern} /\ 1 \in 1 .. n + 1
    BY DEF Frontiers
  <2> QED BY <2>1
<1>4. \A k \in 1 .. n + 1 : ~AnyNonbeginNullable(b, F[k]) /\ Targets(b, F[k]) \subseteq B
  <2> SUFFICES ASSUME NEW k \in 1 .. n + 1 PROVE ~AnyNonbeginNullable(b, F[k]) /\ Targets(b, F[k]) \subseteq B
    OBVIOUS
  <2>1. CASE k = n + 1
    BY <2>1
  <2>2. CASE k # n + 1
    <3>1. k \in 1 .. n /\ k + 1 \in 1 .. n + 1
      BY <2>2
    <3>2. ~AnyNonbeginNullable(b, F[k]) /\ Targets(b, F[k]) = F[k + 1]
      BY <3>1 DEF Frontiers
    <3> QED BY <3>1, <3>2
  <2> QED BY <2>1, <2>2
<1>5. ASSUME NEW x \in B PROVE b.null[x] = Never /\ \A c \in Alphabet : b.der[x][c] \in B
  <2>1. CASE x = BotId
    BY <2>1, RegexFacts
  <2>2. CASE x # BotId
    <3>1. PICK k \in 1 .. n + 1 : x \in F[k]
      BY <2>2
    <3>2. x \in Bodies(b) /\ ~(b.null[x] \cap {"center", "end"} # {})
      BY <1>1, <1>4, <3>1 DEF AnyNonbeginNullable
    <3>3. b.null[x] = Never
      BY <3>2, NullFacts
    <3>4. \A c \in Alphabet : b.der[x][c] \in Targets(b, F[k]) \cup {BotId}
      BY <3>1 DEF Targets
    <3> QED BY <1>4, <3>3, <3>4
  <2> QED BY <2>1, <2>2
<1> HIDE DEF B
<1> QED BY <1>2, <1>3, <1>5 DEF Barren

LEMMA BarrenHopeless ==
  ASSUME NEW b, WellFormed(b), Barren(b), NEW w \in Seq(Alphabet), NEW i \in 0 .. Len(w)
  PROVE  Hopeless(b, w, i)
<1>1. PICK B \in SUBSET Bodies(b) : b.pattern \in B /\ \A x \in B : b.null[x] = Never /\ \A c \in Alphabet : b.der[x][c] \in B
  BY DEF Barren
<1> DEFINE n == Len(w) - i
           S == {k \in 0 .. n : Body(b, w, i, i + k) \in B}
<1>2. n \in Nat /\ i \in Nat /\ Len(w) \in Nat /\ i + 0 = i
  OBVIOUS
<1>3. 0 \in S
  BY <1>1, <1>2, BodiesCorrect DEF BodiesOK
<1>4. \A k \in 0 .. n - 1 : k \in S => k + 1 \in S
  <2> SUFFICES ASSUME NEW k \in 0 .. n - 1, k \in S PROVE k + 1 \in S
    OBVIOUS
  <2>1. i + k \in i .. Len(w) - 1 /\ (i + k) + 1 = i + (k + 1) /\ k + 1 \in 0 .. n /\ w[(i + k) + 1] \in Alphabet
    BY <1>2
  <2>2. Body(b, w, i, (i + k) + 1) = b.der[Body(b, w, i, i + k)][w[(i + k) + 1]]
    BY <2>1, BodiesCorrect DEF BodiesOK
  <2>3. Body(b, w, i, (i + k) + 1) \in B
    BY <1>1, <2>1, <2>2
  <2> QED BY <2>1, <2>3
<1>5. \A k \in 0 .. n : k \in S
  <2> HIDE DEF S, n
  <2> QED BY <1>2, <1>3, <1>4, UpInterval
<1>6. ASSUME NEW j \in i + 1 .. Len(w) PROVE ~Meets(b, w, i, j)
  <2>1. j - i \in 0 .. n /\ i + (j - i) = j
    BY <1>2
  <2>2. j - i \in S
    <3> HIDE DEF S, n
    <3> QED BY <1>5, <2>1
  <2>3. Body(b, w, i, j) \in B
    BY <2>1, <2>2
  <2> QED BY <1>1, <2>3 DEF Meets
<1> QED BY <1>6 DEF Hopeless, NoneYet

-----------------------------------------------------------------------------
(* The prefix that is a literal: the chain it leads to, and when there is  *)
(* none.                                                                   *)
LEMMA NothingToFollow ==
  ASSUME NEW b, NEW w, NEW from \in Nat, NEW p \in Nat, \A i \in from .. p - 1 : Hopeless(b, w, i)
  PROVE  ChainOK(b, w, from, p, {})
BY DEF ChainOK, Tracked, Apart, Covered

LEMMA NothingFollowed ==
  ASSUME NEW b, NEW w, NEW from \in Nat, NEW p \in Nat, ChainOK(b, w, from, p, {})
  PROVE  \A i \in from .. p - 1 : Hopeless(b, w, i)
BY DEF ChainOK, Tracked, Covered

LEMMA PathLeads ==
  ASSUME NEW b, WellFormed(b), NEW w \in Seq(Alphabet), NEW from \in Nat, NEW q \in Nat, from <= q,
         NEW sets \in Seq(SUBSET Alphabet), Literal(sets), Fits(sets, w, q), NEW C, NEW K, Path(b, sets, C, K),
         ChainOK(b, w, from, q, {})
  PROVE  ChainOK(b, w, from, q + Len(sets), K)
<1> DEFINE n == Len(sets)
           S == {k \in 0 .. n : ChainOK(b, w, from, q + k, C[k + 1])}
<1>1. Len(C) = n + 1 /\ C[1] = {} /\ C[n + 1] = K
  BY DEF Path
<1>2. n \in Nat /\ q + n <= Len(w) /\ Len(w) \in Nat /\ q + 0 = q
  BY DEF Fits
<1>3. 0 \in S
  <2>1. C[0 + 1] = {}
    BY <1>1
  <2>2. ChainOK(b, w, from, q + 0, C[0 + 1])
    BY <1>2, <2>1
  <2>3. 0 \in 0 .. n
    BY <1>2
  <2> QED BY <2>2, <2>3
<1>4. \A k \in 0 .. n - 1 : k \in S => k + 1 \in S
  <2> SUFFICES ASSUME NEW k \in 0 .. n - 1, k \in S PROVE k + 1 \in S
    OBVIOUS
  <2>1. k \in Nat /\ k + 1 \in 1 .. n /\ k + 1 \in 0 .. n /\ q + k \in from .. Len(w) - 1 /\ (q + k) + 1 = q + (k + 1)
    BY <1>2
  <2>2. PICK mt \in SUBSET Alphabet : Class(b, mt) /\ mt \cap sets[k + 1] # {} /\ C[(k + 1) + 1] = ChainAfter(b, C[k + 1], mt)
    BY <2>1 DEF Path
  <2>3. w[q + (k + 1)] \in sets[k + 1]
    BY <2>1 DEF Fits
  <2>4. w[(q + k) + 1] \in mt
    <3>1. Cardinality(sets[k + 1]) = 1
      BY <2>1 DEF Literal
    <3> DEFINE x == w[q + (k + 1)]
    <3>2. PICK y \in mt : y \in sets[k + 1]
      BY <2>2
    <3>3. IsFiniteSet(sets[k + 1])
      <4>1. sets[k + 1] \in SUBSET Alphabet
        BY <1>2, <2>1
      <4> QED BY <4>1, AlphabetAssumption, FS_Subset
    <3>4. PICK z : sets[k + 1] = {z}
      BY <3>1, <3>3, FS_Singleton
    <3>5. x = y
      BY <2>3, <3>2, <3>4
    <3> QED BY <2>1, <3>2, <3>5
  <2>5. ChainOK(b, w, from, q + k, C[k + 1])
    OBVIOUS
  <2>6. ChainOK(b, w, from, (q + k) + 1, ChainAfter(b, C[k + 1], mt))
    BY <2>1, <2>2, <2>4, <2>5, ChainStep
  <2> QED BY <2>1, <2>2, <2>6
<1>5. n \in S
  <2>1. 0 .. n \subseteq S
    <3> HIDE DEF S
    <3> QED BY <1>2, <1>3, <1>4, UpInterval
  <2>2. n \in 0 .. n
    OBVIOUS
  <2> QED BY <2>1, <2>2
<1> QED BY <1>1, <1>5

LEMMA WalkedOn ==
  ASSUME NEW b, WellFormed(b), NEW sets \in Seq(SUBSET Alphabet), NEW k \in 0 .. Len(sets) - 1,
         NEW K, Walked(b, SubSeq(sets, 1, k), K),
         NEW mt, Class(b, mt), mt \cap sets[k + 1] # {}, ChainAfter(b, K, mt) \in SUBSET Cand(b)
  PROVE  Walked(b, SubSeq(sets, 1, k + 1), ChainAfter(b, K, mt))
<1> DEFINE s1 == SubSeq(sets, 1, k)
           s2 == SubSeq(sets, 1, k + 1)
           N == ChainAfter(b, K, mt)
<1>1. k \in Nat /\ Len(sets) \in Nat
  OBVIOUS
<1>2. Len(s1) = k /\ \A i \in 1 .. k : s1[i] = sets[i]
  BY <1>1
<1>3. Len(s2) = k + 1 /\ \A i \in 1 .. k + 1 : s2[i] = sets[i]
  BY <1>1
<1>4. PICK C \in Seq(SUBSET Cand(b)) : Path(b, s1, C, K)
  BY DEF Walked
<1> HIDE DEF s1, s2, N
<1> DEFINE D == Append(C, N)
<1>5. Len(C) = k + 1 /\ C[1] = {} /\ C[k + 1] = K
  BY <1>2, <1>4 DEF Path
<1>6. N \in SUBSET Cand(b)
  BY DEF N
<1>7. D \in Seq(SUBSET Cand(b)) /\ Len(D) = (k + 1) + 1 /\ D[(k + 1) + 1] = N /\ \A i \in 1 .. k + 1 : D[i] = C[i]
  BY <1>1, <1>5, <1>6
<1> HIDE DEF D
<1>8. ASSUME NEW i \in 1 .. k + 1
      PROVE  \E m \in SUBSET Alphabet : Class(b, m) /\ m \cap s2[i] # {} /\ D[i + 1] = ChainAfter(b, D[i], m)
  <2>1. CASE i = k + 1
    <3>1. mt \in SUBSET Alphabet
      BY DEF Class
    <3>2. s2[i] = sets[k + 1] /\ D[i + 1] = N /\ D[i] = K
      BY <1>1, <1>3, <1>5, <1>7, <2>1
    <3> QED BY <3>1, <3>2 DEF N
  <2>2. CASE i # k + 1
    <3>1. i \in 1 .. k /\ i + 1 \in 1 .. k + 1
      <4>1. k \in Nat /\ i \in 1 .. k + 1 /\ i # k + 1
        BY <1>1, <2>2
      <4> QED BY ONLY <4>1
    <3>2. PICK m \in SUBSET Alphabet : Class(b, m) /\ m \cap s1[i] # {} /\ C[i + 1] = ChainAfter(b, C[i], m)
      BY <1>2, <1>4, <3>1 DEF Path
    <3>3. s2[i] = s1[i] /\ D[i] = C[i] /\ D[i + 1] = C[i + 1]
      BY <1>2, <1>3, <1>7, <3>1
    <3> QED BY <3>2, <3>3
  <2> QED BY <2>1, <2>2
<1>9. D[1] = {}
  <2>1. 1 \in 1 .. k + 1
    BY <1>1
  <2> QED BY <1>5, <1>7, <2>1
<1>10. Path(b, s2, D, N)
  BY <1>3, <1>7, <1>8, <1>9 DEF Path
<1>11. Walked(b, s2, N)
  BY <1>7, <1>10 DEF Walked
<1> QED BY <1>11 DEF s2, N

\* what calc_prefix_sets has found where it stops
Singles(G) == \A k \in 1 .. Len(G) : \E x : G[k] = {x}
StopsAt(b, X) == AnyNonbeginNullable(b, X) \/ Cardinality(Targets(b, X)) # 1
Cut16(X) == SubSeq(X, 1, Lesser(Len(X), MaxPrefix))

LEMMA SameFrontiers ==
  ASSUME NEW b, NEW X, NEW F, Frontiers(b, X, F), NEW Y, NEW G, Frontiers(b, Y, G), NEW n \in Nat,
         Len(X) \in Nat, Len(Y) \in Nat, n <= Len(X), n <= Len(Y)
  PROVE  /\ \A k \in 1 .. n + 1 : F[k] = G[k]
         /\ \A k \in 1 .. n : X[k] = Y[k]
<1> DEFINE S == {k \in 0 .. n : F[k + 1] = G[k + 1]}
<1>1. 0 \in S
  <2>1. F[1] = G[1]
    BY DEF Frontiers
  <2>2. 0 \in 0 .. n /\ 0 + 1 = 1
    OBVIOUS
  <2>3. F[0 + 1] = G[0 + 1]
    BY <2>1, <2>2
  <2> QED BY <2>2, <2>3
<1>2. \A k \in 0 .. n - 1 : k \in S => k + 1 \in S
  <2> SUFFICES ASSUME NEW k \in 0 .. n - 1, F[k + 1] = G[k + 1] PROVE F[(k + 1) + 1] = G[(k + 1) + 1]
    OBVIOUS
  <2>1. k + 1 \in 1 .. Len(X) /\ k + 1 \in 1 .. Len(Y)
    OBVIOUS
  <2> QED BY <2>1 DEF Frontiers
<1>3. \A k \in 0 .. n : k \in S
  <2> HIDE DEF S
  <2> QED BY <1>1, <1>2, UpInterval
<1>4. \A k \in 1 .. n + 1 : F[k] = G[k]
  <2> SUFFICES ASSUME NEW k \in 1 .. n + 1 PROVE F[k] = G[k]
    OBVIOUS
  <2>1. k - 1 \in 0 .. n /\ (k - 1) + 1 = k
    OBVIOUS
  <2>2. k - 1 \in S
    BY <1>3, <2>1
  <2> QED BY <2>1, <2>2
<1>5. \A k \in 1 .. n : X[k] = Y[k]
  <2> SUFFICES ASSUME NEW k \in 1 .. n PROVE X[k] = Y[k]
    OBVIOUS
  <2>1. k \in 1 .. Len(X) /\ k \in 1 .. Len(Y) /\ k \in 1 .. n + 1
    OBVIOUS
  <2>2. X[k] = BytesOn(b, F[k]) /\ Y[k] = BytesOn(b, G[k])
    BY <2>1 DEF Frontiers
  <2> QED BY <1>4, <2>1, <2>2
<1> QED BY <1>4, <1>5

\* from one node by one byte there is one node to go on to
LEMMA OneByteOneNode ==
  ASSUME NEW b, NEW x, NEW c, BytesOn(b, {x}) = {c}
  PROVE  Cardinality(Targets(b, {x})) = 1
<1>1. c \in Alphabet /\ b.der[x][c] # BotId
  BY DEF BytesOn
<1>2. \A y \in Alphabet : b.der[x][y] # BotId => y = c
  BY DEF BytesOn
<1>3. Targets(b, {x}) = {b.der[x][c]}
  <2>1. b.der[x][c] \in Targets(b, {x})
    BY <1>1 DEF Targets
  <2>2. \A t \in Targets(b, {x}) : t = b.der[x][c]
    BY <1>2 DEF Targets
  <2> QED BY <2>1, <2>2
<1> QED BY <1>3, FS_Singleton

\* a literal that calc_potential_start finds has been found by calc_prefix_sets before
LEMMA PotentialLiteral ==
  ASSUME NEW b, WellFormed(b), NEW Y \in Seq(SUBSET Alphabet), NEW F, Frontiers(b, Y, F), Literal(Y),
         Len(Y) <= MaxPrefix, Len(Y) = MaxPrefix \/ StopsAt(b, F[Len(Y) + 1]) \/ Cardinality(F[Len(Y) + 1]) > MaxFrontier,
         NEW X \in Seq(SUBSET Alphabet), NEW G, Frontiers(b, X, G), Singles(G), StopsAt(b, G[Len(X) + 1])
  PROVE  Y = Cut16(X)
<1> DEFINE n == Len(Y)
           m == Len(X)
<1>1. n \in Nat /\ m \in Nat /\ MaxPrefix \in Nat /\ MaxFrontier \in Nat /\ MaxFrontier >= 1 /\ Len(G) = m + 1
  BY BdfaAssumption DEF Frontiers
<1>2. ~(m < n)
  <2> SUFFICES ASSUME m < n PROVE FALSE
    OBVIOUS
  <2>1. m + 1 \in 1 .. n /\ m + 1 \in 1 .. m + 1 /\ m <= n
    BY <1>1
  <2>2. F[m + 1] = G[m + 1]
    BY <1>1, <2>1, SameFrontiers
  <2>3. PICK x : F[m + 1] = {x}
    BY <1>1, <2>1, <2>2 DEF Singles
  <2>4. Y[m + 1] = BytesOn(b, {x}) /\ ~AnyNonbeginNullable(b, F[m + 1])
    BY <2>1, <2>3 DEF Frontiers
  <2>5. Y[m + 1] \in SUBSET Alphabet /\ Cardinality(Y[m + 1]) = 1
    BY <1>1, <2>1 DEF Literal
  <2>6. IsFiniteSet(Y[m + 1])
    BY <2>5, AlphabetAssumption, FS_Subset
  <2>7. PICK c : Y[m + 1] = {c}
    BY <2>5, <2>6, FS_Singleton
  <2>8. Cardinality(Targets(b, {x})) = 1
    BY <2>4, <2>7, OneByteOneNode
  <2> QED BY <2>2, <2>3, <2>4, <2>8 DEF StopsAt
<1>3. n <= m
  BY <1>1, <1>2
<1>4. (\A k \in 1 .. n + 1 : F[k] = G[k]) /\ \A k \in 1 .. n : Y[k] = X[k]
  BY <1>1, <1>3, SameFrontiers
<1>5. n = Lesser(m, MaxPrefix)
  <2>1. CASE n = m
    BY <1>1, <2>1 DEF Lesser
  <2>2. CASE n # m
    <3>1. n + 1 \in 1 .. m /\ (n + 1) + 1 \in 1 .. m + 1 /\ n + 1 \in 1 .. n + 1 /\ n + 1 \in 1 .. m + 1
      BY <1>1, <1>3, <2>2
    <3>2. ~AnyNonbeginNullable(b, F[n + 1]) /\ G[(n + 1) + 1] = Targets(b, F[n + 1])
      BY <1>4, <3>1 DEF Frontiers
    <3>3. Cardinality(Targets(b, F[n + 1])) = 1
      <4>1. \E x : G[(n + 1) + 1] = {x}
        BY <1>1, <3>1 DEF Singles
      <4> QED BY <3>2, <4>1, FS_Singleton
    <3>4. Cardinality(F[n + 1]) = 1
      <4>1. \E x : G[n + 1] = {x}
        BY <1>1, <3>1 DEF Singles
      <4> QED BY <1>4, <3>1, <4>1, FS_Singleton, ZenonT(40)
    <3>5. n = MaxPrefix
      BY <1>1, <3>2, <3>3, <3>4 DEF StopsAt
    <3> QED BY <1>1, <1>3, <3>5 DEF Lesser
  <2> QED BY <2>1, <2>2
<1> HIDE DEF n, m
<1>6. /\ SubSeq(X, 1, n) \in Seq(SUBSET Alphabet) /\ Len(SubSeq(X, 1, n)) = n
      /\ \A k \in 1 .. n : SubSeq(X, 1, n)[k] = X[k]
  BY <1>1, <1>3 DEF m
<1>7. Y = SubSeq(X, 1, n)
  BY <1>4, <1>6, SeqEqual DEF n
<1> QED BY <1>5, <1>7 DEF Cut16, m

(***************************************************************************)
(* The invariant: what holds of the partition, of the sets found so far,   *)
(* and of a scan under way.                                                *)
(***************************************************************************)
Building == {"minterms", "prefix", "potential", "through"}
BdfaPhases == Building \cup {"idle", "scan", "walk", "pending", "fill"}
TypesOK ==
  /\ regex \in BoundedRegexes /\ input \in Seq(Alphabet) /\ calls \in Nat
  /\ phase \in BdfaPhases /\ state \in 1 .. Len(dfa.states)
  /\ phase \in Building => calls = 0
  /\ phase # "fill" => filled = <<>>
CutOK ==
  phase = "minterms" =>
    /\ CellsOK(regex.tests \ uncut, cells) /\ uncut \subseteq regex.tests
    /\ dfa = NewDfa(<<Alphabet>>) /\ found = <<>> /\ left = 0 /\ state = Initial
TablesOK == phase # "minterms" => DfaOK(regex, dfa) /\ PrefixOK(regex, dfa)

\* the sets found so far, and the nodes to go on from
FoundBy(b, F, sets, nodes) ==
  sets \in Seq(SUBSET Alphabet) /\ F \in Seq(SUBSET Bodies(b)) /\ Frontiers(b, sets, F) /\ F[Len(F)] = nodes
FoundAlone(b, sets, nodes) == \E F : FoundBy(b, F, sets, nodes) /\ Singles(F)
FoundSome(b, sets, nodes) == \E F : FoundBy(b, F, sets, nodes)
\* the prefix that there is is not worth a search
NotUseful(b) == Barren(b) \/ \E X, nodes : FoundAlone(b, X, nodes) /\ StopsAt(b, nodes) /\ ~Useful(Cut16(X))
NoPrefix == dfa.prefix = "none" /\ dfa.after = Initial
SearchesOK ==
  /\ phase = "prefix" => NoPrefix /\ left = 0 /\ state = Initial /\ FoundAlone(regex, found, frontier)
  /\ phase = "potential" =>
       NoPrefix /\ left = 0 /\ state = Initial /\ FoundSome(regex, found, frontier) /\ Len(found) <= MaxPrefix
       /\ NotUseful(regex)
  /\ phase = "through" =>
       NoPrefix /\ found \in Seq(SUBSET Alphabet) /\ Leads(regex, found) /\ Useful(found) /\ left \in 0 .. Len(found)
       /\ Walked(regex, SubSeq(found, 1, left), dfa.states[state])

\* p is as far as the matches and the chain K of a scan say
Scanned(b, w, ms, p, K) == MatchesOK(b, w, ms) /\ p \in LastEnd(ms) .. Len(w) /\ ChainOK(b, w, LastEnd(ms), p, K)
ScansOK ==
  phase \in {"scan", "walk"} =>
    /\ Scanned(regex, input, matches, pos, dfa.states[state])
    /\ phase = "scan" => ~Finished(dfa.states[state])
\* to go through the prefix there are n bytes left
ToWalk(d, w, p, s, n) ==
  /\ d.prefix # "none" /\ n \in 0 .. Len(d.sets) /\ \A c \in d.states[s] : c.step + n <= Len(d.sets)
  /\ n = Len(d.sets) => s = Initial /\ p < Len(w) /\ w[p + 1] \in d.sets[1]
WalksOK == phase = "walk" => ToWalk(dfa, input, pos, state, left)
EndsOK ==
  /\ phase = "pending" => MatchesOK(regex, input, matches) /\ PendingSet(regex, input, LastEnd(matches), cands)
  /\ phase = "fill" =>
       /\ MatchesOK(regex, input, matches) /\ NoMore(regex, input, LastEnd(matches))
       /\ regex.null[regex.pattern] # Never /\ left \in 0 .. Len(matches)
       /\ Fills(regex, input, filled, EndBefore(matches, left + 1))
BdfaOK ==
  /\ TypesOK /\ CutOK /\ TablesOK /\ SearchesOK
  /\ ScansOK /\ WalksOK /\ EndsOK /\ ScanExact

LEMMA InitOK == BdfaInit => BdfaOK
<1> SUFFICES ASSUME BdfaInit PROVE BdfaOK
  OBVIOUS
<1>1. /\ regex \in BoundedRegexes /\ uncut = regex.tests /\ cells = Uncut /\ found = <<>> /\ left = 0 /\ state = Initial
      /\ dfa = NewDfa(<<Alphabet>>) /\ calls = 0 /\ phase = "minterms" /\ input = <<>> /\ filled = <<>>
  BY DEF BdfaInit
<1>2. dfa.states = << {} >> /\ Len(dfa.states) = 1
  BY <1>1 DEF NewDfa
<1>3. TypesOK
  <2>1. input \in Seq(Alphabet)
    BY <1>1
  <2>2. state \in 1 .. Len(dfa.states)
    BY <1>2, <1>1 DEF Initial
  <2>3. phase \in BdfaPhases /\ calls \in Nat
    BY <1>1 DEF Building, BdfaPhases
  <2> QED
    BY ONLY <1>1, <2>1, <2>2, <2>3 DEF TypesOK
<1>4. CutOK
  <2>1. regex.tests \ uncut = {}
    BY <1>1
  <2> QED
    BY <1>1, <2>1, UncutOK DEF CutOK
<1>5. TablesOK /\ SearchesOK /\ ScansOK /\ WalksOK /\ EndsOK /\ ScanExact
  BY <1>1 DEF TablesOK, SearchesOK, ScansOK, WalksOK, EndsOK, ScanExact
<1> QED
  BY <1>3, <1>4, <1>5 DEF BdfaOK

LEMMA RegexOK ==
  ASSUME TypesOK PROVE WellFormed(regex)
BY BdfaAssumption DEF TypesOK

LEMMA PrefixExtends ==
  ASSUME NEW b, NEW d, NEW e, Extends(d, e), PrefixOK(b, d) PROVE PrefixOK(b, e)
<1>1. /\ e.prefix = d.prefix /\ e.sets = d.sets /\ e.after = d.after /\ d.after \in 1 .. Len(d.states)
      /\ Len(d.states) \in Nat /\ Len(e.states) \in Nat /\ Len(d.states) <= Len(e.states)
      /\ e.states[d.after] = d.states[d.after]
  BY DEF Extends, PrefixOK
<1>2. e.after \in 1 .. Len(e.states) /\ e.states[e.after] = d.states[d.after]
  BY <1>1
<1> QED
  BY <1>1, <1>2 DEF PrefixOK

(***************************************************************************)
(* The steps of new.                                                       *)
(***************************************************************************)
LEMMA BuildKeeps ==
  ASSUME calls = 0, calls' = calls, phase' \in Building \cup {"idle"}
  PROVE  ScansOK' /\ WalksOK' /\ EndsOK' /\ ScanExact'
<1>1. phase' \notin {"scan", "walk"} /\ phase' \notin {"pending", "fill"} /\ ~(calls' > 0)
  BY DEF Building
<1> QED
  BY <1>1 DEF ScansOK, WalksOK, EndsOK, ScanExact

LEMMA CutStep ==
  ASSUME BdfaOK, NEW S \in uncut, Cut(S) PROVE BdfaOK'
<1>1. /\ phase = "minterms" /\ cells' = Refine(cells, S) /\ uncut' = uncut \ {S}
      /\ regex' = regex /\ found' = found /\ dfa' = dfa /\ phase' = phase /\ state' = state /\ left' = left
      /\ calls' = calls /\ input' = input /\ filled' = filled
  BY DEF Cut, scanVars
<1>2. TypesOK /\ CutOK
  BY DEF BdfaOK
<1>3. calls = 0 /\ CellsOK(regex.tests \ uncut, cells) /\ uncut \subseteq regex.tests
  BY <1>1, <1>2 DEF TypesOK, CutOK, Building
<1>4. TypesOK'
  BY <1>1, <1>2 DEF TypesOK
<1>5. CutOK'
  <2>1. CellsOK((regex.tests \ uncut) \cup {S}, cells')
    BY <1>1, <1>3, RefineOK
  <2>2. (regex.tests \ uncut) \cup {S} = regex'.tests \ uncut' /\ uncut' \subseteq regex'.tests
    BY <1>1, <1>3
  <2> QED
    BY <1>1, <1>2, <2>1, <2>2 DEF CutOK
<1>6. TablesOK' /\ SearchesOK'
  BY <1>1 DEF TablesOK, SearchesOK
<1>7. ScansOK' /\ WalksOK' /\ EndsOK' /\ ScanExact'
  BY <1>1, <1>3, BuildKeeps DEF Building
<1> QED
  BY <1>4, <1>5, <1>6, <1>7 DEF BdfaOK

LEMMA EmptySequence ==
  ASSUME NEW S PROVE <<>> \in Seq(S) /\ Len(<<>>) = 0
  OBVIOUS
LEMMA OneElement ==
  ASSUME NEW S, NEW x \in S PROVE <<x>> \in Seq(S) /\ Len(<<x>>) = 1 /\ <<x>>[1] = x
  OBVIOUS

LEMMA FoundNothing ==
  ASSUME NEW b, WellFormed(b) PROVE FoundAlone(b, <<>>, {b.pattern}) /\ FoundSome(b, <<>>, {b.pattern})
<1> DEFINE F == << {b.pattern} >>
<1>1. {b.pattern} \in SUBSET Bodies(b)
  BY RegexFacts
<1>2. F \in Seq(SUBSET Bodies(b)) /\ Len(F) = 1 /\ F[1] = {b.pattern}
  BY <1>1, OneElement
<1> HIDE DEF F
<1>3. Frontiers(b, <<>>, F)
  BY <1>2 DEF Frontiers
<1>4. Singles(F)
  <2>1. ASSUME NEW k \in 1 .. Len(F) PROVE \E x : F[k] = {x}
    <3>1. k = 1
      BY <1>2
    <3> QED
      BY <1>2, <3>1
  <2> QED
    BY <2>1 DEF Singles
<1>5. FoundBy(b, F, <<>>, {b.pattern})
  BY <1>2, <1>3 DEF FoundBy
<1> QED
  BY <1>4, <1>5 DEF FoundAlone, FoundSome

LEMMA NewDfaOK ==
  ASSUME NEW b, WellFormed(b), NEW ms, ClassesOK(b, NewDfa(ms))
  PROVE  DfaOK(b, NewDfa(ms)) /\ PrefixOK(b, NewDfa(ms)) /\ NewDfa(ms).prefix = "none" /\ NewDfa(ms).after = Initial
         /\ Initial \in 1 .. Len(NewDfa(ms).states) /\ NewDfa(ms).states[Initial] = {}
<1> DEFINE d == NewDfa(ms)
<1>1. d = [minterms |-> ms, lookup |-> MintermsLookup(ms), states |-> << {} >>, table |-> <<>>,
           prefix |-> "none", sets |-> <<>>, after |-> Initial]
  BY DEF NewDfa
<1>2. ClassesOK(b, d)
  OBVIOUS
<1> HIDE DEF d
<1>3. d.states = << {} >> /\ d.table = <<>> /\ d.prefix = "none" /\ d.after = Initial
  BY <1>1
<1>4. {} \in SUBSET Cand(b)
  OBVIOUS
<1>5. d.states \in Seq(SUBSET Cand(b)) /\ Len(d.states) = 1 /\ d.states[1] = {}
  BY <1>3, <1>4, OneElement
<1>6. DOMAIN d.table = {} /\ d.table \in [DOMAIN d.table -> Nat]
  BY <1>3
<1>7. DfaShape(d)
  BY <1>1, <1>6 DEF DfaShape
<1>8. StatesOK(b, d)
  <2>1. StateOK(b, {})
    BY DEF StateOK
  <2>2. \A s \in 1 .. Len(d.states) : s = 1
    BY <1>5
  <2>3. \A s \in 1 .. Len(d.states) : d.states[s] = {}
    BY <1>5, <2>2
  <2>4. \A s \in 1 .. Len(d.states) : StateOK(b, d.states[s])
    BY <2>1, <2>3
  <2>5. \A s, t \in 1 .. Len(d.states) : d.states[s] = d.states[t] => s = t
    BY <2>2
  <2> QED
    BY ONLY <1>5, <2>4, <2>5 DEF StatesOK
<1>9. TableOK(b, d)
  BY <1>6 DEF TableOK
<1>10. PrefixOK(b, d)
  BY <1>3, <1>5 DEF PrefixOK, Initial
<1>11. Initial \in 1 .. Len(d.states) /\ d.states[Initial] = {}
  BY <1>5 DEF Initial
<1> QED
  BY <1>2, <1>3, <1>7, <1>8, <1>9, <1>10, <1>11 DEF DfaOK, d

LEMMA GenerateStep ==
  ASSUME BdfaOK, NEW order \in Orders(cells.rest), Generate(order) PROVE BdfaOK'
<1>1. /\ phase = "minterms" /\ uncut = {} /\ dfa' = NewDfa(GenerateMinterms(cells, order))
      /\ phase' \in {"prefix", "idle"} /\ frontier' = {regex.pattern}
      /\ regex' = regex /\ found' = found /\ state' = state /\ left' = left
      /\ calls' = calls /\ input' = input /\ filled' = filled
  BY DEF Generate, scanVars
<1>2. TypesOK /\ CutOK
  BY DEF BdfaOK
<1>3. WellFormed(regex)
  BY <1>2, RegexOK
<1>4. calls = 0 /\ CellsOK(regex.tests \ uncut, cells) /\ found = <<>> /\ left = 0 /\ state = Initial
  BY <1>1, <1>2 DEF TypesOK, CutOK, Building
<1>5. CellsOK(regex.tests, cells)
  <2>1. regex.tests \ uncut = regex.tests
    BY <1>1
  <2> QED
    BY <1>4, <2>1
<1>6. DfaOK(regex, dfa') /\ PrefixOK(regex, dfa') /\ dfa'.prefix = "none" /\ dfa'.after = Initial
      /\ Initial \in 1 .. Len(dfa'.states)
  BY <1>1, <1>3, <1>5, MintermsOK, NewDfaOK
<1>7. TypesOK'
  <2>1. phase' \in BdfaPhases /\ (phase' \in Building => calls' = 0) /\ (phase' # "fill" => filled' = <<>>)
    BY <1>1, <1>2, <1>4 DEF TypesOK, BdfaPhases, Building
  <2> QED
    BY <1>1, <1>2, <1>4, <1>6, <2>1 DEF TypesOK
<1>8. CutOK' /\ TablesOK'
  BY <1>1, <1>6 DEF CutOK, TablesOK
<1>9. SearchesOK'
  <2>1. FoundAlone(regex', found', frontier')
    BY <1>1, <1>3, <1>4, FoundNothing
  <2> QED
    BY <1>1, <1>4, <1>6, <2>1 DEF SearchesOK, NoPrefix
<1>10. ScansOK' /\ WalksOK' /\ EndsOK' /\ ScanExact'
  BY <1>1, <1>4, BuildKeeps DEF Building
<1> QED
  BY <1>7, <1>8, <1>9, <1>10 DEF BdfaOK

LEMMA NodesFinite ==
  ASSUME NEW b, WellFormed(b), NEW F, NEW sets, NEW nodes, FoundBy(b, F, sets, nodes)
  PROVE  /\ Len(F) = Len(sets) + 1 /\ Len(sets) \in Nat /\ F[Len(sets) + 1] = nodes /\ F[Len(F)] = nodes
         /\ Cardinality(nodes) \in Nat
         /\ IsFiniteSet(Targets(b, nodes)) /\ Cardinality(Targets(b, nodes)) \in Nat
         /\ (Cardinality(Targets(b, nodes)) = 0 <=> Targets(b, nodes) = {})
<1>1. /\ sets \in Seq(SUBSET Alphabet) /\ F \in Seq(SUBSET Bodies(b)) /\ Frontiers(b, sets, F) /\ F[Len(F)] = nodes
  BY DEF FoundBy
<1>2. Len(F) = Len(sets) + 1 /\ Len(sets) \in Nat
  BY <1>1 DEF Frontiers
<1>3. nodes \subseteq Bodies(b)
  <2>1. Len(sets) + 1 \in 1 .. Len(sets) + 1
    BY <1>2
  <2> QED
    BY <1>1, <1>2, <2>1, FrontiersIn
<1>4. Targets(b, nodes) \subseteq Bodies(b)
  <2>1. b.der \in [Bodies(b) -> [Alphabet -> Bodies(b)]]
    BY RegexFacts
  <2> QED
    BY <1>3, <2>1 DEF Targets
<1>5. IsFiniteSet(Bodies(b))
  <2>1. Len(b.der) \in Nat
    BY DEF WellFormed
  <2> QED
    BY <2>1, FS_Interval DEF Bodies
<1>6. IsFiniteSet(nodes) /\ IsFiniteSet(Targets(b, nodes))
  BY <1>3, <1>4, <1>5, FS_Subset
<1> QED
  BY <1>1, <1>2, <1>6, FS_CardinalityType, FS_EmptySet

LEMMA FollowOn ==
  ASSUME NEW b, WellFormed(b), NEW F, NEW sets, NEW nodes, FoundBy(b, F, sets, nodes),
         ~AnyNonbeginNullable(b, nodes), Targets(b, nodes) # {}
  PROVE  /\ FoundSome(b, Append(sets, BytesOn(b, nodes)), Targets(b, nodes))
         /\ Len(Append(sets, BytesOn(b, nodes))) = Len(sets) + 1
         /\ (Singles(F) /\ Cardinality(Targets(b, nodes)) = 1 => FoundAlone(b, Append(sets, BytesOn(b, nodes)), Targets(b, nodes)))
<1> DEFINE t == Append(sets, BytesOn(b, nodes))
           G == Append(F, Targets(b, nodes))
<1>1. /\ sets \in Seq(SUBSET Alphabet) /\ F \in Seq(SUBSET Bodies(b)) /\ Frontiers(b, sets, F) /\ F[Len(F)] = nodes
  BY DEF FoundBy
<1>2. /\ t \in Seq(SUBSET Alphabet) /\ G \in Seq(SUBSET Bodies(b)) /\ Frontiers(b, t, G)
      /\ G[Len(F) + 1] = Targets(b, nodes) /\ Len(G) = Len(F) + 1 /\ Len(t) = Len(sets) + 1
  <2>1. WellFormed(b) /\ ~AnyNonbeginNullable(b, nodes) /\ Targets(b, nodes) # {}
    OBVIOUS
  <2>2. OnFrom(b, sets, F, nodes)
    BY ONLY <1>1, <2>1, FrontiersOn
  <2> QED
    BY <2>2 DEF OnFrom
<1> HIDE DEF t, G
<1>3. FoundBy(b, G, t, Targets(b, nodes))
  BY <1>2 DEF FoundBy
<1>4. ASSUME Singles(F), Cardinality(Targets(b, nodes)) = 1 PROVE Singles(G)
  <2>1. \E x : Targets(b, nodes) = {x}
    <3>1. IsFiniteSet(Targets(b, nodes))
      BY NodesFinite
    <3> QED
      BY <1>4, <3>1, FS_Singleton
  <2>2. Len(F) \in Nat /\ \A k \in 1 .. Len(F) : G[k] = F[k]
    BY <1>1 DEF G
  <2>3. ASSUME NEW k \in 1 .. Len(G) PROVE \E x : G[k] = {x}
    <3>1. k \in 1 .. Len(F) \/ k = Len(F) + 1
      BY <1>2, <2>2
    <3>2. CASE k \in 1 .. Len(F)
      <4>1. \E x : F[k] = {x}
        BY <1>4, <3>2 DEF Singles
      <4> QED
        BY <2>2, <3>2, <4>1
    <3>3. CASE k = Len(F) + 1
      BY <1>2, <2>1, <3>3
    <3> QED
      BY <3>1, <3>2, <3>3
  <2> QED
    BY <2>3 DEF Singles
<1> QED
  BY <1>2, <1>3, <1>4 DEF FoundSome, FoundAlone, t

LEMMA PrefixSetStep ==
  ASSUME BdfaOK, PrefixSet PROVE BdfaOK'
<1>1. /\ phase = "prefix" /\ ~AnyNonbeginNullable(regex, frontier) /\ Cardinality(Targets(regex, frontier)) = 1
      /\ found' = Append(found, BytesOn(regex, frontier)) /\ frontier' = Targets(regex, frontier)
      /\ regex' = regex /\ dfa' = dfa /\ phase' = phase /\ state' = state /\ left' = left
      /\ calls' = calls /\ input' = input /\ filled' = filled
  BY DEF PrefixSet, PrefixGoesOn, Follow, scanVars
<1>2. TypesOK /\ TablesOK /\ SearchesOK
  BY DEF BdfaOK
<1>3. WellFormed(regex)
  BY <1>2, RegexOK
<1>4. calls = 0 /\ NoPrefix /\ left = 0 /\ state = Initial /\ FoundAlone(regex, found, frontier)
  BY <1>1, <1>2 DEF TypesOK, SearchesOK, Building
<1>5. FoundAlone(regex, found', frontier')
  <2>1. PICK F : FoundBy(regex, F, found, frontier) /\ Singles(F)
    BY <1>4 DEF FoundAlone
  <2>2. Targets(regex, frontier) # {}
    <3>1. Cardinality(Targets(regex, frontier)) # 0
      BY <1>1
    <3> QED
      BY <1>3, <2>1, <3>1, NodesFinite
  <2> QED
    BY <1>1, <1>3, <2>1, <2>2, FollowOn
<1>6. TypesOK'
  BY <1>1, <1>2 DEF TypesOK
<1>7. CutOK' /\ TablesOK'
  BY <1>1, <1>2 DEF CutOK, TablesOK
<1>8. SearchesOK'
  BY <1>1, <1>4, <1>5 DEF SearchesOK, NoPrefix
<1>9. ScansOK' /\ WalksOK' /\ EndsOK' /\ ScanExact'
  BY <1>1, <1>4, BuildKeeps DEF Building
<1> QED
  BY <1>6, <1>7, <1>8, <1>9 DEF BdfaOK

LEMMA PotentialSetStep ==
  ASSUME BdfaOK, PotentialSet PROVE BdfaOK'
<1>1. /\ phase = "potential" /\ Len(found) < MaxPrefix /\ ~AnyNonbeginNullable(regex, frontier) /\ Targets(regex, frontier) # {}
      /\ found' = Append(found, BytesOn(regex, frontier)) /\ frontier' = Targets(regex, frontier)
      /\ regex' = regex /\ rare' = rare /\ dfa' = dfa /\ phase' = phase /\ state' = state /\ left' = left
      /\ calls' = calls /\ input' = input /\ filled' = filled
  BY DEF PotentialSet, PotentialGoesOn, Follow, scanVars
<1>2. TypesOK /\ TablesOK /\ SearchesOK
  BY DEF BdfaOK
<1>3. WellFormed(regex)
  BY <1>2, RegexOK
<1>4. calls = 0 /\ NoPrefix /\ left = 0 /\ state = Initial /\ FoundSome(regex, found, frontier) /\ NotUseful(regex)
  BY <1>1, <1>2 DEF TypesOK, SearchesOK, Building
<1>5. FoundSome(regex, found', frontier') /\ Len(found') = Len(found) + 1 /\ Len(found) \in Nat
  <2>1. PICK F : FoundBy(regex, F, found, frontier)
    BY <1>4 DEF FoundSome
  <2>2. Len(found) \in Nat
    BY <1>3, <2>1, NodesFinite
  <2> QED
    BY <1>1, <1>3, <2>1, <2>2, FollowOn
<1>6. Len(found') <= MaxPrefix
  BY <1>1, <1>5, BdfaAssumption
<1>7. TypesOK'
  BY <1>1, <1>2 DEF TypesOK
<1>8. CutOK' /\ TablesOK'
  BY <1>1, <1>2 DEF CutOK, TablesOK
<1>9. SearchesOK'
  <2>1. NoPrefix' /\ left' = 0 /\ state' = Initial /\ FoundSome(regex, found, frontier)'
    BY <1>1, <1>4, <1>5 DEF NoPrefix
  <2>2. NotUseful(regex)'
    BY <1>1, <1>4 DEF NotUseful, Useful, Search
  <2> QED
    BY ONLY <1>1, <1>6, <2>1, <2>2 DEF SearchesOK
<1>10. ScansOK' /\ WalksOK' /\ EndsOK' /\ ScanExact'
  BY <1>1, <1>4, BuildKeeps DEF Building
<1> QED
  BY <1>7, <1>8, <1>9, <1>10 DEF BdfaOK

LEMMA NoSets ==
  ASSUME NEW b, NEW sets \in Seq(SUBSET Alphabet) PROVE Walked(b, SubSeq(sets, 1, 0), {})
<1> DEFINE C == << {} >>
<1>1. SubSeq(sets, 1, 0) = <<>>
  BY SubSeqProperties
<1>2. {} \in SUBSET Cand(b)
  OBVIOUS
<1>3. C \in Seq(SUBSET Cand(b)) /\ Len(C) = 1 /\ C[1] = {}
  BY <1>2, OneElement
<1> HIDE DEF C
<1>4. Path(b, <<>>, C, {})
  BY <1>3 DEF Path
<1> QED
  BY <1>1, <1>3, <1>4 DEF Walked

LEMMA LesserFacts ==
  ASSUME NEW m \in Nat, NEW n \in Nat
  PROVE  Lesser(m, n) \in 0 .. m /\ Lesser(m, n) <= n /\ (n > 0 /\ Lesser(m, n) = 0 => m = 0)
BY DEF Lesser

LEMMA BuildPrefixStep ==
  ASSUME BdfaOK, BuildPrefix PROVE BdfaOK'
<1>1. /\ phase = "prefix" /\ ~PrefixGoesOn
      /\ IF Useful(PrefixSets)
         THEN phase' = "through" /\ found' = PrefixSets /\ frontier' = frontier
         ELSE phase' = "potential" /\ found' = <<>> /\ frontier' = {regex.pattern}
      /\ regex' = regex /\ rare' = rare /\ dfa' = dfa /\ state' = state /\ left' = left
      /\ calls' = calls /\ input' = input /\ filled' = filled
  BY DEF BuildPrefix, scanVars
<1>2. TypesOK /\ TablesOK /\ SearchesOK
  BY DEF BdfaOK
<1>3. WellFormed(regex)
  BY <1>2, RegexOK
<1>4. /\ calls = 0 /\ NoPrefix /\ left = 0 /\ state = Initial /\ FoundAlone(regex, found, frontier)
      /\ DfaOK(regex, dfa)
  BY <1>1, <1>2 DEF TypesOK, SearchesOK, TablesOK, Building
<1>5. PICK F : FoundBy(regex, F, found, frontier) /\ Singles(F)
  BY <1>4 DEF FoundAlone
<1>6. /\ found \in Seq(SUBSET Alphabet) /\ F \in Seq(SUBSET Bodies(regex)) /\ Frontiers(regex, found, F)
      /\ Len(found) \in Nat /\ F[Len(found) + 1] = frontier
  BY <1>3, <1>5, NodesFinite DEF FoundBy
<1>7. StopsAt(regex, frontier)
  BY <1>1 DEF PrefixGoesOn, StopsAt
<1>8. MaxPrefix \in Nat
  BY BdfaAssumption
<1>9. (~Useful(PrefixSets) => NotUseful(regex)) /\ (Useful(PrefixSets) => PrefixSets = Cut16(found))
  <2>1. CASE ~AnyNonbeginNullable(regex, frontier) /\ Targets(regex, frontier) = {}
    <3>1. Barren(regex)
      BY <1>3, <1>6, <2>1, DeadEnd
    <3>2. Cleared = <<>> /\ Len(<<>>) = 0
      BY <2>1 DEF Cleared
    <3>3. Lesser(0, MaxPrefix) = 0
      BY <1>8 DEF Lesser
    <3>4. <<>> \in Seq(Nat)
      OBVIOUS
    <3>5. SubSeq(<<>>, 1, 0) = <<>>
      BY <3>4, SubSeqProperties
    <3>6. PrefixSets = <<>>
      BY <3>2, <3>3, <3>5 DEF PrefixSets
    <3> QED
      BY <3>1, <3>6 DEF NotUseful, Useful
  <2>2. CASE ~(~AnyNonbeginNullable(regex, frontier) /\ Targets(regex, frontier) = {})
    <3>1. PrefixSets = Cut16(found)
      BY <2>2 DEF PrefixSets, Cleared, Cut16
    <3> QED
      BY <1>4, <1>7, <3>1 DEF NotUseful
  <2> QED
    BY <2>1, <2>2
<1>10. TypesOK' /\ CutOK' /\ TablesOK'
  <2>1. phase' \in {"through", "potential"}
    BY <1>1
  <2>2. phase' \in BdfaPhases /\ phase' # "fill" /\ phase' # "minterms"
    BY <2>1 DEF BdfaPhases, Building
  <2>3. filled' = <<>>
    BY <1>1, <1>2 DEF TypesOK
  <2> QED
    BY <1>1, <1>2, <1>4, <2>2, <2>3 DEF TypesOK, CutOK, TablesOK
<1>11. SearchesOK'
  <2>1. CASE Useful(PrefixSets)
    <3> DEFINE n == Lesser(Len(found), MaxPrefix)
    <3>1. n \in 0 .. Len(found) /\ found' = SubSeq(found, 1, n) /\ phase' = "through"
      BY <1>1, <1>6, <1>8, <1>9, <2>1, LesserFacts DEF Cut16
    <3> HIDE DEF n
    <3>2. found' \in Seq(SUBSET Alphabet) /\ Leads(regex, found')
      BY <1>6, <3>1, FrontiersCut
    <3>3. dfa.states[state] = {}
      BY <1>4 DEF DfaOK, StatesOK, Initial
    <3>4. Walked(regex, SubSeq(found', 1, 0), {})
      BY <3>2, NoSets
    <3>5. Useful(found)'
      BY <1>1, <2>1 DEF Useful, Search
    <3>6. left' = 0 /\ left' \in 0 .. Len(found')
      BY <1>1, <1>4, <3>2
    <3>7. Walked(regex, SubSeq(found, 1, left), dfa.states[state])'
      BY <1>1, <3>3, <3>4, <3>6
    <3>8. NoPrefix'
      BY <1>1, <1>4 DEF NoPrefix
    <3> QED
      BY <1>1, <3>1, <3>2, <3>5, <3>6, <3>7, <3>8 DEF SearchesOK
  <2>2. CASE ~Useful(PrefixSets)
    <3>1. phase' = "potential" /\ found' = <<>> /\ frontier' = {regex.pattern}
      BY <1>1, <2>2
    <3>2. FoundSome(regex, found, frontier)'
      BY <1>1, <1>3, <3>1, FoundNothing
    <3>3. Len(found') <= MaxPrefix
      BY <1>8, <3>1
    <3>4. NotUseful(regex)'
      BY <1>1, <1>9, <2>2 DEF NotUseful, Useful, Search
    <3>5. NoPrefix' /\ left' = 0 /\ state' = Initial
      BY <1>1, <1>4 DEF NoPrefix
    <3> QED
      BY ONLY <3>1, <3>2, <3>3, <3>4, <3>5 DEF SearchesOK
  <2> QED
    BY <2>1, <2>2
<1>12. ScansOK' /\ WalksOK' /\ EndsOK' /\ ScanExact'
  <2>1. phase' \in Building \cup {"idle"}
    BY <1>1 DEF Building
  <2> QED
    BY <1>1, <1>4, <2>1, BuildKeeps
<1> QED
  BY <1>10, <1>11, <1>12 DEF BdfaOK

LEMMA LeadsBytes ==
  ASSUME NEW b, NEW sets, Leads(b, sets), NEW k \in 1 .. Len(sets) PROVE sets[k] # {}
<1>1. PICK F \in Seq(SUBSET Bodies(b)) : Frontiers(b, sets, F)
  BY DEF Leads
<1>2. sets[k] = BytesOn(b, F[k]) /\ Targets(b, F[k]) # {}
  BY <1>1 DEF Frontiers
<1> QED
  BY <1>2 DEF Targets, BytesOn

LEMMA FirstMintermFacts ==
  ASSUME NEW b, NEW d, DfaOK(b, d), NEW S \in SUBSET Alphabet, S # {}
  PROVE  FirstMinterm(d, S) \in 1 .. Len(d.minterms) /\ d.minterms[FirstMinterm(d, S)] \cap S # {}
<1> DEFINE I == {i \in 1 .. Len(d.minterms) : d.minterms[i] \cap S # {}}
<1>1. Len(d.minterms) \in Nat /\ \A c \in Alphabet : \E i \in 1 .. Len(d.minterms) : c \in d.minterms[i]
  BY DEF DfaOK, ClassesOK
<1>2. I # {} /\ I \in SUBSET Nat
  <2>1. PICK c \in Alphabet : c \in S
    OBVIOUS
  <2> QED
    BY <1>1, <2>1
<1>3. PICK m \in I : \A n \in I : m <= n
  BY <1>2, LeastNat
<1>4. m \in 1 .. Len(d.minterms) /\ d.minterms[m] \cap S # {} /\ \A j \in 1 .. m - 1 : d.minterms[j] \cap S = {}
  <2>1. ASSUME NEW j \in 1 .. m - 1, d.minterms[j] \cap S # {} PROVE FALSE
    <3>1. m \in 1 .. Len(d.minterms)
      OBVIOUS
    <3>2. j \in 1 .. Len(d.minterms) /\ ~(m <= j)
      BY <1>1, <3>1
    <3> QED
      BY <1>3, <2>1, <3>2
  <2> QED
    BY <2>1
<1> HIDE DEF I
<1> QED
  BY <1>4 DEF FirstMinterm

LEMMA ThroughStep ==
  ASSUME BdfaOK, Through PROVE BdfaOK'
<1> DEFINE mt == FirstMinterm(dfa, found[left + 1]) - 1
<1>1. /\ phase = "through" /\ left < Len(found)
      /\ dfa' = Filled(regex, dfa, state, mt) /\ state' = dfa'.table[<<state, mt>>] /\ left' = left + 1
      /\ regex' = regex /\ rare' = rare /\ found' = found /\ frontier' = frontier /\ phase' = phase
      /\ calls' = calls /\ input' = input /\ filled' = filled
  BY DEF Through, scanVars, buildVars
<1>2. TypesOK /\ TablesOK /\ SearchesOK
  BY DEF BdfaOK
<1>3. WellFormed(regex)
  BY <1>2, RegexOK
<1>4. /\ calls = 0 /\ NoPrefix /\ found \in Seq(SUBSET Alphabet) /\ Leads(regex, found) /\ Useful(found)
      /\ left \in 0 .. Len(found) /\ Walked(regex, SubSeq(found, 1, left), dfa.states[state])
      /\ DfaOK(regex, dfa) /\ PrefixOK(regex, dfa) /\ state \in 1 .. Len(dfa.states)
  BY <1>1, <1>2 DEF TypesOK, SearchesOK, TablesOK, Building
<1>5. left \in 0 .. Len(found) - 1 /\ left + 1 \in 1 .. Len(found) /\ left + 1 \in 0 .. Len(found) /\ Len(found) \in Nat
  BY <1>1, <1>4
<1>6. found[left + 1] \in SUBSET Alphabet /\ found[left + 1] # {}
  BY <1>4, <1>5, LeadsBytes
<1>7. /\ mt + 1 \in 1 .. Len(dfa.minterms) /\ dfa.minterms[mt + 1] \cap found[left + 1] # {}
      /\ mt \in 0 .. Len(dfa.minterms) - 1
  <2> DEFINE i == FirstMinterm(dfa, found[left + 1])
  <2>1. i \in 1 .. Len(dfa.minterms) /\ dfa.minterms[i] \cap found[left + 1] # {}
    BY <1>4, <1>6, FirstMintermFacts
  <2>2. Len(dfa.minterms) \in Nat
    BY <1>4 DEF DfaOK, ClassesOK
  <2> HIDE DEF i
  <2>3. i - 1 + 1 = i /\ i - 1 \in 0 .. Len(dfa.minterms) - 1
    BY <2>1, <2>2
  <2>4. mt = i - 1
    BY DEF i
  <2> HIDE DEF mt
  <2> QED
    BY <2>1, <2>3, <2>4
<1> HIDE DEF mt
<1>8. <<state, mt>> \in Entries(dfa)
  BY <1>4, <1>7 DEF Entries
<1>9. Leading(regex, dfa, dfa', state, mt)
  BY <1>1, <1>3, <1>4, <1>8, FilledOK
<1>10. /\ DfaOK(regex, dfa') /\ Extends(dfa, dfa') /\ state' \in 1 .. Len(dfa'.states)
       /\ dfa'.states[state'] = ChainAfter(regex, dfa.states[state], dfa.minterms[mt + 1])
  BY <1>1, <1>9 DEF Leading, Gives, NextChain
<1>11. Class(regex, dfa.minterms[mt + 1])
  BY <1>4, <1>7 DEF DfaOK, ClassesOK
<1>12. Walked(regex, SubSeq(found, 1, left + 1), dfa'.states[state'])
  <2>1. dfa'.states[state'] \in SUBSET Cand(regex)
    BY <1>10 DEF DfaOK, StatesOK
  <2> QED
    BY <1>3, <1>4, <1>5, <1>7, <1>10, <1>11, <2>1, WalkedOn
<1>13. TypesOK' /\ CutOK'
  BY <1>1, <1>2, <1>10 DEF TypesOK, CutOK
<1>14. TablesOK' /\ NoPrefix'
  <2>1. PrefixOK(regex, dfa')
    BY <1>4, <1>10, PrefixExtends
  <2> QED
    BY <1>1, <1>4, <1>10, <2>1 DEF TablesOK, NoPrefix, Extends
<1>15. SearchesOK'
  <2>1. Useful(found)'
    BY <1>1, <1>4 DEF Useful, Search
  <2>2. Walked(regex, SubSeq(found, 1, left), dfa.states[state])'
    BY <1>1, <1>12
  <2>3. phase' = "through" /\ found' \in Seq(SUBSET Alphabet) /\ Leads(regex', found') /\ left' \in 0 .. Len(found')
    BY <1>1, <1>4, <1>5
  <2> QED
    BY ONLY <1>14, <2>1, <2>2, <2>3 DEF SearchesOK
<1>16. ScansOK' /\ WalksOK' /\ EndsOK' /\ ScanExact'
  BY <1>1, <1>4, BuildKeeps DEF Building
<1> QED
  BY <1>13, <1>14, <1>15, <1>16 DEF BdfaOK

LEMMA PrefixedOK ==
  ASSUME NEW b, NEW d, DfaOK(b, d), NEW e,
         e = [minterms |-> d.minterms, lookup |-> d.lookup, states |-> d.states, table |-> d.table,
              prefix |-> e.prefix, sets |-> e.sets, after |-> e.after]
  PROVE  DfaOK(b, e) /\ e.states = d.states
<1>1. e.minterms = d.minterms /\ e.lookup = d.lookup /\ e.states = d.states /\ e.table = d.table
  OBVIOUS
<1>2. DfaShape(e)
  BY <1>1 DEF DfaShape, DfaOK
<1>3. ClassesOK(b, e)
  BY <1>1 DEF DfaOK, ClassesOK
<1>4. StatesOK(b, e)
  BY <1>1 DEF DfaOK, StatesOK
<1>5. TableOK(b, e)
  BY <1>1 DEF DfaOK, TableOK, Entries, NextChain
<1> QED
  BY <1>1, <1>2, <1>3, <1>4, <1>5 DEF DfaOK

LEMMA IdleAfter ==
  ASSUME BdfaOK, phase \in Building, phase' = "idle", DfaOK(regex, dfa'), PrefixOK(regex, dfa'), dfa'.states = dfa.states,
         regex' = regex, calls' = calls, input' = input, state' = state, filled' = filled
  PROVE  BdfaOK'
<1>1. TypesOK
  BY DEF BdfaOK
<1>2. calls = 0 /\ filled = <<>> /\ state' \in 1 .. Len(dfa'.states)
  BY <1>1 DEF TypesOK, Building
<1>3. TypesOK'
  BY <1>1, <1>2 DEF TypesOK, BdfaPhases, Building
<1>4. CutOK' /\ TablesOK' /\ SearchesOK'
  BY DEF CutOK, TablesOK, SearchesOK
<1>5. ScansOK' /\ WalksOK' /\ EndsOK' /\ ScanExact'
  BY <1>2, BuildKeeps
<1> QED
  BY <1>3, <1>4, <1>5 DEF BdfaOK

LEMMA SearchFacts ==
  ASSUME NEW sets
  PROVE  /\ Search(sets) \in {"none", "search", "literal"}
         /\ Search(sets) = "literal" => Literal(sets)
BY DEF Search

LEMMA SetPrefixStep ==
  ASSUME BdfaOK, SetPrefix PROVE BdfaOK'
<1>1. /\ phase = "through" /\ left = Len(found) /\ phase' = "idle"
      /\ dfa' = [dfa EXCEPT !.prefix = Search(found), !.sets = found, !.after = state]
      /\ regex' = regex /\ state' = state /\ calls' = calls /\ input' = input /\ filled' = filled
  BY DEF SetPrefix, scanVars
<1>2. TypesOK /\ TablesOK /\ SearchesOK
  BY DEF BdfaOK
<1>3. /\ found \in Seq(SUBSET Alphabet) /\ Leads(regex, found) /\ Useful(found)
      /\ Walked(regex, SubSeq(found, 1, left), dfa.states[state]) /\ DfaOK(regex, dfa) /\ state \in 1 .. Len(dfa.states)
  BY <1>1, <1>2 DEF TypesOK, SearchesOK, TablesOK
<1>4. dfa' = [minterms |-> dfa.minterms, lookup |-> dfa.lookup, states |-> dfa.states, table |-> dfa.table,
              prefix |-> Search(found), sets |-> found, after |-> state]
  <2>1. DfaShape(dfa)
    BY <1>3 DEF DfaOK
  <2> QED
    BY <1>1, <2>1 DEF DfaShape
<1>5. dfa'.prefix = Search(found) /\ dfa'.sets = found /\ dfa'.after = state
  BY <1>4
<1>6. DfaOK(regex, dfa') /\ dfa'.states = dfa.states
  BY <1>3, <1>4, <1>5, PrefixedOK
<1>7. PrefixOK(regex, dfa')
  <2>1. SubSeq(found, 1, left) = found
    BY <1>1, <1>3, SubSeqProperties
  <2>2. Len(found) >= 1
    <3>1. found # <<>>
      BY <1>3 DEF Useful
    <3> QED
      BY <1>3, <3>1
  <2>3. Walked(regex, dfa'.sets, dfa'.states[dfa'.after])
    BY <1>3, <1>5, <1>6, <2>1
  <2> QED
    BY <1>3, <1>5, <1>6, <2>2, <2>3, SearchFacts DEF PrefixOK
<1>8. phase \in Building
  BY <1>1 DEF Building
<1> QED
  BY <1>1, <1>6, <1>7, <1>8, IdleAfter

\* A literal that calc_potential_start finds is the one that calc_prefix_sets has found.
LEMMA PotentialBarren ==
  ASSUME NEW b, WellFormed(b), NotUseful(b), NEW F, NEW sets, NEW nodes, FoundBy(b, F, sets, nodes), Len(sets) <= MaxPrefix,
         Len(sets) = MaxPrefix \/ StopsAt(b, nodes) \/ Cardinality(nodes) > MaxFrontier,
         sets # <<>>, Search(sets) = "literal"
  PROVE  Barren(b)
<1>1. Literal(sets)
  BY SearchFacts
<1>2. SUFFICES ASSUME NEW X, NEW ns, FoundAlone(b, X, ns), StopsAt(b, ns), ~Useful(Cut16(X)) PROVE FALSE
  BY DEF NotUseful
<1>3. PICK G : FoundBy(b, G, X, ns) /\ Singles(G)
  BY <1>2 DEF FoundAlone
<1>4. X \in Seq(SUBSET Alphabet) /\ Frontiers(b, X, G) /\ G[Len(X) + 1] = ns
  BY <1>3, NodesFinite DEF FoundBy
<1>5. sets \in Seq(SUBSET Alphabet) /\ Frontiers(b, sets, F) /\ F[Len(sets) + 1] = nodes
  BY NodesFinite DEF FoundBy
<1>6. sets = Cut16(X)
  <2>1. StopsAt(b, G[Len(X) + 1])
    BY <1>2, <1>4
  <2>2. Len(sets) = MaxPrefix \/ StopsAt(b, F[Len(sets) + 1]) \/ Cardinality(F[Len(sets) + 1]) > MaxFrontier
    BY <1>5
  <2>3. WellFormed(b) /\ Len(sets) <= MaxPrefix
    OBVIOUS
  <2> QED
    BY ONLY <1>1, <1>3, <1>4, <1>5, <2>1, <2>2, <2>3, PotentialLiteral
<1>7. Useful(sets)
  BY <1>1 DEF Useful
<1> QED
  BY <1>2, <1>6, <1>7

LEMMA BuildPrefixPotentialStep ==
  ASSUME BdfaOK, BuildPrefixPotential PROVE BdfaOK'
<1>1. /\ phase = "potential" /\ ~PotentialGoesOn /\ phase' = "idle"
      /\ dfa' = IF PotentialSets = <<>> \/ Search(PotentialSets) = "none" THEN dfa
                ELSE [dfa EXCEPT !.prefix = Search(PotentialSets), !.sets = PotentialSets]
      /\ regex' = regex /\ state' = state /\ calls' = calls /\ input' = input /\ filled' = filled
  BY DEF BuildPrefixPotential, scanVars
<1>2. TypesOK /\ TablesOK /\ SearchesOK
  BY DEF BdfaOK
<1>3. WellFormed(regex)
  BY <1>2, RegexOK
<1>4. /\ NoPrefix /\ FoundSome(regex, found, frontier) /\ Len(found) <= MaxPrefix /\ NotUseful(regex)
      /\ DfaOK(regex, dfa) /\ PrefixOK(regex, dfa) /\ phase \in Building
  BY <1>1, <1>2 DEF SearchesOK, TablesOK, Building
<1>5. CASE PotentialSets = <<>> \/ Search(PotentialSets) = "none"
  <2>1. dfa' = dfa
    BY <1>1, <1>5
  <2> QED
    BY <1>1, <1>4, <2>1, IdleAfter
<1>6. CASE ~(PotentialSets = <<>> \/ Search(PotentialSets) = "none")
  <2>1. PotentialSets = found
    BY <1>6 DEF PotentialSets, Cleared
  <2>2. PICK F : FoundBy(regex, F, found, frontier)
    BY <1>4 DEF FoundSome
  <2>3. /\ found \in Seq(SUBSET Alphabet) /\ Len(found) \in Nat /\ Leads(regex, found)
        /\ (Cardinality(Targets(regex, frontier)) = 0 <=> Targets(regex, frontier) = {})
    BY <1>3, <2>2, NodesFinite DEF FoundBy, Leads
  <2>4. MaxPrefix \in Nat
    BY BdfaAssumption
  <2>5. Len(found) = MaxPrefix \/ StopsAt(regex, frontier) \/ Cardinality(frontier) > MaxFrontier
    <3>1. \/ ~(Cardinality(frontier) <= MaxFrontier) \/ ~(Len(found) < MaxPrefix)
          \/ AnyNonbeginNullable(regex, frontier) \/ Targets(regex, frontier) = {}
      BY <1>1 DEF PotentialGoesOn
    <3>2. CASE ~(Cardinality(frontier) <= MaxFrontier)
      <4>1. Cardinality(frontier) \in Nat /\ MaxFrontier \in Nat
        BY <1>3, <2>2, BdfaAssumption, NodesFinite
      <4> QED
        BY <3>2, <4>1
    <3>3. CASE ~(Len(found) < MaxPrefix)
      BY <1>4, <2>3, <2>4, <3>3
    <3>4. CASE AnyNonbeginNullable(regex, frontier) \/ Targets(regex, frontier) = {}
      BY <2>3, <3>4 DEF StopsAt
    <3> QED
      BY <3>1, <3>2, <3>3, <3>4
  <2>6. dfa' = [minterms |-> dfa.minterms, lookup |-> dfa.lookup, states |-> dfa.states, table |-> dfa.table,
                prefix |-> Search(found), sets |-> found, after |-> dfa.after]
    <3>1. DfaShape(dfa)
      BY <1>4 DEF DfaOK
    <3>2. dfa' = [dfa EXCEPT !.prefix = Search(found), !.sets = found]
      BY <1>1, <1>6, <2>1
    <3> QED
      BY <3>1, <3>2 DEF DfaShape
  <2>7. dfa'.prefix = Search(found) /\ dfa'.sets = found /\ dfa'.after = dfa.after
    BY <2>6
  <2>8. DfaOK(regex, dfa') /\ dfa'.states = dfa.states
    BY <1>4, <2>6, <2>7, PrefixedOK
  <2>9. PrefixOK(regex, dfa')
    <3>1. found # <<>> /\ Len(found) >= 1
      BY <1>6, <2>1, <2>3
    <3>2. Search(found) = "literal" => Barren(regex)
      BY <1>3, <1>4, <2>2, <2>5, <3>1, PotentialBarren
    <3>3. dfa'.after = Initial /\ dfa'.after \in 1 .. Len(dfa'.states)
      BY <1>4, <2>7, <2>8 DEF NoPrefix, PrefixOK
    <3>4. dfa'.prefix \in {"none", "search", "literal"} /\ (dfa'.prefix = "literal" => Literal(dfa'.sets) /\ Barren(regex))
      BY <2>7, <3>2, SearchFacts
    <3>5. dfa'.sets \in Seq(SUBSET Alphabet) /\ Len(dfa'.sets) >= 1 /\ Leads(regex, dfa'.sets)
      BY <2>3, <2>7, <3>1
    <3> QED
      BY ONLY <3>3, <3>4, <3>5 DEF PrefixOK
  <2> QED
    BY <1>1, <1>4, <2>8, <2>9, IdleAfter
<1> QED
  BY <1>5, <1>6

(***************************************************************************)
(* The steps of bdfa_scan.                                                 *)
(***************************************************************************)
OnWith(b, w, ms, m, q) == q > LastEnd(ms) /\ LastEnd(Append(ms, m)) = q /\ Scanned(b, w, Append(ms, m), q, {})
RelOK(b, w, ms, p, d, s) ==
  /\ MatchRel(d, s) > 0 <=> Finished(d.states[s])
  /\ Finished(d.states[s]) => MatchRel(d, s) \in Int /\ MatchEndOff(d, s) \in Int
  /\ Finished(d.states[s]) => OnWith(b, w, ms, <<p - MatchRel(d, s), p - MatchEndOff(d, s)>>, p - MatchEndOff(d, s))
LEMMA RelFacts ==
  ASSUME NEW b, WellFormed(b), NEW w \in Seq(Alphabet), NEW ms, NEW p \in Nat, NEW d, NEW s, Scanned(b, w, ms, p, d.states[s])
  PROVE  RelOK(b, w, ms, p, d, s)
<1>1. /\ MatchesOK(b, w, ms) /\ p \in LastEnd(ms) .. Len(w) /\ ChainOK(b, w, LastEnd(ms), p, d.states[s])
  BY DEF Scanned
<1>2. LastEnd(ms) \in 0 .. Len(w) /\ Len(w) \in Nat /\ LastEnd(ms) \in Nat
  <2>1. LastEnd(ms) \in 0 .. Len(w) /\ Len(w) \in Nat
    BY <1>1, MatchesEnd
  <2> QED
    BY <2>1
<1>3. CASE ~Finished(d.states[s])
  BY <1>3 DEF MatchRel, RelOK
<1>4. CASE Finished(d.states[s])
  <2> DEFINE c == First(d.states[s])
             m == MatchOf(p, c)
  <2>1. /\ c \in d.states[s] /\ c.step \in Nat /\ c.best \in Nat /\ c.step > 0 /\ c.best > 0 /\ c.best <= c.step
        /\ NextMatch(b, w, LastEnd(ms), m)
    BY <1>1, <1>2, <1>4, FinishedReports
  <2>2. MatchRel(d, s) = c.step /\ MatchEndOff(d, s) = c.step - c.best
    BY <1>4 DEF MatchRel, MatchEndOff
  <2>3. m = <<p - c.step, (p - c.step) + c.best>> /\ m[1] = p - c.step /\ m[2] = (p - c.step) + c.best
    BY DEF MatchOf
  <2> HIDE DEF c, m
  <2>4. p - (c.step - c.best) = (p - c.step) + c.best
    BY <2>1
  <2>5. m[1] \in Nat /\ m[2] \in m[1] + 1 .. Len(w) /\ LastEnd(ms) <= m[1]
    BY <2>1 DEF NextMatch, Longest
  <2>6. m[2] \in Nat /\ m[2] > LastEnd(ms) /\ m[2] \in m[2] .. Len(w)
    BY <1>2, <2>5
  <2>7. m \in Nat \X Nat
    BY <2>3, <2>5, <2>6
  <2>8. MatchesOK(b, w, Append(ms, m)) /\ LastEnd(Append(ms, m)) = m[2]
    BY <1>1, <2>1, <2>7, MatchesOn
  <2>9. ChainOK(b, w, m[2], m[2], {})
    BY <2>6, ChainStart
  <2>10. Scanned(b, w, Append(ms, m), m[2], {})
    BY <2>6, <2>8, <2>9 DEF Scanned
  <2>11. p - MatchEndOff(d, s) = m[2] /\ <<p - MatchRel(d, s), p - MatchEndOff(d, s)>> = m
    BY <2>2, <2>3, <2>4
  <2>12. MatchRel(d, s) > 0 /\ MatchRel(d, s) \in Int /\ MatchEndOff(d, s) \in Int
    BY <2>1, <2>2
  <2> QED
    BY <1>4, <2>6, <2>8, <2>10, <2>11, <2>12 DEF RelOK, OnWith
<1> QED
  BY <1>3, <1>4

LEMMA NotFinished == ~Finished({})
BY DEF Finished

\* one byte on, or on with the match that is reported
LEMMA AdvanceOK ==
  ASSUME NEW b, WellFormed(b), NEW w \in Seq(Alphabet), NEW d, DfaOK(b, d), NEW s \in 1 .. Len(d.states),
         pos \in Nat, Scanned(b, w, matches, pos + 1, d.states[s]), Advance(d, s)
  PROVE  /\ state' \in 1 .. Len(d.states) /\ Scanned(b, w, matches', pos', d.states[state'])
         /\ ~Finished(d.states[state'])
         /\ LastEnd(matches') > LastEnd(matches) \/ (matches' = matches /\ pos' = pos + 1)
<1>1. d.states[Initial] = {} /\ Initial \in 1 .. Len(d.states)
  BY DEF DfaOK, StatesOK, Initial
<1>2. pos + 1 \in Nat
  OBVIOUS
<1>r. RelOK(b, w, matches, pos + 1, d, s)
  BY <1>2, RelFacts
<1>3. MatchRel(d, s) > 0 <=> Finished(d.states[s])
  BY <1>r DEF RelOK
<1>4. CASE MatchRel(d, s) > 0
  <2>1. /\ matches' = Append(matches, <<pos + 1 - MatchRel(d, s), pos + 1 - MatchEndOff(d, s)>>)
        /\ state' = Initial /\ pos' = pos + 1 - MatchEndOff(d, s)
    BY <1>4 DEF Advance, Report
  <2> DEFINE m == <<(pos + 1) - MatchRel(d, s), (pos + 1) - MatchEndOff(d, s)>>
             q == (pos + 1) - MatchEndOff(d, s)
  <2>2. Finished(d.states[s])
    BY <1>3, <1>4
  <2>3. q > LastEnd(matches) /\ LastEnd(Append(matches, m)) = q /\ Scanned(b, w, Append(matches, m), q, {})
    BY <1>r, <2>2 DEF RelOK, OnWith
  <2> HIDE DEF m, q
  <2>4. matches' = Append(matches, m) /\ pos' = q
    <3>1. MatchRel(d, s) \in Int /\ MatchEndOff(d, s) \in Int
      BY <1>r, <2>2 DEF RelOK
    <3>2. \A x \in Int : pos + 1 - x = (pos + 1) - x
      OBVIOUS
    <3> QED
      BY <2>1, <3>1, <3>2 DEF m, q
  <2> QED
    BY <1>1, <2>1, <2>3, <2>4, NotFinished
<1>5. CASE ~(MatchRel(d, s) > 0)
  <2>1. state' = s /\ pos' = pos + 1 /\ matches' = matches
    BY <1>5 DEF Advance
  <2> QED
    BY <1>3, <1>5, <2>1
<1> QED
  BY <1>4, <1>5

\* from pos the transition of the table e leads to state t
Led(e, t) ==
  /\ DfaOK(regex, e) /\ PrefixOK(regex, e) /\ Extends(dfa, e)
  /\ t \in 1 .. Len(e.states) /\ Scanned(regex, input, matches, pos + 1, e.states[t])
  /\ \E mt : Class(regex, mt) /\ input[pos + 1] \in mt /\ e.states[t] = ChainAfter(regex, dfa.states[state], mt)
Under == phase \in {"scan", "walk"}
Nearer ==
  \/ LastEnd(matches') > LastEnd(matches)
  \/ matches' = matches /\ (pos' > pos \/ (pos' = pos /\ Rank' < Rank))

LEMMA UnderFacts ==
  ASSUME BdfaOK, Under
  PROVE  /\ WellFormed(regex) /\ input \in Seq(Alphabet) /\ Len(input) \in Nat
         /\ DfaOK(regex, dfa) /\ PrefixOK(regex, dfa) /\ state \in 1 .. Len(dfa.states)
         /\ Scanned(regex, input, matches, pos, dfa.states[state])
         /\ MatchesOK(regex, input, matches) /\ ChainOK(regex, input, LastEnd(matches), pos, dfa.states[state])
         /\ LastEnd(matches) \in Nat /\ pos \in LastEnd(matches) .. Len(input) /\ pos \in Nat /\ LastEnd(matches) <= pos
         /\ dfa.states[Initial] = {} /\ Initial \in 1 .. Len(dfa.states)
<1>1. TypesOK /\ TablesOK /\ ScansOK
  BY DEF BdfaOK
<1>2. /\ input \in Seq(Alphabet) /\ DfaOK(regex, dfa) /\ PrefixOK(regex, dfa) /\ state \in 1 .. Len(dfa.states)
      /\ Scanned(regex, input, matches, pos, dfa.states[state])
  BY <1>1 DEF TypesOK, TablesOK, ScansOK, Under
<1>3. WellFormed(regex)
  BY <1>1, RegexOK
<1>4. /\ MatchesOK(regex, input, matches) /\ ChainOK(regex, input, LastEnd(matches), pos, dfa.states[state])
      /\ pos \in LastEnd(matches) .. Len(input)
  BY <1>2 DEF Scanned
<1>5. LastEnd(matches) \in 0 .. Len(input) /\ Len(input) \in Nat
  BY <1>2, <1>4, MatchesEnd
<1>6. dfa.states[Initial] = {} /\ Initial \in 1 .. Len(dfa.states)
  BY <1>2 DEF DfaOK, StatesOK, Initial
<1> QED
  BY <1>2, <1>3, <1>4, <1>5, <1>6

LEMMA LedBy ==
  ASSUME BdfaOK, Under, pos < Len(input), NEW e, DfaOK(regex, e), PrefixOK(regex, e), Extends(dfa, e),
         NEW t, Gives(e, t, NextChain(regex, dfa, state, dfa.lookup[input[pos + 1]]))
  PROVE  Led(e, t)
<1> DEFINE c == input[pos + 1]
           mt == dfa.minterms[dfa.lookup[c] + 1]
<1>1. /\ WellFormed(regex) /\ input \in Seq(Alphabet) /\ Len(input) \in Nat /\ DfaOK(regex, dfa) /\ state \in 1 .. Len(dfa.states)
      /\ MatchesOK(regex, input, matches) /\ ChainOK(regex, input, LastEnd(matches), pos, dfa.states[state])
      /\ LastEnd(matches) \in Nat /\ pos \in Nat /\ LastEnd(matches) <= pos
  BY UnderFacts
<1>2. pos \in LastEnd(matches) .. Len(input) - 1 /\ pos + 1 \in 1 .. Len(input) /\ pos + 1 \in LastEnd(matches) .. Len(input)
  BY <1>1
<1>3. c \in Alphabet
  BY <1>1, <1>2
<1>4. Class(regex, mt) /\ c \in mt
  BY <1>1, <1>3, LookupFacts
<1>5. e.states[t] = ChainAfter(regex, dfa.states[state], mt)
  BY DEF Gives, NextChain
<1>6. t \in 1 .. Len(e.states) /\ ChainOK(regex, input, LastEnd(matches), pos + 1, e.states[t])
  BY <1>1, <1>2, ScanStep
<1>7. Scanned(regex, input, matches, pos + 1, e.states[t])
  BY <1>1, <1>2, <1>6 DEF Scanned
<1> HIDE DEF mt
<1> QED
  BY <1>4, <1>5, <1>6, <1>7 DEF Led

LEMMA LedCached ==
  ASSUME BdfaOK, Under, pos < Len(input), InTable PROVE Led(dfa, NextState(dfa, state, Byte))
<1> DEFINE x == <<state, dfa.lookup[input[pos + 1]]>>
<1>1. DfaOK(regex, dfa) /\ PrefixOK(regex, dfa) /\ Extends(dfa, dfa)
  BY UnderFacts, ExtendsSelf
<1>2. x \in DOMAIN dfa.table
  BY DEF InTable, Cached, Byte
<1>3. dfa.table[x] \in 1 .. Len(dfa.states) /\ dfa.states[dfa.table[x]] = NextChain(regex, dfa, x[1], x[2])
  BY <1>1, <1>2 DEF DfaOK, TableOK
<1>4. Gives(dfa, dfa.table[x], NextChain(regex, dfa, state, dfa.lookup[input[pos + 1]]))
  BY <1>3 DEF Gives
<1> QED
  BY <1>1, <1>4, LedBy DEF NextState, Byte

LEMMA LedFilled ==
  ASSUME BdfaOK, Under, pos < Len(input), NEW e, e = Filled(regex, dfa, state, dfa.lookup[Byte])
  PROVE  Led(e, NextState(e, state, Byte))
<1> DEFINE m == dfa.lookup[input[pos + 1]]
<1>1. /\ WellFormed(regex) /\ DfaOK(regex, dfa) /\ PrefixOK(regex, dfa) /\ state \in 1 .. Len(dfa.states)
      /\ input \in Seq(Alphabet) /\ Len(input) \in Nat /\ pos \in Nat
  BY UnderFacts
<1>2. input[pos + 1] \in Alphabet
  BY <1>1
<1>3. <<state, m>> \in Entries(dfa)
  BY <1>1, <1>2, LookupFacts
<1>4. Leading(regex, dfa, e, state, m)
  BY <1>1, <1>3, FilledOK DEF Byte
<1>5. /\ DfaOK(regex, e) /\ Extends(dfa, e) /\ e.lookup = dfa.lookup
      /\ Gives(e, e.table[<<state, m>>], NextChain(regex, dfa, state, m))
  BY <1>4 DEF Leading, Extends
<1>6. PrefixOK(regex, e)
  BY <1>1, <1>5, PrefixExtends
<1> QED
  BY <1>5, <1>6, LedBy DEF NextState, Byte

LEMMA ScanKeeps ==
  ASSUME BdfaOK, Under, phase' \in {"scan", "walk"}, DfaOK(regex, dfa'), PrefixOK(regex, dfa'), state' \in 1 .. Len(dfa'.states),
         Scanned(regex, input, matches', pos', dfa'.states[state']),
         phase' = "scan" => ~Finished(dfa'.states[state']),
         phase' = "walk" => ToWalk(dfa', input, pos', state', left'),
         regex' = regex, input' = input, calls' = calls, filled' = filled
  PROVE  BdfaOK'
<1>1. TypesOK /\ filled = <<>>
  BY DEF BdfaOK, TypesOK, Under
<1>2. phase' \in BdfaPhases /\ phase' \notin Building /\ phase' # "fill" /\ phase' # "pending" /\ phase' # "idle"
  BY DEF BdfaPhases, Building
<1>3. TypesOK'
  BY <1>1, <1>2 DEF TypesOK
<1>4. CutOK' /\ TablesOK' /\ SearchesOK'
  BY <1>2 DEF CutOK, TablesOK, SearchesOK
<1>5. ScansOK' /\ WalksOK'
  BY DEF ScansOK, WalksOK
<1>6. EndsOK' /\ ScanExact'
  BY <1>2 DEF EndsOK, ScanExact
<1> QED
  BY <1>3, <1>4, <1>5, <1>6 DEF BdfaOK

\* one transition, by the table or not, and on
LEMMA AdvanceStep ==
  ASSUME BdfaOK, phase = "scan", Led(dfa', NextState(dfa', state, Byte)), Advance(dfa', NextState(dfa', state, Byte)),
         phase' = phase, regex' = regex, input' = input, calls' = calls, filled' = filled
  PROVE  BdfaOK' /\ Nearer
<1> DEFINE t == NextState(dfa', state, Byte)
<1>1. Under
  BY DEF Under
<1>2. WellFormed(regex) /\ input \in Seq(Alphabet) /\ pos \in Nat
  BY <1>1, UnderFacts
<1>3. /\ DfaOK(regex, dfa') /\ PrefixOK(regex, dfa') /\ t \in 1 .. Len(dfa'.states)
      /\ Scanned(regex, input, matches, pos + 1, dfa'.states[t]) /\ Advance(dfa', t)
  BY DEF Led
<1> HIDE DEF t
<1>4. /\ state' \in 1 .. Len(dfa'.states) /\ Scanned(regex, input, matches', pos', dfa'.states[state'])
      /\ ~Finished(dfa'.states[state'])
      /\ LastEnd(matches') > LastEnd(matches) \/ (matches' = matches /\ pos' = pos + 1)
  BY <1>2, <1>3, AdvanceOK
<1>5. BdfaOK'
  BY <1>1, <1>3, <1>4, ScanKeeps
<1>6. Nearer
  <2>1. pos + 1 > pos
    BY <1>2
  <2> QED
    BY <1>4, <2>1 DEF Nearer
<1> QED
  BY <1>5, <1>6

LEMMA InnerStep ==
  ASSUME BdfaOK, Inner PROVE BdfaOK' /\ Nearer
<1>1. /\ phase = "scan" /\ pos < Len(input) /\ InTable /\ Advance(dfa, NextState(dfa, state, Byte))
      /\ dfa' = dfa /\ phase' = phase /\ regex' = regex /\ input' = input /\ calls' = calls /\ filled' = filled
  BY DEF Inner, InInput, scanned
<1>2. Led(dfa, NextState(dfa, state, Byte))
  BY <1>1, LedCached DEF Under
<1>3. Led(dfa', NextState(dfa', state, Byte)) /\ Advance(dfa', NextState(dfa', state, Byte))
  BY <1>1, <1>2
<1> QED
  BY <1>1, <1>3, AdvanceStep

LEMMA TransitLeads ==
  ASSUME BdfaOK, phase = "scan", pos < Len(input), Transit
  PROVE  Led(dfa', NextState(dfa', state, Byte)) /\ Advance(dfa', NextState(dfa', state, Byte))
<1>1. dfa' = Filled(regex, dfa, state, dfa.lookup[Byte]) /\ Advance(dfa', NextState(dfa', state, Byte))
  BY DEF Transit
<1>2. Led(dfa', NextState(dfa', state, Byte))
  BY <1>1, LedFilled DEF Under
<1> QED
  BY <1>1, <1>2

LEMMA OuterStep ==
  ASSUME BdfaOK, Outer PROVE BdfaOK' /\ Nearer
<1>1. /\ phase = "scan" /\ pos < Len(input) /\ Transit
      /\ phase' = phase /\ regex' = regex /\ input' = input /\ calls' = calls /\ filled' = filled
  BY DEF Outer, InInput, scanned
<1> QED
  BY <1>1, TransitLeads, AdvanceStep

LEMMA FollowSlowStep ==
  ASSUME BdfaOK, FollowSlow PROVE BdfaOK' /\ Nearer
<1>1. /\ phase = "scan" /\ pos < Len(input) /\ Transit
      /\ phase' = phase /\ regex' = regex /\ input' = input /\ calls' = calls /\ filled' = filled
  BY DEF FollowSlow, Prefixed, InInput, scanned
<1> QED
  BY <1>1, TransitLeads, AdvanceStep

\* where a byte leaves nothing under way, nothing was so before it
LEMMA NothingLed ==
  ASSUME BdfaOK, Under, NEW e, NEW t, Led(e, t), e.states[t] = {}
  PROVE  Scanned(regex, input, matches, pos, {})
<1>1. /\ LastEnd(matches) \in Nat /\ pos \in Nat /\ LastEnd(matches) <= pos /\ pos \in LastEnd(matches) .. Len(input)
      /\ MatchesOK(regex, input, matches)
  BY UnderFacts
<1>2. ChainOK(regex, input, LastEnd(matches), pos + 1, {})
  BY DEF Led, Scanned
<1>3. pos + 1 \in Nat
  BY <1>1
<1>4. \A i \in LastEnd(matches) .. (pos + 1) - 1 : Hopeless(regex, input, i)
  BY <1>1, <1>2, <1>3, NothingFollowed
<1>5. \A i \in LastEnd(matches) .. pos - 1 : Hopeless(regex, input, i)
  <2>1. ASSUME NEW i \in LastEnd(matches) .. pos - 1 PROVE i \in LastEnd(matches) .. (pos + 1) - 1
    BY <1>1
  <2> QED
    BY <1>4, <2>1
<1>6. ChainOK(regex, input, LastEnd(matches), pos, {})
  BY <1>1, <1>5, NothingToFollow
<1> QED
  BY <1>1, <1>6 DEF Scanned

LEMMA FollowTableStep ==
  ASSUME BdfaOK, FollowTable PROVE BdfaOK' /\ Nearer
<1>1. /\ phase = "scan" /\ pos < Len(input) /\ state # Initial /\ InTable
      /\ IF NextState(dfa, state, Byte) = Initial THEN state' = Initial /\ pos' = pos /\ matches' = matches
         ELSE Advance(dfa, NextState(dfa, state, Byte))
      /\ dfa' = dfa /\ phase' = phase /\ regex' = regex /\ input' = input /\ calls' = calls /\ filled' = filled
  BY DEF FollowTable, Prefixed, InInput, scanned
<1>2. Led(dfa, NextState(dfa, state, Byte)) /\ Under
  BY <1>1, LedCached DEF Under
<1>3. CASE NextState(dfa, state, Byte) = Initial
  <2>1. state' = Initial /\ pos' = pos /\ matches' = matches
    BY <1>1, <1>3
  <2>2. dfa.states[Initial] = {} /\ Initial \in 1 .. Len(dfa.states) /\ DfaOK(regex, dfa) /\ PrefixOK(regex, dfa)
    BY <1>2, UnderFacts
  <2>3. Scanned(regex, input, matches, pos, {})
    BY <1>2, <1>3, <2>2, NothingLed
  <2>4. BdfaOK'
    BY <1>1, <1>2, <2>1, <2>2, <2>3, NotFinished, ScanKeeps
  <2>5. Rank = 2 /\ Rank' = 1
    BY <1>1, <2>1 DEF Rank
  <2> QED
    BY <2>1, <2>4, <2>5 DEF Nearer
<1>4. CASE NextState(dfa, state, Byte) # Initial
  <2>1. Led(dfa', NextState(dfa', state, Byte)) /\ Advance(dfa', NextState(dfa', state, Byte))
    BY <1>1, <1>2, <1>4
  <2> QED
    BY <1>1, <2>1, AdvanceStep
<1> QED
  BY <1>3, <1>4

LEMMA PrefixFacts ==
  ASSUME NEW b, NEW d, PrefixOK(b, d), d.prefix # "none"
  PROVE  /\ d.sets \in Seq(SUBSET Alphabet) /\ Len(d.sets) \in Nat /\ Len(d.sets) >= 1
         /\ \E F : Frontiers(b, d.sets, F)
BY DEF PrefixOK, Leads

LEMMA WalkStep ==
  ASSUME BdfaOK, Walk PROVE BdfaOK' /\ Nearer
<1> DEFINE n == Len(dfa.sets)
<1>1. /\ phase = "walk" /\ left > 0 /\ pos < Len(input)
      /\ dfa' = Filled(regex, dfa, state, dfa.lookup[Byte]) /\ state' = NextState(dfa', state, Byte)
      /\ IF state' = Initial THEN pos' = pos /\ left' = 0 ELSE pos' = pos + 1 /\ left' = left - 1
      /\ matches' = matches /\ phase' = phase /\ regex' = regex /\ input' = input /\ calls' = calls /\ filled' = filled
  BY DEF Walk, scanned
<1>2. Under /\ ToWalk(dfa, input, pos, state, left)
  BY <1>1 DEF Under, BdfaOK, WalksOK
<1>3. Led(dfa', state')
  BY <1>1, <1>2, LedFilled
<1>4. /\ DfaOK(regex, dfa') /\ PrefixOK(regex, dfa') /\ Extends(dfa, dfa') /\ state' \in 1 .. Len(dfa'.states)
      /\ Scanned(regex, input, matches, pos + 1, dfa'.states[state'])
  BY <1>3 DEF Led
<1>5. /\ WellFormed(regex) /\ DfaOK(regex, dfa) /\ PrefixOK(regex, dfa) /\ state \in 1 .. Len(dfa.states)
      /\ pos \in Nat /\ dfa.states[Initial] = {}
  BY <1>2, UnderFacts
<1>6. PICK mt : Class(regex, mt) /\ input[pos + 1] \in mt /\ dfa'.states[state'] = ChainAfter(regex, dfa.states[state], mt)
  BY <1>3 DEF Led
<1>7. /\ dfa'.prefix = dfa.prefix /\ dfa'.sets = dfa.sets /\ dfa.prefix # "none"
      /\ n \in Nat /\ n >= 1 /\ \E F : Frontiers(regex, dfa.sets, F)
  BY <1>2, <1>4, <1>5, PrefixFacts DEF ToWalk, Extends
<1>8. /\ left \in 0 .. n /\ \A c \in dfa.states[state] : c.step + left <= n
      /\ left = n => state = Initial /\ input[pos + 1] \in dfa.sets[1]
  BY <1>2 DEF ToWalk
<1>9. dfa'.states[Initial] = {}
  BY <1>4 DEF DfaOK, StatesOK, Initial
<1>10. CASE state' = Initial
  <2>1. pos' = pos /\ left' = 0
    BY <1>1, <1>10
  <2>2. Scanned(regex, input, matches, pos, {})
    BY <1>2, <1>3, <1>9, <1>10, NothingLed
  <2>3. ToWalk(dfa', input, pos, state', 0)
    BY <1>7, <1>9, <1>10 DEF ToWalk
  <2>4. BdfaOK'
    BY <1>1, <1>2, <1>4, <1>9, <1>10, <2>1, <2>2, <2>3, ScanKeeps
  <2>5. left # n
    <3>1. SUFFICES ASSUME left = n PROVE FALSE
      OBVIOUS
    <3>2. dfa.states[state] = {} /\ input[pos + 1] \in dfa.sets[1]
      BY <1>5, <1>8, <3>1
    <3>3. regex.der[regex.pattern][input[pos + 1]] # BotId
      BY <1>7, <3>2, LeadsFirst
    <3>4. ChainAfter(regex, {}, mt) # {}
      BY <1>5, <1>6, <3>3, SpawnStays
    <3> QED
      BY <1>6, <1>9, <1>10, <3>2, <3>4
  <2>6. Rank = 4 /\ Rank' = 3
    BY <1>1, <1>7, <2>1, <2>5 DEF Rank
  <2> QED
    BY <1>1, <2>1, <2>4, <2>6 DEF Nearer
<1>11. CASE state' # Initial
  <2>1. pos' = pos + 1 /\ left' = left - 1
    BY <1>1, <1>11
  <2>2. StateOK(regex, dfa.states[state]) /\ dfa.states[state] \subseteq Cand(regex)
    BY <1>5 DEF DfaOK, StatesOK, StateOK
  <2>3. \A m \in dfa'.states[state'] : m.step = 1 \/ \E c \in dfa.states[state] : m.step = c.step + 1
    BY <1>5, <1>6, <2>2, StepsAfter
  <2>4. ASSUME NEW m \in dfa'.states[state'] PROVE m.step + (left - 1) <= n
    <3>1. CASE m.step = 1
      BY <1>1, <1>7, <1>8, <3>1
    <3>2. CASE \E c \in dfa.states[state] : m.step = c.step + 1
      <4>1. PICK c \in dfa.states[state] : m.step = c.step + 1
        BY <3>2
      <4>2. c.step \in Nat /\ c.step + left <= n
        BY <1>8, <2>2 DEF Cand
      <4> QED
        BY <1>7, <1>8, <4>1, <4>2
    <3> QED
      BY <2>3, <3>1, <3>2
  <2>5. left - 1 \in 0 .. n /\ left - 1 # n
    BY <1>1, <1>7, <1>8
  <2>6. ToWalk(dfa', input, pos', state', left')
    BY <1>7, <2>1, <2>4, <2>5 DEF ToWalk
  <2>7. BdfaOK'
    BY <1>1, <1>2, <1>4, <2>1, <2>6, ScanKeeps
  <2>8. pos' > pos
    BY <1>5, <2>1
  <2> QED
    BY <1>1, <2>7, <2>8 DEF Nearer
<1> QED
  BY <1>10, <1>11

\* a match that has ended is longer than the prefix: none has at its end
LEMMA NoneAtPrefix ==
  ASSUME BdfaOK, phase = "walk" PROVE ~Finished(dfa.states[state])
<1> DEFINE K == dfa.states[state]
           c == First(K)
           i == pos - c.step
           j == i + c.best
           n == Len(dfa.sets)
<1>1. SUFFICES ASSUME Finished(K) PROVE FALSE
  OBVIOUS
<1>2. Under /\ ToWalk(dfa, input, pos, state, left)
  BY DEF Under, BdfaOK, WalksOK
<1>3. /\ WellFormed(regex) /\ PrefixOK(regex, dfa) /\ input \in Seq(Alphabet) /\ Len(input) \in Nat
      /\ ChainOK(regex, input, LastEnd(matches), pos, K)
      /\ LastEnd(matches) \in Nat /\ pos \in Nat /\ pos \in LastEnd(matches) .. Len(input) /\ pos <= Len(input)
  BY <1>2, UnderFacts
<1>4. /\ c \in K /\ c.step \in Nat /\ c.best \in Nat /\ c.best > 0 /\ c.best <= c.step
      /\ NextMatch(regex, input, LastEnd(matches), MatchOf(pos, c))
  BY <1>1, <1>3, FinishedReports
<1>5. i \in Nat /\ j \in i + 1 .. Len(input) /\ Meets(regex, input, i, j)
  BY <1>4 DEF NextMatch, Longest, MatchOf
<1>6. PICK F : n \in Nat /\ n >= 1 /\ Frontiers(regex, dfa.sets, F)
  BY <1>2, <1>3, PrefixFacts DEF ToWalk
<1>7. i \in 0 .. Len(input)
  BY <1>3, <1>5
<1>8. i + n <= j
  BY <1>3, <1>5, <1>6, <1>7, LeadsFits
<1>9. c.step + left <= n /\ left \in Nat
  <2>1. left \in 0 .. n
    BY <1>2 DEF ToWalk
  <2> QED
    BY <1>2, <1>4, <1>6, <2>1 DEF ToWalk
<1>10. TrackFacts(regex, input, LastEnd(matches), pos, c)
  BY <1>3, <1>4, TracksFacts DEF ChainOK
<1>11. c.body = Body(regex, input, i, pos) /\ c.body = BotId
  BY <1>1, <1>10 DEF TrackFacts, Finished
<1>12. j = pos
  <2>1. c.best = c.step
    BY <1>3, <1>4, <1>6, <1>8, <1>9, SMTT(30)
  <2> QED
    BY <1>3, <1>4, <2>1
<1> QED
  BY <1>3, <1>5, <1>11, <1>12, RegexFacts DEF Meets

LEMMA ArriveStep ==
  ASSUME BdfaOK, Arrive PROVE BdfaOK' /\ Nearer
<1>1. /\ phase = "walk" /\ (left = 0 \/ pos >= Len(input)) /\ phase' = "scan" /\ left' = 0
      /\ IF MatchRel(dfa, state) > 0 THEN Report(dfa, state) ELSE UNCHANGED <<state, pos, matches>>
      /\ dfa' = dfa /\ regex' = regex /\ input' = input /\ calls' = calls /\ filled' = filled
  BY DEF Arrive, scanned
<1>2. Under /\ ToWalk(dfa, input, pos, state, left)
  BY <1>1 DEF Under, BdfaOK, WalksOK
<1>3. ~Finished(dfa.states[state])
  BY <1>1, NoneAtPrefix
<1>4. state' = state /\ pos' = pos /\ matches' = matches
  BY <1>1, <1>3 DEF MatchRel
<1>5. /\ DfaOK(regex, dfa) /\ PrefixOK(regex, dfa) /\ state \in 1 .. Len(dfa.states) /\ pos \in Nat /\ Len(input) \in Nat
      /\ Scanned(regex, input, matches, pos, dfa.states[state])
  BY <1>2, UnderFacts
<1>6. BdfaOK'
  BY <1>1, <1>2, <1>3, <1>4, <1>5, ScanKeeps
<1>7. left # Len(dfa.sets)
  <2>1. Len(dfa.sets) >= 1 /\ Len(dfa.sets) \in Nat
    BY <1>2, <1>5, PrefixFacts DEF ToWalk
  <2>2. left = Len(dfa.sets) => pos < Len(input)
    BY <1>2 DEF ToWalk
  <2> QED
    BY <1>1, <1>5, <2>1, <2>2
<1>8. Rank \in {3, 4} /\ Rank' \in {1, 2}
  BY <1>1, <1>7 DEF Rank
<1>9. Rank' < Rank
  BY <1>8
<1> QED
  BY <1>4, <1>6, <1>9 DEF Nearer

LEMMA FirstFoundFacts ==
  ASSUME pos \in Nat, Found(pos) # {}
  PROVE  FirstFound \in Found(pos) /\ \A q \in Found(pos) : FirstFound <= q
<1>1. Found(pos) \in SUBSET Nat
  BY DEF Found
<1>2. PICK m \in Found(pos) : \A q \in Found(pos) : m <= q
  BY <1>1, LeastNat
<1> QED
  BY <1>2 DEF FirstFound

LEMMA StepsToFound ==
  ASSUME NEW b, NEW w, NEW from \in Nat, NEW p \in Nat, NEW K, ChainOK(b, w, from, p, K), NEW n, n = p - from
  PROVE  \A c \in K : c.step <= n
BY DEF ChainOK, Tracked, Tracks

\* what is skipped is hopeless: a match begins with the prefix
LEMMA SkipHopeless ==
  ASSUME NEW b, WellFormed(b), NEW w \in Seq(Alphabet), NEW sets, NEW F, Len(sets) \in Nat, Frontiers(b, sets, F),
         NEW p \in Nat, NEW i \in 0 .. Len(w), p <= i, ~(i \in p .. Len(w) - Len(sets) /\ \A k \in 1 .. Len(sets) : w[i + k] \in sets[k])
  PROVE  Hopeless(b, w, i)
<1>1. SUFFICES ASSUME NEW j \in i + 1 .. Len(w), Meets(b, w, i, j) PROVE FALSE
  BY DEF Hopeless, NoneYet
<1>2. Fits(sets, w, i)
  BY <1>1, LeadsFits
<1>3. Len(w) \in Nat
  OBVIOUS
<1> QED
  BY <1>2, <1>3 DEF Fits

LEMMA SkipStep ==
  ASSUME BdfaOK, Skip PROVE BdfaOK' /\ Nearer
<1> DEFINE q == FirstFound
           n == Len(dfa.sets)
           from == LastEnd(matches)
<1>1. /\ phase = "scan" /\ dfa.prefix # "none" /\ state = Initial /\ Found(pos) # {}
      /\ IF dfa.prefix = "literal" THEN state' = dfa.after /\ pos' = q + n /\ left' = 0
         ELSE state' = state /\ pos' = q /\ left' = n
      /\ phase' = "walk" /\ dfa' = dfa /\ matches' = matches
      /\ regex' = regex /\ input' = input /\ calls' = calls /\ filled' = filled
  BY DEF Skip, Prefixed, InInput, scanned
<1>2. Under
  BY <1>1 DEF Under
<1>3. /\ WellFormed(regex) /\ DfaOK(regex, dfa) /\ PrefixOK(regex, dfa) /\ input \in Seq(Alphabet) /\ Len(input) \in Nat
      /\ MatchesOK(regex, input, matches) /\ ChainOK(regex, input, from, pos, {})
      /\ from \in Nat /\ pos \in Nat /\ from <= pos
      /\ dfa.states[Initial] = {} /\ Initial \in 1 .. Len(dfa.states)
  BY <1>1, <1>2, UnderFacts
<1>4. PICK F : dfa.sets \in Seq(SUBSET Alphabet) /\ n \in Nat /\ n >= 1 /\ Frontiers(regex, dfa.sets, F)
  BY <1>1, <1>3, PrefixFacts
<1>5. q \in Found(pos) /\ \A x \in Found(pos) : q <= x
  BY <1>1, <1>3, FirstFoundFacts
<1> HIDE DEF q
<1>6. q \in pos .. Len(input) - n /\ \A k \in 1 .. n : input[q + k] \in dfa.sets[k]
  BY <1>5 DEF Found
<1> HIDE DEF n, from
<1>7. q \in Nat /\ pos <= q /\ from <= q /\ q + n <= Len(input) /\ q < Len(input) /\ q + n \in Nat /\ from <= q + n
  BY <1>3, <1>4, <1>6
<1>8. \A i \in from .. q - 1 : Hopeless(regex, input, i)
  <2>1. ASSUME NEW i \in from .. q - 1, i < pos PROVE Hopeless(regex, input, i)
    <3>1. i \in from .. pos - 1
      BY <1>3, <2>1
    <3> QED
      BY <1>3, <3>1, NothingFollowed
  <2>2. ASSUME NEW i \in from .. q - 1, ~(i < pos) PROVE Hopeless(regex, input, i)
    <3>1. i \in 0 .. Len(input) /\ pos <= i /\ ~(q <= i)
      BY <1>3, <1>7, <2>2
    <3>2. i \notin Found(pos)
      BY <1>5, <3>1
    <3>3. ~(i \in pos .. Len(input) - Len(dfa.sets) /\ \A k \in 1 .. Len(dfa.sets) : input[i + k] \in dfa.sets[k])
      BY <3>2 DEF Found
    <3>4. Len(dfa.sets) \in Nat
      BY <1>4 DEF n
    <3> QED
      BY <1>3, <1>4, <3>1, <3>3, <3>4, SkipHopeless
  <2> QED
    BY <2>1, <2>2
<1>9. ChainOK(regex, input, from, q, {})
  BY <1>3, <1>7, <1>8, NothingToFollow
<1>10. CASE dfa.prefix # "literal"
  <2>1. state' = Initial /\ pos' = q /\ left' = n
    BY <1>1, <1>10
  <2>2. q \in from .. Len(input)
    BY <1>3, <1>7
  <2>3. Scanned(regex, input, matches, q, {})
    BY <1>3, <1>9, <2>2 DEF Scanned, from
  <2>4. input[q + 1] \in dfa.sets[1] /\ n \in 0 .. n
    BY <1>4, <1>6
  <2>5. ToWalk(dfa, input, q, Initial, n)
    BY <1>1, <1>3, <1>7, <2>4 DEF ToWalk, n
  <2>6. BdfaOK'
    BY <1>1, <1>2, <1>3, <2>1, <2>3, <2>5, ScanKeeps
  <2>7. Rank = 1 /\ Rank' = 0
    BY <1>1, <2>1 DEF Rank, n
  <2>8. pos' > pos \/ pos' = pos
    BY <1>3, <1>7, <2>1
  <2> QED
    BY <1>1, <2>6, <2>7, <2>8 DEF Nearer
<1>11. CASE dfa.prefix = "literal"
  <2> DEFINE K == dfa.states[dfa.after]
  <2>1. state' = dfa.after /\ pos' = q + n /\ left' = 0
    BY <1>1, <1>11
  <2>2. Literal(dfa.sets) /\ dfa.after \in 1 .. Len(dfa.states)
        /\ ((Barren(regex) /\ dfa.after = Initial) \/ Walked(regex, dfa.sets, K))
    BY <1>3, <1>11 DEF PrefixOK
  <2>3. Fits(dfa.sets, input, q)
    BY <1>6, <1>7 DEF Fits, n
  <2>4. ChainOK(regex, input, from, q + n, K) /\ \A c \in K : c.step <= n
    <3>1. CASE Barren(regex) /\ dfa.after = Initial
      <4>1. \A i \in from .. (q + n) - 1 : Hopeless(regex, input, i)
        <5>1. ASSUME NEW i \in from .. (q + n) - 1 PROVE Hopeless(regex, input, i)
          <6>1. i \in 0 .. Len(input)
            BY <1>3, <1>4, <1>7
          <6> QED
            BY <1>3, <3>1, <6>1, BarrenHopeless
        <5> QED
          BY <5>1
      <4> QED
        BY <1>3, <1>7, <3>1, <4>1, NothingToFollow
    <3>2. CASE Walked(regex, dfa.sets, K)
      <4>1. PICK C : Path(regex, dfa.sets, C, K)
        BY <3>2 DEF Walked
      <4>2. ChainOK(regex, input, from, q + Len(dfa.sets), K)
        BY <1>3, <1>4, <1>7, <1>9, <2>2, <2>3, <4>1, PathLeads
      <4>3. ChainOK(regex, input, q, q, {}) /\ q <= q
        BY <1>7, ChainStart
      <4>4. ChainOK(regex, input, q, q + Len(dfa.sets), K)
        BY <1>3, <1>4, <1>7, <2>2, <2>3, <4>1, <4>3, PathLeads
      <4>5. n = (q + n) - q
        BY <1>4, <1>7
      <4>6. \A c \in K : c.step <= n
        BY <1>7, <4>4, <4>5, StepsToFound DEF n
      <4> QED
        BY <4>2, <4>6 DEF n
    <3> QED
      BY <2>2, <3>1, <3>2
  <2>5. q + n \in from .. Len(input)
    BY <1>3, <1>4, <1>7
  <2>6. Scanned(regex, input, matches, q + n, K)
    BY <1>3, <2>4, <2>5 DEF Scanned, from
  <2>7. ToWalk(dfa, input, q + n, dfa.after, 0)
    <3>1. \A c \in K : c.step + 0 <= n
      <4>1. \A c \in K : c.step \in Nat
        BY <1>3, <2>2 DEF DfaOK, StatesOK, Cand
      <4> QED
        BY <2>4, <4>1
    <3> QED
      BY <1>1, <1>4, <3>1 DEF ToWalk, n
  <2>8. BdfaOK'
    BY <1>1, <1>2, <1>3, <2>1, <2>2, <2>6, <2>7, ScanKeeps
  <2>9. pos' > pos
    BY <1>3, <1>4, <1>7, <2>1
  <2> QED
    BY <1>1, <2>8, <2>9 DEF Nearer
<1> QED
  BY <1>10, <1>11

(***************************************************************************)
(* The steps of find_all before and after the scan.                        *)
(***************************************************************************)
LEMMA EndKeeps ==
  ASSUME BdfaOK, phase \in {"scan", "pending", "fill"}, phase' \in {"pending", "fill", "idle"},
         regex' = regex, dfa' = dfa, calls' = calls, input' = input, state' = state,
         phase' # "fill" => filled' = <<>>, EndsOK', ScanExact'
  PROVE  BdfaOK'
<1>1. TypesOK /\ TablesOK
  BY DEF BdfaOK
<1>2. phase' \in BdfaPhases /\ phase' \notin Building
  BY DEF BdfaPhases, Building
<1>3. TypesOK'
  BY <1>1, <1>2 DEF TypesOK
<1>4. CutOK' /\ TablesOK' /\ SearchesOK'
  BY <1>1 DEF CutOK, TablesOK, SearchesOK
<1>5. ScansOK' /\ WalksOK'
  BY DEF ScansOK, WalksOK
<1> QED
  BY <1>3, <1>4, <1>5 DEF BdfaOK

LEMMA FindAllStep ==
  ASSUME BdfaOK, NEW w \in Inputs[Lesser(calls + 1, Len(Inputs))], FindAll(w) PROVE BdfaOK'
<1>1. /\ phase = "idle" /\ calls < Len(Inputs) /\ calls' = calls + 1 /\ phase' = "scan"
      /\ input' = w /\ state' = Initial /\ pos' = 0 /\ matches' = <<>> /\ regex' = regex /\ dfa' = dfa /\ filled' = filled
  BY DEF FindAll, buildVars
<1>2. TypesOK /\ TablesOK
  BY DEF BdfaOK
<1>3. calls \in Nat /\ regex \in BoundedRegexes /\ filled = <<>> /\ DfaOK(regex, dfa) /\ PrefixOK(regex, dfa)
  BY <1>1, <1>2 DEF TypesOK, TablesOK
<1>4. w \in Seq(Alphabet)
  <2>1. Inputs \in Seq(SUBSET (Seq(Alphabet) \ {<<>>}))
    BY BdfaAssumption
  <2>2. Lesser(calls + 1, Len(Inputs)) \in 1 .. Len(Inputs)
    BY <1>1, <1>3, <2>1 DEF Lesser
  <2> HIDE DEF Lesser
  <2>3. Inputs[Lesser(calls + 1, Len(Inputs))] \in SUBSET (Seq(Alphabet) \ {<<>>})
    BY <2>1, <2>2
  <2> QED
    BY <2>3
<1>5. dfa.states[Initial] = {} /\ Initial \in 1 .. Len(dfa.states)
  BY <1>3 DEF DfaOK, StatesOK, Initial
<1>6. Scanned(regex, w, <<>>, 0, {})
  <2>1. LastEnd(<<>>) = 0 /\ 0 \in 0 .. Len(w)
    BY <1>4 DEF LastEnd
  <2>2. MatchesOK(regex, w, <<>>)
    <3>1. <<>> \in Seq(Nat \X Nat) /\ 1 .. Len(<<>>) = {}
      OBVIOUS
    <3> QED
      BY <3>1 DEF MatchesOK
  <2>3. ChainOK(regex, w, 0, 0, {})
    BY ChainStart
  <2> QED
    BY <2>1, <2>2, <2>3 DEF Scanned
<1>7. TypesOK'
  <2>1. phase' \in BdfaPhases /\ phase' \notin Building /\ calls' \in Nat
    BY <1>1, <1>3 DEF BdfaPhases, Building
  <2> QED
    BY <1>1, <1>3, <1>4, <1>5, <2>1 DEF TypesOK
<1>8. CutOK' /\ TablesOK' /\ SearchesOK' /\ WalksOK' /\ EndsOK' /\ ScanExact'
  BY <1>1, <1>3 DEF CutOK, TablesOK, SearchesOK, WalksOK, EndsOK, ScanExact
<1>9. ScansOK'
  BY <1>1, <1>5, <1>6, NotFinished DEF ScansOK
<1> QED
  BY <1>7, <1>8, <1>9 DEF BdfaOK

LEMMA ReachEndStep ==
  ASSUME BdfaOK, ReachEnd PROVE BdfaOK'
<1> DEFINE from == LastEnd(matches)
<1>1. /\ phase = "scan"
      /\ pos >= Len(input) \/ (dfa.prefix # "none" /\ state = Initial /\ Found(pos) = {})
      /\ phase' = "pending" /\ cands' = Pending(dfa.states[state])
      /\ regex' = regex /\ dfa' = dfa /\ calls' = calls /\ input' = input /\ state' = state /\ matches' = matches /\ filled' = filled
  BY DEF ReachEnd
<1>2. Under /\ phase = "scan"
  BY <1>1 DEF Under
<1>3. /\ WellFormed(regex) /\ PrefixOK(regex, dfa) /\ input \in Seq(Alphabet) /\ Len(input) \in Nat
      /\ MatchesOK(regex, input, matches) /\ ChainOK(regex, input, from, pos, dfa.states[state])
      /\ from \in Nat /\ pos \in Nat /\ from <= pos /\ pos <= Len(input) /\ dfa.states[Initial] = {}
  BY <1>2, UnderFacts
<1>4. PendingSet(regex, input, from, cands')
  <2>1. CASE pos >= Len(input)
    <3>1. pos = Len(input)
      BY <1>3, <2>1
    <3>2. PendingSet(regex, input, from, PendingOf(pos, dfa.states[state]))
      BY <1>3, <3>1, EndReports
    <3>3. Pending(dfa.states[state]) = PendingOf(Len(input), dfa.states[state])
      BY DEF Pending, PendingOf, MatchOf
    <3> QED
      BY <1>1, <3>1, <3>2, <3>3
  <2>2. CASE dfa.prefix # "none" /\ state = Initial /\ Found(pos) = {}
    <3>1. PICK F : Len(dfa.sets) \in Nat /\ Frontiers(regex, dfa.sets, F)
      BY <1>3, <2>2, PrefixFacts
    <3>2. cands' = {}
      BY <1>1, <1>3, <2>2 DEF Pending
    <3>3. ASSUME NEW i \in from .. Len(input) PROVE Hopeless(regex, input, i)
      <4>1. i \in 0 .. Len(input) /\ (i < pos \/ pos <= i)
        BY <1>3
      <4>2. CASE i < pos
        <5>1. i \in from .. pos - 1
          BY <1>3, <4>2
        <5> QED
          BY <1>3, <2>2, <5>1, NothingFollowed
      <4>3. CASE pos <= i
        <5>1. ~(i \in pos .. Len(input) - Len(dfa.sets) /\ \A k \in 1 .. Len(dfa.sets) : input[i + k] \in dfa.sets[k])
          BY <2>2 DEF Found
        <5> QED
          BY <1>3, <3>1, <4>1, <4>3, <5>1, SkipHopeless
      <4> QED
        BY <4>1, <4>2, <4>3
    <3> HIDE DEF from
    <3> QED
      BY <3>2, <3>3 DEF PendingSet
  <2> QED
    BY <1>1, <2>1, <2>2
<1>5. EndsOK' /\ ScanExact'
  BY <1>1, <1>3, <1>4 DEF EndsOK, ScanExact
<1>6. filled' = <<>>
  BY <1>1 DEF BdfaOK, TypesOK
<1> QED
  BY <1>1, <1>5, <1>6, EndKeeps

LEMMA PendingFacts ==
  ASSUME BdfaOK, phase \in {"pending", "fill"}
  PROVE  WellFormed(regex) /\ input \in Seq(Alphabet) /\ Len(input) \in Nat
         /\ MatchesOK(regex, input, matches) /\ LastEnd(matches) \in Nat /\ LastEnd(matches) <= Len(input)
<1>1. TypesOK /\ EndsOK
  BY DEF BdfaOK
<1>2. WellFormed(regex) /\ input \in Seq(Alphabet) /\ MatchesOK(regex, input, matches)
  BY <1>1, RegexOK DEF TypesOK, EndsOK
<1>3. LastEnd(matches) \in 0 .. Len(input) /\ Len(input) \in Nat
  BY <1>2, MatchesEnd
<1> QED
  BY <1>2, <1>3

LEMMA AddPendingStep ==
  ASSUME BdfaOK, AddPending PROVE BdfaOK'
<1> DEFINE m == FirstPending
           from == LastEnd(matches)
<1>1. /\ phase = "pending" /\ cands # {}
      /\ matches' = IF m[1] < from THEN matches ELSE Append(matches, m)
      /\ cands' = cands \ {m}
      /\ regex' = regex /\ dfa' = dfa /\ calls' = calls /\ phase' = phase /\ input' = input /\ state' = state /\ filled' = filled
  BY DEF AddPending
<1>2. /\ WellFormed(regex) /\ input \in Seq(Alphabet) /\ MatchesOK(regex, input, matches) /\ from \in Nat
      /\ PendingSet(regex, input, from, cands) /\ filled = <<>>
  BY <1>1, PendingFacts DEF BdfaOK, EndsOK, TypesOK
<1>3. m \in cands /\ \A x \in cands : m[1] <= x[1]
  BY <1>1, <1>2, FirstPendingFacts DEF FirstPending
<1> HIDE DEF m, from
<1>4. /\ m \in Nat \X Nat /\ NextMatch(regex, input, from, m) /\ from <= m[1]
      /\ PendingSet(regex, input, m[2], cands \ {m})
  BY <1>2, <1>3, PendingOn
<1>5. matches' = Append(matches, m)
  <2>1. ~(m[1] < from)
    BY <1>2, <1>4
  <2> QED
    BY <1>1, <2>1
<1>6. MatchesOK(regex, input, Append(matches, m)) /\ LastEnd(Append(matches, m)) = m[2]
  BY <1>2, <1>4, MatchesOn DEF from
<1>7. EndsOK' /\ ScanExact'
  BY <1>1, <1>4, <1>5, <1>6 DEF EndsOK, ScanExact
<1> QED
  BY <1>1, <1>2, <1>7, EndKeeps

LEMMA EndScanStep ==
  ASSUME BdfaOK, EndScan PROVE BdfaOK'
<1>1. /\ phase = "pending" /\ cands = {} /\ left' = 0
      /\ phase' = IF regex.null[regex.pattern] = Always THEN "fill" ELSE "idle"
      /\ regex' = regex /\ dfa' = dfa /\ calls' = calls /\ input' = input /\ state' = state /\ matches' = matches /\ filled' = filled
  BY DEF EndScan
<1>2. /\ WellFormed(regex) /\ input \in Seq(Alphabet) /\ MatchesOK(regex, input, matches)
      /\ PendingSet(regex, input, LastEnd(matches), {}) /\ filled = <<>>
  BY <1>1, PendingFacts DEF BdfaOK, EndsOK, TypesOK
<1>3. NoMore(regex, input, LastEnd(matches))
  BY <1>2 DEF PendingSet, NoMore
<1>4. regex.null[regex.pattern] \in {Never, Always} /\ Always # Never
  BY <1>2, RegexFacts DEF Always, Never, Bit
<1>5. CASE regex.null[regex.pattern] = Always
  <2>1. phase' = "fill" /\ regex.null[regex.pattern] # Never
    BY <1>1, <1>4, <1>5
  <2>2. Fills(regex, input, <<>>, 0)
    <3>1. <<>> \in Seq(Nat \X Nat) /\ 1 .. Len(<<>>) = {} /\ Len(<<>>) = 0
      OBVIOUS
    <3>2. FillsOK(regex, input, <<>>)
      BY <3>1 DEF FillsOK
    <3>3. After(<<>>, Len(<<>>)) = 0
      BY <3>1 DEF After
    <3> QED
      BY <3>2, <3>3 DEF Fills
  <2>3. EndBefore(matches, 0 + 1) = 0 /\ 0 \in 0 .. Len(matches)
    <3>1. Len(matches) \in Nat
      BY <1>2 DEF MatchesOK
    <3> QED
      BY <3>1 DEF EndBefore
  <2>4. EndsOK' /\ ScanExact'
    BY <1>1, <1>2, <1>3, <2>1, <2>2, <2>3 DEF EndsOK, ScanExact
  <2> QED
    BY <1>1, <2>1, <2>4, EndKeeps
<1>6. CASE regex.null[regex.pattern] # Always
  <2>1. phase' = "idle" /\ regex.null[regex.pattern] = Never
    BY <1>1, <1>4, <1>6
  <2>2. LeftmostLongest([i \in 0 .. Len(input) |-> EndsFrom(regex, input, i)], matches)
    BY <1>2, <1>3, <2>1, MatchesLeftmostLongest
  <2>3. EndsOK' /\ ScanExact'
    BY <1>1, <2>1, <2>2 DEF EndsOK, ScanExact
  <2> QED
    BY <1>1, <1>2, <2>1, <2>3, EndKeeps
<1> QED
  BY <1>5, <1>6

LEMMA CursorFacts ==
  ASSUME NEW b, NEW w, NEW at, Fills(b, w, filled, at) PROVE Cursor = at
<1>1. filled \in Seq(Nat \X Nat) /\ After(filled, Len(filled)) = at
  BY DEF Fills, FillsOK
<1>2. CASE filled = <<>>
  <2>1. Len(filled) = 0
    BY <1>2
  <2> QED
    BY <1>1, <1>2, <2>1 DEF Cursor, After
<1>3. CASE filled # <<>>
  <2>1. Len(filled) # 0 /\ Len(filled) \in 1 .. Len(filled)
    BY <1>1, <1>3
  <2>2. filled[Len(filled)] \in Nat \X Nat
    BY <1>1, <2>1
  <2>3. filled[Len(filled)][1] \in Nat /\ filled[Len(filled)][2] \in Nat
    BY <2>2
  <2>4. Cursor = Greater(filled[Len(filled)][2], filled[Len(filled)][1] + 1)
    BY <1>3 DEF Cursor, LastEnd
  <2>5. After(filled, Len(filled)) = Greater(filled[Len(filled)][1] + 1, filled[Len(filled)][2])
    BY <2>1 DEF After
  <2> QED
    BY <1>1, <2>3, <2>4, <2>5 DEF Greater
<1> QED
  BY <1>2, <1>3

LEMMA FillFacts ==
  ASSUME BdfaOK, phase = "fill"
  PROVE  /\ regex.null[regex.pattern] # Never /\ left \in 0 .. Len(matches) /\ Len(matches) \in Nat
         /\ NoMore(regex, input, LastEnd(matches)) /\ filled \in Seq(Nat \X Nat)
         /\ Cursor = EndBefore(matches, left + 1) /\ Fills(regex, input, filled, Cursor) /\ Cursor \in Nat
<1>1. /\ regex.null[regex.pattern] # Never /\ left \in 0 .. Len(matches) /\ NoMore(regex, input, LastEnd(matches))
      /\ Fills(regex, input, filled, EndBefore(matches, left + 1)) /\ MatchesOK(regex, input, matches)
  BY DEF BdfaOK, EndsOK
<1>2. matches \in Seq(Nat \X Nat) /\ Len(matches) \in Nat
  BY <1>1 DEF MatchesOK
<1>3. Cursor = EndBefore(matches, left + 1)
  BY <1>1, CursorFacts
<1>4. EndBefore(matches, left + 1) \in Nat
  <2>1. CASE left = 0
    BY <2>1 DEF EndBefore
  <2>2. CASE left # 0
    <3>1. left \in 1 .. Len(matches) /\ (left + 1) - 1 = left /\ left + 1 # 1
      BY <1>1, <1>2, <2>2
    <3>2. matches[left] \in Nat \X Nat
      BY <1>2, <3>1
    <3>3. matches[left][2] \in Nat
      BY <3>2
    <3> QED
      BY <3>1, <3>3 DEF EndBefore
  <2> QED
    BY <2>1, <2>2
<1>5. filled \in Seq(Nat \X Nat)
  BY <1>1 DEF Fills, FillsOK
<1> QED
  BY <1>1, <1>2, <1>3, <1>4, <1>5

LEMMA EmptyAtSeq ==
  ASSUME NEW at \in Nat, NEW to \in Nat, at <= to PROVE EmptyAt(at, to) \in Seq(Nat \X Nat)
<1>1. Greater(to - at, 0) = to - at /\ to - at \in Nat
  BY DEF Greater
<1>2. EmptyAt(at, to) = [i \in 1 .. to - at |-> <<at + i - 1, at + i - 1>>]
  BY <1>1 DEF EmptyAt
<1>3. \A i \in 1 .. to - at : <<at + i - 1, at + i - 1>> \in Nat \X Nat
  OBVIOUS
<1> QED
  BY <1>1, <1>2, <1>3

LEMMA FillMatchStep ==
  ASSUME BdfaOK, FillMatch PROVE BdfaOK'
<1> DEFINE m == matches[left + 1]
           at == Cursor
           fs == filled \o EmptyAt(at, m[1])
<1>1. /\ phase = "fill" /\ left < Len(matches) /\ left' = left + 1
      /\ filled' = filled \o Append(EmptyAt(at, m[1]), m)
      /\ regex' = regex /\ dfa' = dfa /\ calls' = calls /\ phase' = phase /\ input' = input /\ state' = state /\ matches' = matches
  BY DEF FillMatch
<1>2. /\ WellFormed(regex) /\ input \in Seq(Alphabet) /\ Len(input) \in Nat /\ MatchesOK(regex, input, matches)
      /\ regex.null[regex.pattern] # Never /\ left \in 0 .. Len(matches) /\ Len(matches) \in Nat
      /\ NoMore(regex, input, LastEnd(matches)) /\ filled \in Seq(Nat \X Nat)
      /\ at = EndBefore(matches, left + 1) /\ Fills(regex, input, filled, at) /\ at \in Nat
  BY <1>1, PendingFacts, FillFacts
<1>3. left + 1 \in 1 .. Len(matches) /\ left + 1 \in 0 .. Len(matches) /\ (left + 1) + 1 # 1 /\ ((left + 1) + 1) - 1 = left + 1
  BY <1>1, <1>2
<1>4. m \in Nat \X Nat /\ NextMatch(regex, input, at, m)
  BY <1>2, <1>3 DEF MatchesOK
<1> HIDE DEF m, at
<1>5. /\ m = <<m[1], m[2]>> /\ m[1] \in Nat /\ m[2] \in m[1] + 1 .. Len(input) /\ at <= m[1]
      /\ Meets(regex, input, m[1], m[2]) /\ \A j \in m[2] + 1 .. Len(input) : ~Meets(regex, input, m[1], j)
      /\ \A i \in at .. m[1] - 1 : Hopeless(regex, input, i)
  BY <1>4 DEF NextMatch, Longest
<1>6. /\ m[1] <= Len(input) + 1 /\ m[1] \in 0 .. Len(input) /\ m[2] \in m[1] .. Len(input)
      /\ Greater(m[1] + 1, m[2]) = m[2]
  BY <1>2, <1>5 DEF Greater
<1>7. Fills(regex, input, fs, m[1])
  BY <1>2, <1>5, <1>6, FillsEmpty
<1>8. BestEnd(regex, input, m[1], m[2])
  BY <1>5, <1>6 DEF BestEnd
<1>9. EmptyAt(at, m[1]) \in Seq(Nat \X Nat)
  BY <1>2, <1>5, EmptyAtSeq
<1>10. filled' = Append(fs, m)
  <2> DEFINE E == EmptyAt(at, m[1])
  <2>1. filled \in Seq(Nat \X Nat) /\ E \in Seq(Nat \X Nat) /\ m \in Nat \X Nat
    BY <1>2, <1>4, <1>9
  <2> HIDE DEF E
  <2>2. filled \o Append(E, m) = Append(filled \o E, m)
    BY ONLY <2>1, ConcatOne, SMTT(30)
  <2> QED
    BY <1>1, <2>2 DEF E
<1> HIDE DEF fs
<1>11. Fills(regex, input, Append(fs, m), m[2])
  BY <1>2, <1>5, <1>6, <1>7, <1>8, FillsOne
<1>12. EndBefore(matches, (left + 1) + 1) = m[2]
  BY <1>3 DEF EndBefore, m
<1>13. EndsOK' /\ ScanExact'
  BY <1>1, <1>2, <1>3, <1>10, <1>11, <1>12 DEF EndsOK, ScanExact
<1> QED
  BY <1>1, <1>13, EndKeeps

LEMMA FillEndStep ==
  ASSUME BdfaOK, FillEnd PROVE BdfaOK'
<1> DEFINE at == Cursor
           to == Len(input) + 1
<1>1. /\ phase = "fill" /\ left = Len(matches) /\ phase' = "idle" /\ filled' = <<>>
      /\ matches' = filled \o EmptyAt(at, to)
      /\ regex' = regex /\ dfa' = dfa /\ calls' = calls /\ input' = input /\ state' = state
  BY DEF FillEnd
<1>2. /\ WellFormed(regex) /\ input \in Seq(Alphabet) /\ Len(input) \in Nat /\ MatchesOK(regex, input, matches)
      /\ regex.null[regex.pattern] # Never /\ left \in 0 .. Len(matches) /\ Len(matches) \in Nat
      /\ NoMore(regex, input, LastEnd(matches)) /\ LastEnd(matches) <= Len(input)
      /\ at = EndBefore(matches, left + 1) /\ Fills(regex, input, filled, at) /\ at \in Nat
  BY <1>1, PendingFacts, FillFacts
<1> HIDE DEF at
<1>3. at = LastEnd(matches)
  <2>1. matches \in Seq(Nat \X Nat)
    BY <1>2 DEF MatchesOK
  <2>2. CASE matches = <<>>
    <3>1. left = 0
      BY <1>1, <2>2
    <3> QED
      BY <1>2, <2>2, <3>1 DEF EndBefore, LastEnd
  <2>3. CASE matches # <<>>
    <3>1. left + 1 # 1 /\ (left + 1) - 1 = Len(matches)
      BY <1>1, <1>2, <2>1, <2>3
    <3> QED
      BY <1>2, <2>3, <3>1 DEF EndBefore, LastEnd
  <2> QED
    BY <2>2, <2>3
<1>4. to \in Nat /\ at <= to /\ to <= Len(input) + 1
  BY <1>2, <1>3
<1>5. \A i \in at .. to - 1 : Hopeless(regex, input, i)
  <2>1. to - 1 = Len(input)
    BY <1>2
  <2> HIDE DEF to
  <2> QED
    BY <1>2, <1>3, <2>1 DEF NoMore
<1>6. Fills(regex, input, matches', to)
  BY <1>1, <1>2, <1>4, <1>5, FillsEmpty
<1>7. LeftmostLongest([i \in 0 .. Len(input) |-> EndsFrom(regex, input, i)], matches')
  BY <1>2, <1>6, FillsLeftmostLongest
<1>8. EndsOK' /\ ScanExact'
  BY <1>1, <1>7 DEF EndsOK, ScanExact
<1> QED
  BY <1>1, <1>8, EndKeeps

LEMMA StutterOK ==
  ASSUME BdfaOK, UNCHANGED bdfaVars PROVE BdfaOK'
<1> USE DEF bdfaVars, buildVars
<1>1. TypesOK' /\ CutOK' /\ TablesOK'
  BY DEF BdfaOK, TypesOK, CutOK, TablesOK
<1>2. SearchesOK'
  BY DEF BdfaOK, SearchesOK, NoPrefix, NotUseful, Useful, Search
<1>3. ScansOK' /\ WalksOK' /\ EndsOK' /\ ScanExact'
  BY DEF BdfaOK, ScansOK, WalksOK, EndsOK, ScanExact
<1> QED
  BY <1>1, <1>2, <1>3 DEF BdfaOK

LEMMA NextOK ==
  ASSUME BdfaOK, [BdfaNext]_bdfaVars PROVE BdfaOK'
<1>1. CASE UNCHANGED bdfaVars
  BY <1>1, StutterOK
<1>2. CASE Build
  BY <1>2, CutStep, GenerateStep, PrefixSetStep, BuildPrefixStep, ThroughStep, SetPrefixStep, PotentialSetStep,
     BuildPrefixPotentialStep DEF Build
<1>3. CASE \E w \in Inputs[Lesser(calls + 1, Len(Inputs))] : FindAll(w)
  BY <1>3, FindAllStep
<1>4. CASE Inner \/ Outer
  BY <1>4, InnerStep, OuterStep
<1>5. CASE Skip \/ Walk \/ Arrive
  BY <1>5, SkipStep, WalkStep, ArriveStep
<1>6. CASE FollowTable \/ FollowSlow
  BY <1>6, FollowTableStep, FollowSlowStep
<1>7. CASE ReachEnd \/ AddPending \/ EndScan
  BY <1>7, ReachEndStep, AddPendingStep, EndScanStep
<1>8. CASE FillMatch \/ FillEnd
  BY <1>8, FillMatchStep, FillEndStep
<1> QED
  BY <1>1, <1>2, <1>3, <1>4, <1>5, <1>6, <1>7, <1>8 DEF BdfaNext

\* The invariant holds in every state of the construction and of the calls of find_all.
THEOREM BdfaStaysOK == BdfaSpec => []BdfaOK
<1>1. BdfaInit => BdfaOK
  BY InitOK
<1>2. BdfaOK /\ [BdfaNext]_bdfaVars => BdfaOK'
  BY NextOK
<1> QED
  BY <1>1, <1>2, PTL DEF BdfaSpec

\* find_all of the bounded DFA returns the leftmost-longest matches that do not overlap, for every
\* pattern that the algebra answers for, every input and sequence of calls, however long a prefix is
\* searched for and however many matches there is room for.
THEOREM ScanStaysExact == BdfaSpec => []ScanExact
<1>1. BdfaOK => ScanExact
  BY DEF BdfaOK
<1> QED
  BY <1>1, BdfaStaysOK, PTL

\* Bytes have the same number if and only if the sets of the pattern do not tell them apart, for every
\* set of bytes that a u8 can count and in whatever order the sets are taken.
THEOREM ClassesStayExact == BdfaSpec => []ClassesExact
<1>1. BdfaOK => ClassesExact
  BY DEF BdfaOK, TablesOK, DfaOK, ClassesOK, ClassesExact
<1> QED
  BY <1>1, BdfaStaysOK, PTL

LEMMA UnderAdvances ==
  ASSUME BdfaOK, [BdfaNext]_bdfaVars, {phase, phase'} \subseteq {"scan", "walk"}, ~UNCHANGED bdfaVars
  PROVE  Nearer
<1>1. phase \in {"scan", "walk"} /\ phase' \in {"scan", "walk"}
  OBVIOUS
<1>2. ~Build
  <2>1. ~(\E S \in uncut : Cut(S)) /\ ~(\E order \in Orders(cells.rest) : Generate(order)) /\ ~PrefixSet /\ ~BuildPrefix
    BY <1>1 DEF Cut, Generate, PrefixSet, BuildPrefix
  <2>2. ~Through /\ ~SetPrefix /\ ~PotentialSet /\ ~BuildPrefixPotential
    BY <1>1 DEF Through, SetPrefix, PotentialSet, BuildPrefixPotential
  <2> QED
    BY <2>1, <2>2 DEF Build
<1>3. ~(\E w \in Inputs[Lesser(calls + 1, Len(Inputs))] : FindAll(w))
  BY <1>1 DEF FindAll
<1>4. ~ReachEnd /\ ~AddPending /\ ~EndScan /\ ~FillMatch /\ ~FillEnd
  BY <1>1 DEF ReachEnd, AddPending, EndScan, FillMatch, FillEnd
<1>5. CASE Inner \/ Outer
  BY <1>5, InnerStep, OuterStep
<1>6. CASE Skip \/ Walk \/ Arrive
  BY <1>6, SkipStep, WalkStep, ArriveStep
<1>7. CASE FollowTable \/ FollowSlow
  BY <1>7, FollowTableStep, FollowSlowStep
<1> QED
  BY <1>2, <1>3, <1>4, <1>5, <1>6, <1>7 DEF BdfaNext

\* Every step of a scan brings it nearer to its end: the next match is reported, or the scan is
\* further on, or it is at the same byte and nearer to a search.
THEOREM ScanKeepsAdvancing == BdfaSpec => ScanAdvances
<1>1. BdfaOK /\ [BdfaNext]_bdfaVars =>
      [{phase, phase'} \subseteq {"scan", "walk"} =>
         \/ LastEnd(matches') > LastEnd(matches)
         \/ matches' = matches /\ (pos' > pos \/ (pos' = pos /\ Rank' < Rank))]_bdfaVars
  BY UnderAdvances DEF Nearer
<1> QED
  BY <1>1, BdfaStaysOK, PTL DEF BdfaSpec, ScanAdvances
==============================================================================
