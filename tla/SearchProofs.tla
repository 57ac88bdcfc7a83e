---------------------------- MODULE SearchProofs ----------------------------
(***************************************************************************)
(* What the vector searchers promise, proved: nothing is skipped, what is  *)
(* found is there, a search for all finds all, and every read lies inside. *)
(***************************************************************************)
EXTENDS Search, FiniteSetTheorems, SequenceTheorems, TLAPS

-----------------------------------------------------------------------------
(* Sets of integers.                                                       *)

(* A set of naturals that is not empty has a least member: what holds at   *)
(* every number is shown at the first one where it would fail.             *)
LEMMA FirstNatural ==
  ASSUME NEW T \in SUBSET Nat, T # {}
  PROVE  \E m \in T : \A n \in T : m <= n
<1> DEFINE Below == {ss \in Nat \X Nat : ss[1] < ss[2]}
<1>1. IsWellFoundedOn(Below, Nat)
  BY NatLessThanWellFounded DEF OpToRel
<1>2. PICK m \in T : \A n \in T : ~ (<<n, m>> \in Below)
  <2> HIDE DEF Below
  <2> QED
    BY <1>1, WFMin
<1>3. \A n \in T : ~ (n < m)
  BY <1>2
<1> QED
  BY <1>3

LEMMA LeastOf ==
  ASSUME NEW a \in Int, NEW b \in Int, NEW T \in SUBSET (a .. b), T # {}
  PROVE  Least(T) \in T /\ \A n \in T : Least(T) <= n
<1> DEFINE U == {n - a : n \in T}
<1>1. U \subseteq Nat
  OBVIOUS
<1>a. U # {}
  OBVIOUS
<1>2. PICK m \in U : \A n \in U : m <= n
  <2> HIDE DEF U
  <2> QED BY <1>1, <1>a, FirstNatural
<1>3. PICK t \in T : m = t - a
  BY <1>2
<1>4. \A n \in T : t <= n
  <2> TAKE n \in T
  <2>1. m <= n - a
    BY <1>2
  <2> QED BY <2>1, <1>3
<1>5. Least(T) = CHOOSE x \in T : \A y \in T : x <= y
  BY DEF Least, SetOps!Min
<1> QED
  BY <1>4, <1>5

LEMMA GreatestOf ==
  ASSUME NEW a \in Int, NEW b \in Int, NEW T \in SUBSET (a .. b), T # {}
  PROVE  Greatest(T) \in T /\ \A n \in T : n <= Greatest(T)
<1> DEFINE U == {b - n : n \in T}
<1>1. U \subseteq Nat
  OBVIOUS
<1>a. U # {}
  OBVIOUS
<1>2. PICK m \in U : \A n \in U : m <= n
  <2> HIDE DEF U
  <2> QED BY <1>1, <1>a, FirstNatural
<1>3. PICK t \in T : m = b - t
  BY <1>2
<1>4. \A n \in T : n <= t
  <2> TAKE n \in T
  <2>1. m <= b - n
    BY <1>2
  <2> QED BY <2>1, <1>3
<1>5. Greatest(T) = CHOOSE x \in T : \A y \in T : x >= y
  BY DEF Greatest, SetOps!Max
<1>6. \A y \in T : t >= y
  BY <1>4
<1>7. Greatest(T) \in T /\ \A y \in T : Greatest(T) >= y
  BY <1>5, <1>6
<1> QED
  BY <1>7

(* Of places with naturals there is a first one with the least.            *)
HasFirstLeast(T, f) == \E i \in T : \A j \in T : f[i] < f[j] \/ (f[i] = f[j] /\ i <= j)
LEMMA FirstLeastPlace ==
  ASSUME NEW a \in Int, NEW b \in Int, NEW T \in SUBSET (a .. b), T # {},
         NEW f \in [T -> Nat]
  PROVE  HasFirstLeast(T, f)
<1> DEFINE V == {f[i] : i \in T}
<1>1. PICK v \in V : \A w \in V : v <= w
  <2>1. V \in SUBSET Nat /\ V # {}
    OBVIOUS
  <2> HIDE DEF V
  <2> QED BY <2>1, FirstNatural
<1> DEFINE W == {i \in T : f[i] = v}
<1>2. W \in SUBSET (a .. b) /\ W # {}
  BY <1>1
<1>3. Least(W) \in W /\ \A n \in W : Least(W) <= n
  <2> HIDE DEF W
  <2> QED BY <1>2, LeastOf
<1>4. \A j \in T : f[Least(W)] < f[j] \/ (f[Least(W)] = f[j] /\ Least(W) <= j)
  <2> TAKE j \in T
  <2>1. v <= f[j] /\ v \in Nat /\ f[j] \in Nat
    BY <1>1
  <2>2. CASE f[j] = v
    BY <2>2, <1>3
  <2>3. CASE f[j] # v
    BY <2>1, <2>3, <1>3
  <2> QED BY <2>2, <2>3
<1> QED
  BY <1>3, <1>4 DEF HasFirstLeast

-----------------------------------------------------------------------------
(* Folds.  The function that a fold over a finite set is defined by exists *)
(* when every step stays in a set V of values.                             *)
Folding(S, base, pick, step, g) ==
  [T \in SUBSET S |-> IF T = {} THEN base ELSE step[<<pick[T], g[T \ {pick[T]}]>>]]
FoldDefined(S, V, base, pick, step) ==
  \E g \in [SUBSET S -> V] : g = Folding(S, base, pick, step, g)

LEMMA FoldExists ==
  ASSUME NEW S, IsFiniteSet(S), NEW V, NEW base \in V,
         NEW pick, \A T \in SUBSET S : T # {} => pick[T] \in T,
         NEW step \in [S \X V -> V]
  PROVE  FoldDefined(S, V, base, pick, step)
<1> DEFINE Upto(n, g) == \A T \in SUBSET S : Cardinality(T) <= n => g[T] = Folding(S, base, pick, step, g)[T]
           Failing == {n \in Nat : ~ \E g \in [SUBSET S -> V] : Upto(n, g)}
<1>1. \A T \in SUBSET S : IsFiniteSet(T) /\ Cardinality(T) \in Nat /\ (Cardinality(T) = 0 <=> T = {})
  BY FS_Subset, FS_CardinalityType, FS_EmptySet
<1>2. \A g \in [SUBSET S -> V] : Folding(S, base, pick, step, g) \in [SUBSET S -> V]
  <2> TAKE g \in [SUBSET S -> V]
  <2>1. \A T \in SUBSET S : T # {} => step[<<pick[T], g[T \ {pick[T]}]>>] \in V
    <3> SUFFICES ASSUME NEW T \in SUBSET S, T # {}
                 PROVE  step[<<pick[T], g[T \ {pick[T]}]>>] \in V
      OBVIOUS
    <3>1. pick[T] \in S /\ g[T \ {pick[T]}] \in V
      OBVIOUS
    <3> QED BY <3>1
  <2> QED BY <2>1 DEF Folding
<1>3. Failing = {}
  <2> SUFFICES ASSUME Failing # {} PROVE FALSE
    OBVIOUS
  <2>1. PICK n \in Failing : \A m \in Failing : n <= m
    <3>1. Failing \in SUBSET Nat
      OBVIOUS
    <3> HIDE DEF Failing
    <3> QED BY <3>1, FirstNatural
  <2>2. CASE n = 0
    <3> DEFINE g == [T \in SUBSET S |-> base]
    <3>1. g \in [SUBSET S -> V]
      OBVIOUS
    <3>2. Upto(0, g)
      <4> SUFFICES ASSUME NEW T \in SUBSET S, Cardinality(T) <= 0
                   PROVE  g[T] = Folding(S, base, pick, step, g)[T]
        OBVIOUS
      <4>1. T = {}
        BY <1>1
      <4> QED BY <4>1 DEF Folding
    <3> HIDE DEF Upto, g
    <3> QED BY <2>2, <3>1, <3>2
  <2>3. CASE n # 0
    <3>a. n \in Nat
      OBVIOUS
    <3>b. n - 1 \in Nat /\ ~ (n <= n - 1)
      BY <3>a, <2>3
    <3>1. n - 1 \in Nat /\ n - 1 \notin Failing
      <4> HIDE DEF Failing
      <4> QED BY <2>1, <3>b
    <3>2. PICK g \in [SUBSET S -> V] : Upto(n - 1, g)
      BY <3>1
    <3> DEFINE h == Folding(S, base, pick, step, g)
    <3>3. h \in [SUBSET S -> V]
      BY <1>2
    <3>4. Upto(n, h)
      <4> SUFFICES ASSUME NEW T \in SUBSET S, Cardinality(T) <= n
                   PROVE  h[T] = Folding(S, base, pick, step, h)[T]
        OBVIOUS
      <4>1. CASE T = {}
        BY <4>1 DEF Folding
      <4>2. CASE T # {}
        <5>1. T \ {pick[T]} \in SUBSET S
          OBVIOUS
        <5>2. Cardinality(T \ {pick[T]}) = Cardinality(T) - 1
          BY <1>1, <4>2, FS_RemoveElement
        <5>3. Cardinality(T \ {pick[T]}) <= n - 1
          BY <5>2, <1>1
        <5>4. g[T \ {pick[T]}] = h[T \ {pick[T]}]
          BY <3>2, <5>1, <5>3
        <5> QED BY <4>2, <5>4 DEF Folding
      <4> QED BY <4>1, <4>2
    <3> HIDE DEF Upto, h
    <3> QED BY <3>3, <3>4, <2>1
  <2> QED BY <2>2, <2>3
<1>4. Cardinality(S) \in Nat
  BY FS_CardinalityType
<1>5. PICK g \in [SUBSET S -> V] : Upto(Cardinality(S), g)
  BY <1>3, <1>4
<1>6. \A T \in SUBSET S : g[T] = Folding(S, base, pick, step, g)[T]
  <2> TAKE T \in SUBSET S
  <2>1. Cardinality(T) <= Cardinality(S)
    BY FS_Subset
  <2> QED BY <1>5, <2>1
<1>7. g = Folding(S, base, pick, step, g)
  <2> DEFINE F == Folding(S, base, pick, step, g)
  <2>1. F \in [SUBSET S -> V] /\ \A T \in SUBSET S : g[T] = F[T]
    BY <1>6, <1>2
  <2> HIDE DEF F, Upto
  <2>2. g = F
    BY <2>1
  <2> QED BY <2>2 DEF F
<1> QED BY <1>7 DEF FoldDefined

(* What holds of the empty set, and of a set when it holds of it without   *)
(* its picked member, holds of every subset of a finite set.               *)
LEMMA FoldInduction ==
  ASSUME NEW S, IsFiniteSet(S), NEW pick, \A T \in SUBSET S : T # {} => pick[T] \in T,
         NEW Good, {} \in Good,
         \A T \in SUBSET S : T # {} /\ T \ {pick[T]} \in Good => T \in Good
  PROVE  S \in Good
<1> DEFINE Failing == {Cardinality(T) : T \in {U \in SUBSET S : U \notin Good}}
<1>1. \A T \in SUBSET S : IsFiniteSet(T) /\ Cardinality(T) \in Nat
  BY FS_Subset, FS_CardinalityType
<1> SUFFICES ASSUME S \notin Good PROVE FALSE
  OBVIOUS
<1>2. PICK n \in Failing : \A m \in Failing : n <= m
  <2>1. Failing \in SUBSET Nat
    BY <1>1
  <2>2. Failing # {}
    OBVIOUS
  <2> HIDE DEF Failing
  <2> QED BY <2>1, <2>2, FirstNatural
<1>3. PICK T \in SUBSET S : T \notin Good /\ Cardinality(T) = n
  BY <1>2
<1>4. pick[T] \in T /\ T \ {pick[T]} \notin Good /\ T \ {pick[T]} \in SUBSET S
  BY <1>3
<1>5. Cardinality(T \ {pick[T]}) = Cardinality(T) - 1
  BY <1>1, <1>4, FS_RemoveElement
<1>6. Cardinality(T \ {pick[T]}) \in Failing
  BY <1>4
<1>7. n <= Cardinality(T) - 1 /\ Cardinality(T) \in Nat
  BY <1>1, <1>2, <1>5, <1>6
<1> QED
  BY <1>3, <1>7

LEMMA BytesAre == \E last \in Nat : Bytes = 0 .. last
  BY SearchConstants

LEMMA BytesFinite == IsFiniteSet(Bytes)
<1>1. PICK last \in Nat : Bytes = 0 .. last
  BY BytesAre
<1> QED
  BY <1>1, FS_Interval

LEMMA FreqSumNat ==
  ASSUME NEW S \in SUBSET Bytes
  PROVE  FreqSum(S) \in Nat
<1> DEFINE pick == [T \in SUBSET S |-> CHOOSE x \in T : TRUE]
           step == [p \in S \X Nat |-> ByteFreq[p[1]] + p[2]]
           Eq(g) == [T \in SUBSET S |-> IF T = {} THEN 0
                                       ELSE ByteFreq[CHOOSE x \in T : TRUE] + g[T \ {CHOOSE x \in T : TRUE}]]
           iter == CHOOSE g : g = Eq(g)
<1>1. IsFiniteSet(S)
  BY BytesFinite, FS_Subset
<1>2. \A T \in SUBSET S : T # {} => pick[T] \in T
  OBVIOUS
<1>3. \A b \in S : ByteFreq[b] \in Nat
  BY SearchConstants
<1>4. step \in [S \X Nat -> Nat]
  BY <1>3
<1>5. PICK g \in [SUBSET S -> Nat] : g = Folding(S, 0, pick, step, g)
  <2>1. 0 \in Nat
    OBVIOUS
  <2>2. FoldDefined(S, Nat, 0, pick, step)
    <3> HIDE DEF pick, step, Eq, iter
    <3> QED BY <2>1, <1>1, <1>2, <1>4, FoldExists
  <2> QED BY <2>2 DEF FoldDefined
<1>6. Folding(S, 0, pick, step, g) = Eq(g)
  <2> SUFFICES ASSUME NEW T \in SUBSET S, T # {}
               PROVE  step[<<pick[T], g[T \ {pick[T]}]>>] = ByteFreq[CHOOSE x \in T : TRUE] + g[T \ {CHOOSE x \in T : TRUE}]
    BY DEF Folding
  <2>1. pick[T] = CHOOSE x \in T : TRUE
    OBVIOUS
  <2>2. pick[T] \in S /\ T \ {pick[T]} \in SUBSET S
    BY <1>2
  <2>3. g[T \ {pick[T]}] \in Nat
    BY <2>2
  <2>4. step[<<pick[T], g[T \ {pick[T]}]>>] = ByteFreq[pick[T]] + g[T \ {pick[T]}]
    <3> HIDE DEF pick
    <3> QED BY <2>2, <2>3
  <2> QED BY <2>1, <2>4
<1>7. iter = Eq(iter)
  <2>1. g = Eq(g)
    BY <1>5, <1>6
  <2> HIDE DEF Eq
  <2> QED BY <2>1
<1>8. FreqSum(S) = iter[S]
  BY DEF FreqSum, SetOps!MapThenSumSet, SetOps!MapThenFoldSet
<1> DEFINE Good == {T \in SUBSET S : iter[T] \in Nat}
<1>9. {} \in Good
  <2>1. {} \in SUBSET S
    OBVIOUS
  <2>2. iter[{}] = 0
    <3> HIDE DEF iter
    <3> QED BY <1>7, <2>1
  <2> HIDE DEF iter
  <2> QED BY <2>1, <2>2
<1>10. \A T \in SUBSET S : T # {} /\ T \ {pick[T]} \in Good => T \in Good
  <2> HIDE DEF iter
  <2> SUFFICES ASSUME NEW T \in SUBSET S, T # {}, T \ {pick[T]} \in Good PROVE T \in Good
    OBVIOUS
  <2>1. iter[T] = ByteFreq[pick[T]] + iter[T \ {pick[T]}]
    BY <1>7
  <2>2. ByteFreq[pick[T]] \in Nat
    BY <1>2, <1>3
  <2> QED BY <2>1, <2>2
<1>11. S \in Good
  <2> HIDE DEF Good, pick
  <2> QED BY <1>1, <1>2, <1>9, <1>10, FoldInduction
<1> QED
  BY <1>8, <1>11

LEMMA RowProductNat ==
  ASSUME NEW w \in Seq(SUBSET Bytes)
  PROVE  SeqOps!FoldLeft(LAMBDA acc, S : acc * FreqSum(S), 1, w) \in Nat
<1> DEFINE S == DOMAIN w
           pick == [T \in SUBSET S |-> SeqOps!Max(T)]
           step == [p \in S \X Nat |-> p[2] * FreqSum(w[p[1]])]
           Eq(g) == [T \in SUBSET S |-> IF T = {} THEN 1
                                       ELSE g[T \ {SeqOps!Max(T)}] * FreqSum(w[SeqOps!Max(T)])]
           iter == CHOOSE g : g = Eq(g)
<1>0. Len(w) \in Nat /\ S = 1 .. Len(w) /\ w \in [1 .. Len(w) -> SUBSET Bytes]
  OBVIOUS
<1>1. IsFiniteSet(S)
  BY <1>0, FS_Interval
<1>2. \A T \in SUBSET S : T # {} => pick[T] \in T
  <2> SUFFICES ASSUME NEW T \in SUBSET S, T # {} PROVE SeqOps!Max(T) \in T
    OBVIOUS
  <2>1. SeqOps!Max(T) = Greatest(T)
    BY DEF SeqOps!Max, SetOps!Max, Greatest
  <2>2. T \in SUBSET (1 .. Len(w))
    BY <1>0
  <2>3. 1 \in Int /\ Len(w) \in Int
    BY <1>0
  <2>4. Greatest(T) \in T
    BY <2>2, <2>3, GreatestOf
  <2> QED BY <2>1, <2>4
<1>3. \A i \in S : FreqSum(w[i]) \in Nat
  BY <1>0, FreqSumNat
<1>4. step \in [S \X Nat -> Nat]
  <2> SUFFICES ASSUME NEW p \in S \X Nat PROVE p[2] * FreqSum(w[p[1]]) \in Nat
    OBVIOUS
  <2>1. p[2] \in Nat /\ FreqSum(w[p[1]]) \in Nat
    BY <1>3
  <2> QED BY <2>1
<1>5. PICK g \in [SUBSET S -> Nat] : g = Folding(S, 1, pick, step, g)
  <2>1. 1 \in Nat
    OBVIOUS
  <2>2. FoldDefined(S, Nat, 1, pick, step)
    <3> HIDE DEF pick, step, Eq, iter, S
    <3> QED BY <2>1, <1>1, <1>2, <1>4, FoldExists
  <2> QED BY <2>2 DEF FoldDefined
<1>6. Folding(S, 1, pick, step, g) = Eq(g)
  <2> SUFFICES ASSUME NEW T \in SUBSET S, T # {}
               PROVE  step[<<pick[T], g[T \ {pick[T]}]>>] = g[T \ {SeqOps!Max(T)}] * FreqSum(w[SeqOps!Max(T)])
    BY DEF Folding
  <2>1. pick[T] = SeqOps!Max(T)
    OBVIOUS
  <2>2. pick[T] \in S /\ T \ {pick[T]} \in SUBSET S
    BY <1>2
  <2>3. g[T \ {pick[T]}] \in Nat
    BY <2>2
  <2>4. step[<<pick[T], g[T \ {pick[T]}]>>] = g[T \ {pick[T]}] * FreqSum(w[pick[T]])
    <3> HIDE DEF pick
    <3> QED BY <2>2, <2>3
  <2> QED BY <2>1, <2>4
<1>7. iter = Eq(iter)
  <2>1. g = Eq(g)
    BY <1>5, <1>6
  <2> HIDE DEF Eq
  <2> QED BY <2>1
<1>8. SeqOps!FoldLeft(LAMBDA acc, U : acc * FreqSum(U), 1, w) = iter[S]
  BY DEF SeqOps!FoldLeft, SeqOps!MapThenFoldSet
<1> DEFINE Good == {T \in SUBSET S : iter[T] \in Nat}
<1>9. {} \in Good
  <2>1. {} \in SUBSET S
    OBVIOUS
  <2>2. iter[{}] = 1
    <3> HIDE DEF iter
    <3> QED BY <1>7, <2>1
  <2> HIDE DEF iter
  <2> QED BY <2>1, <2>2
<1>10. \A T \in SUBSET S : T # {} /\ T \ {pick[T]} \in Good => T \in Good
  <2> HIDE DEF iter
  <2> SUFFICES ASSUME NEW T \in SUBSET S, T # {}, T \ {pick[T]} \in Good PROVE T \in Good
    OBVIOUS
  <2>1. iter[T] = iter[T \ {pick[T]}] * FreqSum(w[pick[T]])
    BY <1>7
  <2>2. FreqSum(w[pick[T]]) \in Nat
    BY <1>2, <1>3
  <2> QED BY <2>1, <2>2
<1>11. S \in Good
  <2> HIDE DEF Good, pick
  <2> QED BY <1>1, <1>2, <1>9, <1>10, FoldInduction
<1> QED
  BY <1>8, <1>11

-----------------------------------------------------------------------------
LEMMA SubSeqIs ==
  ASSUME NEW S, NEW h \in Seq(S), NEW a \in Nat, NEW n \in Nat, a + n <= Len(h)
  PROVE  /\ SubSeq(h, a + 1, a + n) \in Seq(S)
         /\ Len(SubSeq(h, a + 1, a + n)) = n
         /\ \A i \in 1 .. n : SubSeq(h, a + 1, a + n)[i] = h[a + i]
<1>0. Len(h) \in Nat /\ h \in [1 .. Len(h) -> S]
  OBVIOUS
<1>1. a + 1 \in Int /\ a + n \in Int
  OBVIOUS
<1>2. \A i \in a + 1 .. a + n : h[i] \in S
  BY <1>0
<1>3. /\ SubSeq(h, a + 1, a + n) \in Seq(S)
      /\ Len(SubSeq(h, a + 1, a + n)) = IF a + 1 <= a + n THEN a + n - (a + 1) + 1 ELSE 0
      /\ \A i \in 1 .. a + n - (a + 1) + 1 : SubSeq(h, a + 1, a + n)[i] = h[a + 1 + i - 1]
  BY <1>1, <1>2, SubSeqProperties
<1>4. \A i \in 1 .. n : SubSeq(h, a + 1, a + n)[i] = h[a + i]
  <2> TAKE i \in 1 .. n
  <2>1. i \in 1 .. a + n - (a + 1) + 1 /\ a + 1 + i - 1 = a + i
    OBVIOUS
  <2> QED BY <1>3, <2>1
<1>5. Len(SubSeq(h, a + 1, a + n)) = n
  <2>1. (IF a + 1 <= a + n THEN a + n - (a + 1) + 1 ELSE 0) = n
    OBVIOUS
  <2> QED BY <1>3, <2>1
<1> QED
  BY <1>3, <1>4, <1>5

(* The places that a searcher is built around.                             *)
Row == Seq(SUBSET Bytes) \ {<<>>}
Word == Seq(Bytes) \ {<<>>}

LEMMA RarestPlace ==
  ASSUME NEW needle \in Seq(Bytes), NEW T \in SUBSET Places(needle), T # {}
  PROVE  Rarest(needle, T) \in T
<1>1. Len(needle) \in Nat /\ T \in SUBSET (0 .. Len(needle) - 1)
  BY DEF Places
<1> DEFINE f == [i \in T |-> ByteFreq[At(needle, i)]]
<1>2. f \in [T -> Nat]
  <2> SUFFICES ASSUME NEW i \in T PROVE ByteFreq[At(needle, i)] \in Nat
    OBVIOUS
  <2>1. At(needle, i) \in Bytes
    BY <1>1 DEF At
  <2> QED BY <2>1, SearchConstants
<1>3. HasFirstLeast(T, f)
  <2>1. 0 \in Int /\ Len(needle) - 1 \in Int
    BY <1>1
  <2> HIDE DEF f
  <2> QED BY <1>1, <1>2, <2>1, FirstLeastPlace
<1>4. Rarest(needle, T) = CHOOSE i \in T : \A j \in T : f[i] < f[j] \/ (f[i] = f[j] /\ i <= j)
  BY DEF Rarest, FirstLeast
<1> QED
  BY <1>3, <1>4 DEF HasFirstLeast

LEMMA LiteralPlaces ==
  ASSUME NEW needle \in Word
  PROVE  RareIdx(needle) \in Places(needle) /\ ConfirmIdx(needle) \in Places(needle)
<1>1. Len(needle) \in Nat \ {0}
  BY DEF Word
<1>2. RareIdx(needle) \in Places(needle)
  <2>1. Places(needle) # {}
    BY <1>1 DEF Places
  <2> QED BY <2>1, RarestPlace DEF RareIdx, Word
<1>3. CASE Len(needle) = 1
  BY <1>1, <1>2, <1>3 DEF ConfirmIdx, Places
<1>4. CASE Len(needle) # 1
  <2>1. Places(needle) \ {RareIdx(needle)} # {}
    <3>a. Len(needle) \in Nat /\ Len(needle) # 0 /\ Len(needle) # 1
      BY <1>1, <1>4
    <3>b. \A k \in Nat : k # 0 /\ k # 1 => k >= 2
      OBVIOUS
    <3>0. Len(needle) >= 2 /\ Len(needle) \in Nat
      BY <3>a, <3>b
    <3>1. 0 \in Places(needle) /\ 1 \in Places(needle)
      BY <3>0 DEF Places
    <3> QED BY <3>1
  <2>2. Rarest(needle, Places(needle) \ {RareIdx(needle)}) \in Places(needle)
    BY <2>1, RarestPlace DEF Word
  <2> QED BY <1>2, <1>4, <2>2 DEF ConfirmIdx
<1> QED
  BY <1>3, <1>4

LEMMA RevWindowInside ==
  ASSUME NEW row \in Row
  PROVE  /\ NumSimd(Len(row)) \in 1 .. Len(row) /\ NumSimd(Len(row)) <= 3
         /\ TailOffset(row) \in 0 .. Len(row) - NumSimd(Len(row))
         /\ RevWindow(row) \in Row /\ Len(RevWindow(row)) = NumSimd(Len(row))
         /\ \A i \in 1 .. NumSimd(Len(row)) : RevWindow(row)[i] = row[TailOffset(row) + i]
<1> DEFINE n == NumSimd(Len(row))
           T == 0 .. Len(row) - n
           f == [o \in T |-> Product(row, o)]
<1>1. Len(row) \in Nat \ {0} /\ row \in [1 .. Len(row) -> SUBSET Bytes]
  BY DEF Row
<1>2. n \in 1 .. Len(row) /\ n <= 3
  BY <1>1 DEF NumSimd, Lesser
<1>a. \A o \in T : SubSeq(row, o + 1, o + n) \in Seq(SUBSET Bytes) /\ Len(SubSeq(row, o + 1, o + n)) = n
                   /\ \A i \in 1 .. n : SubSeq(row, o + 1, o + n)[i] = row[o + i]
  <2> HIDE DEF n
  <2> SUFFICES ASSUME NEW o \in T
               PROVE  /\ SubSeq(row, o + 1, o + n) \in Seq(SUBSET Bytes)
                      /\ Len(SubSeq(row, o + 1, o + n)) = n
                      /\ \A i \in 1 .. n : SubSeq(row, o + 1, o + n)[i] = row[o + i]
    OBVIOUS
  <2>1. o \in Nat /\ n \in Nat /\ o + n <= Len(row) /\ row \in Seq(SUBSET Bytes)
    BY <1>1, <1>2 DEF Row
  <2> QED BY <2>1, SubSeqIs
<1>3. f \in [T -> Nat]
  <2> SUFFICES ASSUME NEW o \in T PROVE Product(row, o) \in Nat
    OBVIOUS
  <2>1. SubSeq(row, o + 1, o + n) \in Seq(SUBSET Bytes)
    BY <1>a
  <2>2. SeqOps!FoldLeft(LAMBDA acc, S : acc * FreqSum(S), 1, SubSeq(row, o + 1, o + n)) \in Nat
    BY <2>1, RowProductNat
  <2> QED BY <2>2 DEF Product
<1>4. TailOffset(row) \in T
  <2>1. T # {} /\ T \in SUBSET (0 .. Len(row) - n) /\ 0 \in Int /\ Len(row) - n \in Int
    BY <1>1, <1>2
  <2>2. HasFirstLeast(T, f)
    <3> HIDE DEF f, T, n
    <3> QED BY <2>1, <1>3, FirstLeastPlace
  <2>3. TailOffset(row) = CHOOSE i \in T : \A j \in T : f[i] < f[j] \/ (f[i] = f[j] /\ i <= j)
    BY DEF TailOffset, FirstLeast
  <2> HIDE DEF f, T
  <2> QED BY <2>2, <2>3 DEF HasFirstLeast
<1>5. RevWindow(row) = SubSeq(row, TailOffset(row) + 1, TailOffset(row) + n)
  BY DEF RevWindow
<1>6. RevWindow(row) # <<>>
  BY <1>a, <1>2, <1>4, <1>5
<1> QED
  BY <1>a, <1>2, <1>4, <1>5, <1>6 DEF Row

(* The order of the places is an order of all of them.                     *)
LEMMA FreqOrderCovers ==
  ASSUME NEW row \in Row
  PROVE  /\ FreqOrder(row) \in [1 .. Len(row) -> Places(row)]
         /\ \A i \in Places(row) : \E m \in 1 .. Len(row) : FreqOrder(row)[m] = i
<1> DEFINE n == Len(row)
           P == 0 .. n - 1
           B(i, j) == RarerAt(row, i, j)
           Sorted(order) == \A k, m \in DOMAIN order : k < m => B(order[k], order[m])
           Under(i) == {j \in P : B(j, i)}
           rank == [i \in P |-> Cardinality(Under(i)) + 1]
<1>0. n \in Nat \ {0} /\ row \in [1 .. n -> SUBSET Bytes] /\ P = Places(row)
  BY DEF Row, Places
<1>1. \A i \in P : PlaceFreq(row, i) \in Nat
  <2> TAKE i \in P
  <2>1. At(row, i) \in SUBSET Bytes
    BY <1>0 DEF At
  <2> QED BY <2>1, FreqSumNat DEF PlaceFreq
<1>2. /\ \A i, j, k \in P : B(i, j) /\ B(j, k) => B(i, k)
      /\ \A i, j \in P : B(i, j) => ~ B(j, i)
      /\ \A i, j \in P : i # j => B(i, j) \/ B(j, i)
  <2>1. \A i, j \in P : B(i, j) <=> \/ PlaceFreq(row, i) < PlaceFreq(row, j)
                                    \/ (PlaceFreq(row, i) = PlaceFreq(row, j) /\ i < j)
    BY DEF RarerAt
  <2> HIDE DEF B
  <2>2. \A i, j, k \in P : B(i, j) /\ B(j, k) => B(i, k)
    BY <1>0, <1>1, <2>1
  <2>3. \A i, j \in P : B(i, j) => ~ B(j, i)
    BY <1>0, <1>1, <2>1
  <2>4. \A i, j \in P : i # j => B(i, j) \/ B(j, i)
    BY <1>0, <1>1, <2>1
  <2> QED BY <2>2, <2>3, <2>4
<1>3. IsFiniteSet(P) /\ Cardinality(P) = n /\ IsFiniteSet(1 .. n) /\ Cardinality(1 .. n) = n
  <2>1. 0 \in Int /\ 1 \in Int /\ n - 1 \in Int /\ n \in Int /\ ~ (0 > n - 1) /\ ~ (1 > n)
    BY <1>0
  <2>2. IsFiniteSet(P) /\ Cardinality(P) = (n - 1) - 0 + 1
    BY <2>1, FS_Interval
  <2>3. IsFiniteSet(1 .. n) /\ Cardinality(1 .. n) = n - 1 + 1
    BY <2>1, FS_Interval
  <2> QED BY <2>1, <2>2, <2>3
<1> HIDE DEF B
<1>4. \A i \in P : IsFiniteSet(Under(i)) /\ Cardinality(Under(i)) \in 0 .. n - 1
  <2> TAKE i \in P
  <2>1. Under(i) \in SUBSET (P \ {i})
    BY <1>2
  <2>2. IsFiniteSet(P \ {i}) /\ Cardinality(P \ {i}) = n - 1
    <3> HIDE DEF P, n
    <3> QED BY <1>3, FS_RemoveElement
  <2>3. IsFiniteSet(Under(i)) /\ Cardinality(Under(i)) <= n - 1
    <3> HIDE DEF Under
    <3>1. IsFiniteSet(Under(i)) /\ Cardinality(Under(i)) <= Cardinality(P \ {i})
      BY <2>1, <2>2, FS_Subset
    <3> QED BY <2>2, <3>1
  <2>4. Cardinality(Under(i)) \in Nat
    <3> HIDE DEF Under
    <3> QED BY <2>3, FS_CardinalityType
  <2> HIDE DEF Under
  <2> QED BY <1>0, <2>3, <2>4
<1>5. \A i, k \in P : B(i, k) => Cardinality(Under(i)) < Cardinality(Under(k))
  <2> SUFFICES ASSUME NEW i \in P, NEW k \in P, B(i, k)
               PROVE  Cardinality(Under(i)) < Cardinality(Under(k))
    OBVIOUS
  <2>1. Under(i) \in SUBSET Under(k)
    BY <1>2
  <2>2. i \in Under(k) /\ i \notin Under(i)
    BY <1>2
  <2> HIDE DEF Under
  <2>3. /\ Cardinality(Under(i)) <= Cardinality(Under(k))
        /\ Cardinality(Under(k)) = Cardinality(Under(i)) => Under(k) = Under(i)
    BY <1>4, <2>1, FS_Subset
  <2>4. Cardinality(Under(i)) # Cardinality(Under(k))
    BY <2>2, <2>3
  <2>5. Cardinality(Under(i)) \in 0 .. n - 1 /\ Cardinality(Under(k)) \in 0 .. n - 1
    BY <1>4
  <2> QED BY <1>0, <2>3, <2>4, <2>5
<1> HIDE DEF Under
<1>6. rank \in [P -> 1 .. n] /\ \A i, k \in P : i # k => rank[i] # rank[k]
  <2>1. rank \in [P -> 1 .. n]
    BY <1>0, <1>4
  <2>2. \A i, k \in P : i # k => rank[i] # rank[k]
    <3> SUFFICES ASSUME NEW i \in P, NEW k \in P, i # k PROVE rank[i] # rank[k]
      OBVIOUS
    <3>1. Cardinality(Under(i)) # Cardinality(Under(k))
      BY <1>0, <1>2, <1>4, <1>5
    <3> QED BY <1>0, <1>4, <3>1
  <2> QED BY <2>1, <2>2
<1>7. \A m \in 1 .. n : \E i \in P : rank[i] = m
  <2> HIDE DEF rank
  <2>1. rank \in Injection(P, 1 .. n)
    BY <1>6 DEF Injection, IsInjective
  <2>2. rank \in Surjection(P, 1 .. n)
    <3> HIDE DEF P
    <3> QED BY <1>3, <2>1, FS_Injection
  <2> QED BY <2>2 DEF Surjection
<1> DEFINE order == [m \in 1 .. n |-> CHOOSE i \in P : rank[i] = m]
<1>8. order \in [1 .. n -> P] /\ Sorted(order)
  <2>1. \A m \in 1 .. n : order[m] \in P /\ rank[order[m]] = m
    <3> HIDE DEF rank
    <3> QED BY <1>7
  <2>2. \A k, m \in 1 .. n : k < m => B(order[k], order[m])
    <3> SUFFICES ASSUME NEW k \in 1 .. n, NEW m \in 1 .. n, k < m, ~ B(order[k], order[m])
                 PROVE  FALSE
      OBVIOUS
    <3> HIDE DEF order
    <3>1. order[k] \in P /\ order[m] \in P /\ rank[order[k]] = k /\ rank[order[m]] = m
      BY <2>1
    <3>2. CASE order[k] = order[m]
      <4> HIDE DEF rank
      <4>1. k = m
        BY <3>1, <3>2
      <4> QED BY <1>0, <4>1
    <3>3. CASE order[k] # order[m]
      <4>1. B(order[m], order[k])
        BY <1>2, <3>1, <3>3
      <4>2. Cardinality(Under(order[m])) < Cardinality(Under(order[k]))
        BY <1>5, <3>1, <4>1
      <4>3. m = Cardinality(Under(order[m])) + 1 /\ k = Cardinality(Under(order[k])) + 1
        BY <3>1
      <4>4. Cardinality(Under(order[m])) \in Int /\ Cardinality(Under(order[k])) \in Int
        BY <1>4, <3>1
      <4> QED BY <4>2, <4>3, <4>4
    <3> QED BY <3>2, <3>3
  <2> QED BY <2>1, <2>2
<1>9. FreqOrder(row) \in [1 .. n -> P] /\ Sorted(FreqOrder(row))
  <2>1. FreqOrder(row) = CHOOSE o \in [1 .. n -> P] : Sorted(o)
    BY <1>0 DEF FreqOrder, B
  <2> HIDE DEF Sorted, order
  <2> QED BY <2>1, <1>8
<1>10. FreqOrder(row) \in Injection(1 .. n, P)
  <2> DEFINE o == FreqOrder(row)
  <2>0. o \in [1 .. n -> P] /\ \A k, m \in 1 .. n : k < m => B(o[k], o[m])
    BY <1>9
  <2> HIDE DEF o
  <2>1. \A k, m \in 1 .. n : o[k] = o[m] => k = m
    <3> SUFFICES ASSUME NEW k \in 1 .. n, NEW m \in 1 .. n, o[k] = o[m], k # m PROVE FALSE
      OBVIOUS
    <3>0. o[k] \in P
      BY <2>0
    <3>1. CASE k < m
      BY <2>0, <1>2, <3>0, <3>1
    <3>2. CASE m < k
      BY <2>0, <1>2, <3>0, <3>2
    <3> QED BY <1>0, <3>1, <3>2
  <2>2. o \in Injection(1 .. n, P)
    BY <2>0, <2>1 DEF Injection, IsInjective
  <2> QED BY <2>2 DEF o
<1>11. FreqOrder(row) \in Surjection(1 .. n, P)
  <2> HIDE DEF P
  <2> QED BY <1>3, <1>10, FS_Injection
<1>12. \A i \in P : \E m \in 1 .. n : FreqOrder(row)[m] = i
  BY <1>11 DEF Surjection
<1> QED
  BY <1>0, <1>9, <1>12

-----------------------------------------------------------------------------
(* A literal compares a word WordBytes at a time.                          *)
LEMMA DivisionBounds ==
  ASSUME NEW w \in Nat \ {0}, NEW n \in Nat
  PROVE  n \div w \in Nat /\ w * (n \div w) <= n /\ n < w * (n \div w) + w
OBVIOUS

LEMMA RemainderBounds ==
  ASSUME NEW w \in Nat \ {0}, NEW n \in Nat
  PROVE  n % w \in 0 .. w - 1 /\ n = w * (n \div w) + (n % w)
OBVIOUS

LEMMA ProductMonotone ==
  ASSUME NEW w \in Nat, NEW m \in Nat, NEW n \in Nat, m <= n
  PROVE  w * m \in Nat /\ w * n \in Nat /\ w * m <= w * n
<1>1. n - m \in Nat /\ n = m + (n - m)
  OBVIOUS
<1>2. w * m \in Nat /\ w * (n - m) \in Nat
  BY <1>1
<1>3. w * n = w * m + w * (n - m)
  BY <1>1
<1> QED
  BY <1>2, <1>3

(* The place of a byte among the parts that are compared.                  *)
LEMMA PartOf ==
  ASSUME NEW len \in Nat, NEW i \in 1 .. len
  PROVE  \E c \in 1 .. (len + WordBytes - 1) \div WordBytes, j \in 1 .. WordBytes : (c - 1) * WordBytes + j = i
<1> DEFINE w == WordBytes
           q == (i - 1) \div w
           k == (len + w - 1) \div w
<1>1. w \in Nat \ {0} /\ i - 1 \in Nat /\ len + w - 1 \in Nat
  BY SearchConstants
<1> HIDE DEF w
<1>2. q \in Nat /\ w * q <= i - 1 /\ i - 1 < w * q + w
  BY <1>1, DivisionBounds
<1>3. k \in Nat /\ len + w - 1 < w * k + w
  BY <1>1, DivisionBounds
<1> HIDE DEF q, k
<1>4. q + 1 <= k
  <2> SUFFICES ASSUME ~ (q + 1 <= k) PROVE FALSE
    OBVIOUS
  <2>1. k <= q
    BY <1>2, <1>3
  <2>2. w * k <= w * q /\ w * k \in Nat /\ w * q \in Nat
    BY <1>1, <1>2, <1>3, <2>1, ProductMonotone
  <2> QED BY <1>1, <1>2, <1>3, <2>2
<1> DEFINE c == q + 1
           j == i - w * q
<1>5. w * q \in Nat /\ (c - 1) * w = w * q
  BY <1>1, <1>2
<1>6. c \in 1 .. k /\ j \in 1 .. w /\ (c - 1) * w + j = i
  BY <1>1, <1>2, <1>3, <1>4, <1>5
<1> HIDE DEF c, j
<1> QED
  BY <1>6 DEF k, w

LEMMA ChunksEqual ==
  ASSUME NEW u \in Seq(Bytes), NEW v \in Seq(Bytes), Len(u) = Len(v)
  PROVE  Chunks(u) = Chunks(v) <=> u = v
<1> SUFFICES ASSUME Chunks(u) = Chunks(v), NEW i \in 1 .. Len(u) PROVE u[i] = v[i]
  <2>1. (\A i \in 1 .. Len(u) : u[i] = v[i]) => u = v
    BY SeqEqual
  <2> QED BY <2>1
<1>1. Len(u) \in Nat
  OBVIOUS
<1>2. PICK c \in 1 .. (Len(u) + WordBytes - 1) \div WordBytes, j \in 1 .. WordBytes : (c - 1) * WordBytes + j = i
  BY <1>1, PartOf
<1>3. Chunks(u)[c] = PaddedWord(u, (c - 1) * WordBytes) /\ Chunks(v)[c] = PaddedWord(v, (c - 1) * WordBytes)
  BY <1>2 DEF Chunks
<1>4. PaddedWord(u, (c - 1) * WordBytes)[j] = u[i] /\ PaddedWord(v, (c - 1) * WordBytes)[j] = v[i]
  BY <1>1, <1>2 DEF PaddedWord
<1> QED
  BY <1>3, <1>4

LEMMA RemainderIs ==
  ASSUME NEW w \in Nat \ {0}, NEW q \in Nat, NEW r \in 0 .. w - 1
  PROVE  (w * q + r) % w = r
<1> DEFINE n == w * q + r
           k == n \div w
<1>1. n \in Nat /\ w * q \in Nat /\ w \in Nat
  OBVIOUS
<1> HIDE DEF n
<1>2. k \in Nat /\ n % w \in 0 .. w - 1 /\ n = w * k + (n % w)
  BY <1>1, DivisionBounds, RemainderBounds
<1> HIDE DEF k
<1>3. w * k \in Nat
  BY <1>1, <1>2
<1>4. ~ (k + 1 <= q)
  <2> SUFFICES ASSUME k + 1 <= q PROVE FALSE
    OBVIOUS
  <2>1. w * (k + 1) <= w * q
    BY <1>1, <1>2, ProductMonotone
  <2>2. w * (k + 1) = w * k + w
    BY <1>1, <1>2
  <2> QED BY <1>1, <1>2, <1>3, <2>1, <2>2 DEF n
<1>5. ~ (q + 1 <= k)
  <2> SUFFICES ASSUME q + 1 <= k PROVE FALSE
    OBVIOUS
  <2>1. w * (q + 1) <= w * k
    BY <1>1, <1>2, ProductMonotone
  <2>2. w * (q + 1) = w * q + w
    BY <1>1
  <2> QED BY <1>1, <1>2, <1>3, <2>1, <2>2 DEF n
<1>6. k = q
  BY <1>2, <1>4, <1>5
<1> QED
  BY <1>1, <1>2, <1>3, <1>6 DEF n

-----------------------------------------------------------------------------
(* A row of sets in a haystack: where it begins, and where it ends when it *)
(* is read from its end.                                                   *)
RowAt(h, row, p) == \A i \in 1 .. Len(row) : h[p + i] \in row[i]
WordAt(h, word, p) == \A i \in 1 .. Len(word) : h[p + i] = word[i]
RowEndsAt(h, row, p) == \A i \in 1 .. Len(row) : h[p + 2 - i] \in row[i]

LEMMA ByteOfSet ==
  ASSUME NEW S \in SUBSET Bytes, IsByte(S)
  PROVE  S = {ByteOf(S)} /\ ByteOf(S) \in Bytes
<1>1. IsFiniteSet(S)
  BY BytesFinite, FS_Subset
<1>2. PICK x : S = {x}
  BY <1>1, FS_Singleton DEF IsByte
<1>3. ByteOf(S) = x
  BY <1>2 DEF ByteOf
<1> QED
  BY <1>2, <1>3

LEMMA LiteralFields ==
  ASSUME NEW kind, NEW word \in Word, NEW tail, NEW t, t = LiteralSearch(kind, word, tail)
  PROVE  /\ t.k = kind /\ t.tail = tail /\ t.len = Len(word) /\ t.len \in Nat \ {0}
         /\ t.rare \in 0 .. t.len - 1 /\ t.confirm \in 0 .. t.len - 1
         /\ t.rareByte = word[t.rare + 1] /\ t.confirmByte = word[t.confirm + 1] /\ t.chunks = Chunks(word)
<1>1. Len(word) \in Nat \ {0}
  BY DEF Word
<1>2. RareIdx(word) \in 0 .. Len(word) - 1 /\ ConfirmIdx(word) \in 0 .. Len(word) - 1
  BY LiteralPlaces DEF Places
<1>3. At(word, RareIdx(word)) = word[RareIdx(word) + 1] /\ At(word, ConfirmIdx(word)) = word[ConfirmIdx(word) + 1]
  BY <1>2 DEF At
<1> QED
  BY <1>1, <1>2, <1>3 DEF LiteralSearch

(* A literal is verified where its word stands, and there its two bytes    *)
(* are seen.                                                               *)
LEMMA LiteralVerified ==
  ASSUME NEW kind, NEW word \in Word, NEW tail, NEW t, t = LiteralSearch(kind, word, tail),
         NEW h \in Seq(Bytes), NEW p \in 0 .. Len(h) - t.len
  PROVE  /\ Verify(t, h, p) <=> WordAt(h, word, p)
         /\ Verify(t, h, p) => At(h, p + t.rare) = t.rareByte /\ At(h, p + t.confirm) = t.confirmByte
<1> DEFINE u == SubSeq(h, p + 1, p + t.len)
<1>1. t.len = Len(word) /\ t.len \in Nat \ {0} /\ t.chunks = Chunks(word)
      /\ t.rare \in 0 .. t.len - 1 /\ t.confirm \in 0 .. t.len - 1
      /\ t.rareByte = word[t.rare + 1] /\ t.confirmByte = word[t.confirm + 1]
  BY LiteralFields
<1>2. Len(h) \in Nat /\ p \in Nat /\ p + t.len <= Len(h)
  BY <1>1
<1>3. u \in Seq(Bytes) /\ Len(u) = Len(word) /\ \A i \in 1 .. t.len : u[i] = h[p + i]
  <2>1. t.len \in Nat
    BY <1>1
  <2> QED BY <1>1, <1>2, <2>1, SubSeqIs
<1>4. Verify(t, h, p) <=> Chunks(u) = Chunks(word)
  BY <1>1 DEF Verify
<1> HIDE DEF u
<1>5. Verify(t, h, p) <=> u = word
  BY <1>3, <1>4, ChunksEqual DEF Word
<1>6. u = word <=> \A i \in 1 .. t.len : u[i] = word[i]
  <2>1. (\A i \in 1 .. Len(u) : u[i] = word[i]) => u = word
    BY <1>3, SeqEqual DEF Word
  <2> QED BY <1>1, <1>3, <2>1
<1>7. Verify(t, h, p) <=> \A i \in 1 .. t.len : h[p + i] = word[i]
  BY <1>3, <1>5, <1>6
<1>8. ASSUME Verify(t, h, p), NEW j \in 0 .. t.len - 1 PROVE At(h, p + j) = word[j + 1]
  <2>1. h[p + (j + 1)] = word[j + 1]
    BY <1>1, <1>7, <1>8
  <2>2. p + j \in 0 .. Len(h) - 1 /\ p + j + 1 = p + (j + 1)
    BY <1>1, <1>2
  <2> QED BY <2>1, <2>2 DEF At
<1> QED
  BY <1>1, <1>7, <1>8 DEF WordAt

LEMMA NeedleIsWord ==
  ASSUME NEW row \in Row, NEW n \in 1 .. Len(row), \A i \in 1 .. n : IsByte(row[i])
  PROVE  Needle(row, n) \in Word /\ Len(Needle(row, n)) = n /\ \A i \in 1 .. n : row[i] = {Needle(row, n)[i]}
<1>1. Len(row) \in Nat /\ row \in [1 .. Len(row) -> SUBSET Bytes]
  BY DEF Row
<1>2. \A i \in 1 .. n : row[i] = {ByteOf(row[i])} /\ ByteOf(row[i]) \in Bytes
  BY <1>1, ByteOfSet
<1>3. Needle(row, n) = [i \in 1 .. n |-> ByteOf(row[i])]
  BY DEF Needle
<1>4. Needle(row, n) \in Seq(Bytes) /\ Len(Needle(row, n)) = n
  BY <1>1, <1>2, <1>3
<1> QED
  BY <1>2, <1>3, <1>4 DEF Word

LEMMA ReversedIsWord ==
  ASSUME NEW row \in Row, \A i \in 1 .. Len(row) : IsByte(row[i]),
         NEW word, word = [i \in DOMAIN row |-> ByteOf(row[Len(row) + 1 - i])]
  PROVE  word \in Word /\ Len(word) = Len(row) /\ \A i \in 1 .. Len(row) : row[i] = {word[Len(row) + 1 - i]}
<1>1. Len(row) \in Nat \ {0} /\ row \in [1 .. Len(row) -> SUBSET Bytes] /\ DOMAIN row = 1 .. Len(row)
  BY DEF Row
<1>2. \A i \in 1 .. Len(row) : row[i] = {ByteOf(row[i])} /\ ByteOf(row[i]) \in Bytes
  BY <1>1, ByteOfSet
<1>3. \A i \in 1 .. Len(row) : Len(row) + 1 - i \in 1 .. Len(row) /\ Len(row) + 1 - (Len(row) + 1 - i) = i
  BY <1>1
<1>4. word \in Seq(Bytes) /\ Len(word) = Len(row)
  BY <1>1, <1>2, <1>3
<1>5. \A i \in 1 .. Len(row) : word[Len(row) + 1 - i] = ByteOf(row[i])
  BY <1>1, <1>3
<1> QED
  BY <1>1, <1>2, <1>4, <1>5 DEF Word

-----------------------------------------------------------------------------
(* What each searcher takes for a match, and what it lets through before   *)
(* it looks closer.                                                        *)
LEMMA LiteralSearches ==
  ASSUME NEW row \in Row, NEW n \in 1 .. Len(row), \A i \in 1 .. n : IsByte(row[i]),
         NEW t, t = LiteralSearch("literal", Needle(row, n), 0),
         NEW h \in Seq(Bytes), NEW p \in 0 .. Len(h) - n
  PROVE  Verify(t, h, p) <=> \A i \in 1 .. n : h[p + i] \in row[i]
<1>1. Needle(row, n) \in Word /\ Len(Needle(row, n)) = n /\ \A i \in 1 .. n : row[i] = {Needle(row, n)[i]}
  BY NeedleIsWord
<1>2. t.len = n
  BY <1>1, LiteralFields
<1>3. Verify(t, h, p) <=> WordAt(h, Needle(row, n), p)
  <2>1. p \in 0 .. Len(h) - t.len
    BY <1>2
  <2> DEFINE word == Needle(row, n)
  <2>2. word \in Word /\ t = LiteralSearch("literal", word, 0)
    BY <1>1
  <2> HIDE DEF word
  <2>3. Verify(t, h, p) <=> WordAt(h, word, p)
    BY <2>1, <2>2, LiteralVerified
  <2> QED BY <2>3 DEF word
<1> QED
  BY <1>1, <1>3 DEF WordAt

LEMMA RevLiteralSearches ==
  ASSUME NEW row \in Row, \A i \in 1 .. Len(row) : IsByte(row[i]),
         NEW tail, NEW t, t = RevSearch(row, tail),
         NEW h \in Seq(Bytes)
  PROVE  /\ \E word \in Word : t = LiteralSearch("revliteral", word, tail) /\ Len(word) = Len(row)
         /\ \A p \in 0 .. Len(h) - t.len : Verify(t, h, p) <=> RowEndsAt(h, row, p + t.len - 1)
<1> DEFINE word == [i \in DOMAIN row |-> ByteOf(row[Len(row) + 1 - i])]
<1>1. word \in Word /\ Len(word) = Len(row) /\ \A i \in 1 .. Len(row) : row[i] = {word[Len(row) + 1 - i]}
  BY ReversedIsWord
<1>2. DOMAIN row = 1 .. Len(row) /\ Len(row) \in Nat
  BY DEF Row
<1>3. t = LiteralSearch("revliteral", word, tail)
  BY <1>2 DEF RevSearch
<1> HIDE DEF word
<1>4. t.len = Len(row)
  BY <1>1, <1>3, LiteralFields
<1>5. ASSUME NEW p \in 0 .. Len(h) - t.len PROVE Verify(t, h, p) <=> RowEndsAt(h, row, p + t.len - 1)
  <2>a. Verify(t, h, p) <=> WordAt(h, word, p)
    BY <1>1, <1>3, LiteralVerified
  <2>1. Verify(t, h, p) <=> \A i \in 1 .. Len(row) : h[p + i] = word[i]
    BY <1>1, <2>a DEF WordAt
  <2>2. \A i \in 1 .. Len(row) : /\ Len(row) + 1 - i \in 1 .. Len(row)
                                 /\ Len(row) + 1 - (Len(row) + 1 - i) = i
                                 /\ p + t.len - 1 + 2 - i = p + (Len(row) + 1 - i)
    BY <1>2, <1>4
  <2>3. ASSUME \A i \in 1 .. Len(row) : h[p + i] = word[i] PROVE RowEndsAt(h, row, p + t.len - 1)
    <3> SUFFICES ASSUME NEW i \in 1 .. Len(row) PROVE h[p + t.len - 1 + 2 - i] \in row[i]
      BY DEF RowEndsAt
    <3>1. h[p + (Len(row) + 1 - i)] = word[Len(row) + 1 - i]
      BY <2>2, <2>3
    <3> QED BY <1>1, <2>2, <3>1
  <2>4. ASSUME RowEndsAt(h, row, p + t.len - 1), NEW i \in 1 .. Len(row) PROVE h[p + i] = word[i]
    <3>1. h[p + t.len - 1 + 2 - (Len(row) + 1 - i)] \in row[Len(row) + 1 - i]
      BY <2>2, <2>4 DEF RowEndsAt
    <3>2. p + t.len - 1 + 2 - (Len(row) + 1 - i) = p + i
      BY <1>2, <1>4
    <3>3. row[Len(row) + 1 - i] = {word[i]}
      BY <1>1, <2>2
    <3> QED BY <3>1, <3>2, <3>3
  <2> QED BY <2>1, <2>3, <2>4
<1> QED
  BY <1>1, <1>3, <1>5

LEMMA VerifyFwdIs ==
  ASSUME NEW row \in Row, NEW t, t.sets = row,
         \A j \in DOMAIN t.order : t.order[j] \in Places(row),
         \A i \in Places(row) : \E j \in DOMAIN t.order : t.order[j] = i,
         NEW h \in Seq(Bytes), NEW p \in 0 .. Len(h) - Len(row)
  PROVE  VerifyFwd(t, h, p) <=> RowAt(h, row, p)
<1>1. Len(row) \in Nat \ {0} /\ Len(h) \in Nat
  BY DEF Row
<1>2. \A i \in Places(row) : At(h, p + i) = h[p + (i + 1)] /\ At(row, i) = row[i + 1] /\ i + 1 \in 1 .. Len(row)
  <2> TAKE i \in Places(row)
  <2>1. p + i \in 0 .. Len(h) - 1 /\ i \in 0 .. Len(row) - 1 /\ p + i + 1 = p + (i + 1) /\ i + 1 \in 1 .. Len(row)
    BY <1>1 DEF Places
  <2> QED BY <2>1 DEF At
<1>3. VerifyFwd(t, h, p) <=> \A i \in Places(row) : At(h, p + i) \in At(row, i)
  BY DEF VerifyFwd
<1>4. \A i \in 1 .. Len(row) : i - 1 \in Places(row) /\ i - 1 + 1 = i
  BY <1>1 DEF Places
<1> QED
  BY <1>2, <1>3, <1>4 DEF RowAt

LEMMA TeddyFields ==
  ASSUME NEW row \in Row, NEW t, t = FwdTeddy(row)
  PROVE  /\ t.k = "teddy" /\ t.len = Len(row) /\ t.tail = 0 /\ t.sets = row
         /\ t.offsets \in [1 .. NumSimd(Len(row)) -> Places(row)]
         /\ t.masks = [m \in 1 .. NumSimd(Len(row)) |-> Masks(At(row, t.offsets[m]))]
         /\ \A j \in DOMAIN t.order : t.order[j] \in Places(row)
         /\ \A i \in Places(row) : \E j \in DOMAIN t.order : t.order[j] = i
<1> DEFINE o == FreqOrder(row)
           n == Len(row)
           m == NumSimd(Len(row))
           head == SubSeq(o, 1, m)
           rest == SubSeq(o, m + 1, n)
<1>1. n \in Nat \ {0} /\ m \in 1 .. n
  BY RevWindowInside DEF Row
<1>2. o \in [1 .. n -> Places(row)] /\ \A i \in Places(row) : \E j \in 1 .. n : o[j] = i
  BY FreqOrderCovers
<1>3. o \in Seq(Places(row)) /\ Len(o) = n
  BY <1>1, <1>2
<1> HIDE DEF o, n, m
<1>4. head \in Seq(Places(row)) /\ Len(head) = m /\ \A i \in 1 .. m : head[i] = o[i]
  <2>1. 0 \in Nat /\ m \in Nat /\ 0 + m <= Len(o) /\ 0 + 1 = 1 /\ 0 + m = m /\ \A i \in 1 .. m : 0 + i = i
    BY <1>1, <1>3
  <2>2. /\ SubSeq(o, 0 + 1, 0 + m) \in Seq(Places(row))
        /\ Len(SubSeq(o, 0 + 1, 0 + m)) = m
        /\ \A i \in 1 .. m : SubSeq(o, 0 + 1, 0 + m)[i] = o[0 + i]
    BY <1>3, <2>1, SubSeqIs
  <2> QED BY <2>1, <2>2
<1>5. rest \in Seq(Places(row)) /\ Len(rest) = n - m /\ \A i \in 1 .. n - m : rest[i] = o[m + i]
  <2>1. m \in Nat /\ n - m \in Nat /\ m + (n - m) <= Len(o) /\ m + (n - m) = n
    BY <1>1, <1>3
  <2>2. /\ SubSeq(o, m + 1, m + (n - m)) \in Seq(Places(row))
        /\ Len(SubSeq(o, m + 1, m + (n - m))) = n - m
        /\ \A i \in 1 .. n - m : SubSeq(o, m + 1, m + (n - m))[i] = o[m + i]
    BY <1>3, <2>1, SubSeqIs
  <2> QED BY <2>1, <2>2
<1>6. /\ t.k = "teddy" /\ t.len = n /\ t.tail = 0 /\ t.sets = row
      /\ t.offsets = head /\ t.order = rest \o head
      /\ t.masks = [j \in 1 .. m |-> Masks(At(row, o[j]))]
  BY DEF FwdTeddy, FirstOf, o, n, m
<1> HIDE DEF head, rest
<1>7. /\ rest \o head \in Seq(Places(row)) /\ Len(rest \o head) = n - m + m
      /\ \A i \in 1 .. n - m + m : (rest \o head)[i] = IF i <= n - m THEN rest[i] ELSE head[i - (n - m)]
  <2>1. /\ rest \o head \in Seq(Places(row)) /\ Len(rest \o head) = Len(rest) + Len(head)
        /\ \A i \in 1 .. Len(rest) + Len(head) :
             (rest \o head)[i] = IF i <= Len(rest) THEN rest[i] ELSE head[i - Len(rest)]
    BY <1>4, <1>5, ConcatProperties
  <2> QED BY <1>4, <1>5, <2>1
<1>8. \A j \in DOMAIN t.order : t.order[j] \in Places(row)
  BY <1>6, <1>7
<1>9. ASSUME NEW i \in Places(row) PROVE \E j \in DOMAIN t.order : t.order[j] = i
  <2>1. PICK j \in 1 .. n : o[j] = i
    BY <1>2
  <2>2. n - m + m = n /\ DOMAIN t.order = 1 .. n
    BY <1>1, <1>6, <1>7
  <2>3. CASE j <= m
    <3>1. n - m + j \in 1 .. n /\ ~ (n - m + j <= n - m) /\ n - m + j - (n - m) = j /\ j \in 1 .. m
      BY <1>1, <2>3
    <3> DEFINE k == n - m + j
    <3>a. k \in 1 .. n - m + m /\ ~ (k <= n - m) /\ k - (n - m) = j
      BY <1>1, <2>3, <3>1
    <3> HIDE DEF k
    <3>b. (rest \o head)[k] = head[k - (n - m)]
      BY <1>7, <3>a
    <3>2. t.order[n - m + j] = head[j]
      BY <1>6, <3>a, <3>b DEF k
    <3> QED BY <1>4, <2>1, <2>2, <3>1, <3>2
  <2>4. CASE j > m
    <3>1. j - m \in 1 .. n - m /\ j - m \in 1 .. n /\ j - m <= n - m /\ m + (j - m) = j
      BY <1>1, <2>4
    <3>2. t.order[j - m] = rest[j - m]
      BY <1>6, <1>7, <2>2, <3>1
    <3> QED BY <1>5, <2>1, <2>2, <3>1, <3>2
  <2> QED BY <1>1, <2>3, <2>4
<1>10. t.offsets \in [1 .. m -> Places(row)] /\ t.masks = [j \in 1 .. m |-> Masks(At(row, t.offsets[j]))]
  BY <1>4, <1>6
<1> QED
  BY <1>6, <1>8, <1>9, <1>10 DEF n, m

LEMMA TeddySearches ==
  ASSUME NEW row \in Row, NEW t, t = FwdTeddy(row),
         NEW h \in Seq(Bytes), NEW p \in 0 .. Len(h) - Len(row)
  PROVE  /\ VerifyFwd(t, h, p) <=> RowAt(h, row, p)
         /\ RowAt(h, row, p) => \A m \in DOMAIN t.masks : Passes(t.masks[m], At(h, p + t.offsets[m]))
<1>0. /\ t.sets = row /\ t.offsets \in [1 .. NumSimd(Len(row)) -> Places(row)]
      /\ t.masks = [m \in 1 .. NumSimd(Len(row)) |-> Masks(At(row, t.offsets[m]))]
      /\ \A j \in DOMAIN t.order : t.order[j] \in Places(row)
      /\ \A i \in Places(row) : \E j \in DOMAIN t.order : t.order[j] = i
  BY TeddyFields
<1>1. VerifyFwd(t, h, p) <=> RowAt(h, row, p)
  BY <1>0, VerifyFwdIs
<1>2. ASSUME RowAt(h, row, p), NEW m \in DOMAIN t.masks
      PROVE  Passes(t.masks[m], At(h, p + t.offsets[m]))
  <2>1. t.offsets[m] \in Places(row) /\ t.masks[m] = Masks(At(row, t.offsets[m]))
    BY <1>0
  <2> DEFINE i == t.offsets[m]
  <2>2. i \in 0 .. Len(row) - 1 /\ Len(row) \in Nat /\ Len(h) \in Nat
    BY <2>1 DEF Places, Row
  <2>a. i + 1 \in 1 .. Len(row)
    <3> HIDE DEF i
    <3> QED BY <2>2
  <2>3. h[p + (i + 1)] \in row[i + 1]
    <3> DEFINE k == i + 1
    <3>1. k \in 1 .. Len(row)
      BY <2>a
    <3> HIDE DEF k
    <3>2. h[p + k] \in row[k]
      BY <1>2, <3>1 DEF RowAt
    <3> QED BY <3>2 DEF k
  <2>4. At(h, p + i) = h[p + (i + 1)] /\ At(row, i) = row[i + 1]
    <3>1. p + i \in 0 .. Len(h) - 1 /\ p + i + 1 = p + (i + 1)
      BY <2>2
    <3> QED BY <2>2, <3>1 DEF At
  <2>5. At(h, p + i) \in At(row, i)
    BY <2>3, <2>4
  <2>6. Passes(Masks(At(row, i)), At(h, p + i))
    <3> DEFINE S == At(row, i)
               b == At(h, p + i)
    <3>1. b \in S
      BY <2>5
    <3> HIDE DEF S, b
    <3>2. Passes(Masks(S), b)
      BY <3>1 DEF Passes, Masks
    <3> QED BY <3>2 DEF S, b
  <2> QED BY <2>1, <2>6
<1> QED
  BY <1>1, <1>2

LEMMA RangesCover ==
  ASSUME NEW S \in SUBSET Bytes, NEW b \in Bytes
  PROVE  InRanges(b, RangesOf(S)) <=> b \in S
<1>1. PICK last \in Nat : Bytes = 0 .. last
  BY BytesAre
<1>2. ASSUME NEW r \in RangesOf(S), r[1] <= b, b <= r[2] PROVE b \in S
  <2>0. r \in S \X S /\ r[1] .. r[2] \subseteq S
    BY DEF RangesOf
  <2>a. r[1] \in S /\ r[2] \in S
    BY <2>0
  <2>b. \A a \in S : a \in Nat
    BY <1>1
  <2>1. r[1] .. r[2] \subseteq S /\ r[1] \in Nat /\ r[2] \in Nat
    BY <2>0, <2>a, <2>b
  <2> QED BY <1>1, <1>2, <2>1
<1>3. ASSUME b \in S PROVE InRanges(b, RangesOf(S))
  <2> DEFINE A == {a \in 0 .. b : a .. b \subseteq S}
             Z == {a \in b .. last : b .. a \subseteq S}
  <2>0. b \in 0 .. last /\ S \in SUBSET (0 .. last) /\ b \in Int /\ 0 \in Int /\ last \in Int
    BY <1>1
  <2>1. b \in A /\ b \in Z
    BY <1>3, <2>0
  <2>2. Least(A) \in A /\ \A n \in A : Least(A) <= n
    <3>1. A \in SUBSET (0 .. b) /\ A # {}
      BY <2>1
    <3> HIDE DEF A
    <3> QED BY <2>0, <3>1, LeastOf
  <2>3. Greatest(Z) \in Z /\ \A n \in Z : n <= Greatest(Z)
    <3>1. Z \in SUBSET (b .. last) /\ Z # {}
      BY <2>1
    <3> HIDE DEF Z
    <3> QED BY <2>0, <3>1, GreatestOf
  <2> DEFINE lo == Least(A)
             hi == Greatest(Z)
  <2>4. lo \in 0 .. b /\ lo .. b \subseteq S /\ hi \in b .. last /\ b .. hi \subseteq S
    BY <2>2, <2>3
  <2>5. lo - 1 \notin S
    <3> SUFFICES ASSUME lo - 1 \in S PROVE FALSE
      OBVIOUS
    <3> HIDE DEF lo
    <3>1. lo - 1 \in 0 .. b /\ lo - 1 .. b \subseteq S
      <4>1. lo - 1 \in 0 .. last
        BY <2>0
      <4>2. \A i \in lo - 1 .. b : i = lo - 1 \/ i \in lo .. b
        BY <2>0, <2>4
      <4> QED BY <2>0, <2>4, <4>1, <4>2
    <3>2. lo <= lo - 1
      BY <2>2, <3>1 DEF lo
    <3> QED BY <2>4, <3>2
  <2>6. hi + 1 \notin S
    <3> SUFFICES ASSUME hi + 1 \in S PROVE FALSE
      OBVIOUS
    <3> HIDE DEF hi
    <3>1. hi + 1 \in b .. last /\ b .. hi + 1 \subseteq S
      <4>1. hi + 1 \in 0 .. last
        BY <2>0
      <4>2. \A i \in b .. hi + 1 : i = hi + 1 \/ i \in b .. hi
        BY <2>0, <2>4
      <4> QED BY <2>0, <2>4, <4>1, <4>2
    <3>2. hi + 1 <= hi
      BY <2>3, <3>1 DEF hi
    <3> QED BY <2>4, <3>2
  <2> HIDE DEF lo, hi
  <2>7. lo .. hi \subseteq S /\ lo <= hi /\ lo \in S /\ hi \in S
    <3>1. \A i \in lo .. hi : i \in lo .. b \/ i \in b .. hi
      BY <2>0, <2>4
    <3>2. lo .. hi \subseteq S /\ lo <= hi /\ lo \in lo .. hi /\ hi \in lo .. hi
      BY <2>0, <2>4, <3>1
    <3> QED BY <3>2
  <2>8. <<lo, hi>> \in RangesOf(S)
    BY <2>5, <2>6, <2>7 DEF RangesOf
  <2>9. <<lo, hi>>[1] <= b /\ b <= <<lo, hi>>[2]
    BY <2>0, <2>4
  <2> QED BY <2>8, <2>9 DEF InRanges
<1> QED
  BY <1>2, <1>3 DEF InRanges

LEMMA SetSearches ==
  ASSUME NEW S \in SUBSET Bytes, NEW t, t = SetSearch(S), t # NoSearcher
  PROVE  t.k \in {"bytes", "ranges"} /\ t.tail = 0 /\ \A b \in Bytes : SetHit(t, b) <=> b \in S
<1>1. CASE Cardinality(S) <= ExactLimit
  BY <1>1 DEF SetSearch, SetHit
<1>2. CASE ~ (Cardinality(S) <= ExactLimit)
  <2>1. t = [k |-> "ranges", ranges |-> RangesOf(S), tail |-> 0]
    BY <1>2 DEF SetSearch, RangeSkip
  <2> QED BY <2>1, RangesCover DEF SetHit
<1> QED
  BY <1>1, <1>2

LEMMA AnchorRangesCover ==
  ASSUME NEW S \in SUBSET Bytes, NEW b \in S
  PROVE  InRanges(b, AnchorRanges(S))
<1>1. CASE Cardinality(RangesOf(S)) <= MAX_RANGE_SETS
  BY <1>1, RangesCover DEF AnchorRanges
<1>2. CASE ~ (Cardinality(RangesOf(S)) <= MAX_RANGE_SETS)
  <2>1. AnchorRanges(S) = RangesOf({c \in S : c < HighByte}) \cup {<<HighByte, Greatest(Bytes)>>}
    BY <1>2 DEF AnchorRanges, CoarseRanges
  <2>2. CASE b < HighByte
    <3> DEFINE low == {c \in S : c < HighByte}
    <3>1. low \in SUBSET Bytes /\ b \in low /\ b \in Bytes
      BY <2>2
    <3>2. InRanges(b, RangesOf(low))
      <4> HIDE DEF low
      <4> QED BY <3>1, RangesCover
    <3> QED BY <2>1, <3>2 DEF InRanges
  <2>3. CASE ~ (b < HighByte)
    <3>1. PICK last \in Nat : Bytes = 0 .. last
      BY BytesAre
    <3>2. b <= Greatest(Bytes)
      <4>1. Bytes \in SUBSET (0 .. last) /\ Bytes # {} /\ 0 \in Int /\ last \in Int
        BY <3>1
      <4>2. \A n \in Bytes : n <= Greatest(Bytes)
        BY <4>1, GreatestOf
      <4> QED BY <4>2
    <3>3. HighByte \in Nat /\ b \in Nat
      BY <3>1, SearchConstants
    <3>4. HighByte <= b
      BY <2>3, <3>3
    <3>5. <<HighByte, Greatest(Bytes)>>[1] <= b /\ b <= <<HighByte, Greatest(Bytes)>>[2]
      BY <3>2, <3>4
    <3> QED BY <2>1, <3>5 DEF InRanges
  <2> QED BY <2>2, <2>3
<1> QED
  BY <1>1, <1>2

LEMMA RangeSearches ==
  ASSUME NEW row \in Row, NEW anchor \in Places(row), NEW common,
         NEW t, t = RangePrefix(row, anchor, common), t # NoSearcher,
         NEW h \in Seq(Bytes), NEW p \in 0 .. Len(h) - Len(row)
  PROVE  /\ VerifyFwd(t, h, p) <=> RowAt(h, row, p)
         /\ RowAt(h, row, p) => InRanges(At(h, p + t.anchor), t.ranges)
<1>0. Len(row) \in Nat \ {0} /\ row \in [1 .. Len(row) -> SUBSET Bytes] /\ Len(h) \in Nat
  BY DEF Row
<1>1. t = [k |-> "range", len |-> Len(row), anchor |-> anchor, ranges |-> AnchorRanges(At(row, anchor)),
           sets |-> row, order |-> [i \in DOMAIN row |-> i - 1], tail |-> 0]
  BY DEF RangePrefix
<1>2. /\ t.sets = row /\ t.anchor = anchor /\ t.ranges = AnchorRanges(At(row, anchor))
      /\ t.order = [i \in 1 .. Len(row) |-> i - 1]
  BY <1>0, <1>1
<1>3. \A j \in DOMAIN t.order : t.order[j] \in Places(row)
  BY <1>0, <1>2 DEF Places
<1>4. \A i \in Places(row) : \E j \in DOMAIN t.order : t.order[j] = i
  <2> TAKE i \in Places(row)
  <2> DEFINE j == i + 1
  <2>2. j \in 1 .. Len(row) /\ j - 1 = i
    BY <1>0 DEF Places
  <2> HIDE DEF j
  <2>3. j \in DOMAIN t.order /\ t.order[j] = j - 1
    BY <1>2, <2>2
  <2> QED BY <2>2, <2>3
<1>5. VerifyFwd(t, h, p) <=> RowAt(h, row, p)
  BY <1>2, <1>3, <1>4, VerifyFwdIs
<1>6. ASSUME RowAt(h, row, p) PROVE InRanges(At(h, p + t.anchor), t.ranges)
  <2>1. anchor + 1 \in 1 .. Len(row) /\ p + anchor \in 0 .. Len(h) - 1 /\ anchor \in 0 .. Len(row) - 1
        /\ p + anchor + 1 = p + (anchor + 1)
    BY <1>0 DEF Places
  <2>2. h[p + (anchor + 1)] \in row[anchor + 1]
    BY <1>6, <2>1 DEF RowAt
  <2>3. At(h, p + anchor) \in At(row, anchor) /\ At(row, anchor) \in SUBSET Bytes
    BY <1>0, <2>1, <2>2 DEF At
  <2> QED BY <1>2, <2>3, AnchorRangesCover
<1> QED
  BY <1>5, <1>6

LEMMA RevTeddySearches ==
  ASSUME NEW row \in Row, NEW tail, NEW t, t = RevTeddy(row, tail),
         NEW h \in Seq(Bytes), NEW p \in Len(row) - 1 .. Len(h) - 1
  PROVE  /\ VerifyRev(t, h, p) <=> RowEndsAt(h, row, p)
         /\ RowEndsAt(h, row, p) => \A m \in DOMAIN t.masks : Passes(t.masks[m], At(h, p - (m - 1)))
<1>0. Len(row) \in Nat \ {0} /\ Len(h) \in Nat /\ NumSimd(Len(row)) \in 1 .. Len(row)
  <2>1. NumSimd(Len(row)) \in 1 .. Len(row)
    BY RevWindowInside
  <2> QED BY <2>1 DEF Row
<1>1. t.sets = row /\ t.len = Len(row) /\ t.masks = [m \in 1 .. NumSimd(Len(row)) |-> Masks(row[m])]
  BY DEF RevTeddy
<1>2. \A i \in 1 .. Len(row) : /\ i - 1 \in Places(row) /\ At(row, i - 1) = row[i]
                               /\ At(h, p - (i - 1)) = h[p + 2 - i]
  <2> TAKE i \in 1 .. Len(row)
  <2>1. /\ i - 1 \in 0 .. Len(row) - 1 /\ i - 1 + 1 = i
        /\ p - (i - 1) \in 0 .. Len(h) - 1 /\ p - (i - 1) + 1 = p + 2 - i
    BY <1>0
  <2> QED BY <2>1 DEF At, Places
<1>3. \A j \in Places(row) : j + 1 \in 1 .. Len(row) /\ j + 1 - 1 = j
  BY <1>0 DEF Places
<1>4. VerifyRev(t, h, p) <=> \A j \in Places(row) : At(h, p - j) \in At(row, j)
  <2>1. p + 1 >= t.len
    BY <1>0, <1>1
  <2> QED BY <1>1, <2>1 DEF VerifyRev
<1>5. VerifyRev(t, h, p) <=> RowEndsAt(h, row, p)
  <2>1. ASSUME VerifyRev(t, h, p), NEW i \in 1 .. Len(row) PROVE h[p + 2 - i] \in row[i]
    <3>1. At(h, p - (i - 1)) \in At(row, i - 1)
      BY <1>2, <1>4, <2>1
    <3> QED BY <1>2, <3>1
  <2>2. ASSUME RowEndsAt(h, row, p), NEW j \in Places(row) PROVE At(h, p - j) \in At(row, j)
    <3>1. h[p + 2 - (j + 1)] \in row[j + 1]
      BY <1>3, <2>2 DEF RowEndsAt
    <3> DEFINE i == j + 1
    <3>2. i \in 1 .. Len(row) /\ i - 1 = j
      BY <1>0, <1>3 DEF Places
    <3> HIDE DEF i
    <3>3. At(row, i - 1) = row[i] /\ At(h, p - (i - 1)) = h[p + 2 - i]
      BY <1>2, <3>2
    <3>4. h[p + 2 - i] \in row[i]
      BY <3>1 DEF i
    <3>5. At(h, p - (i - 1)) \in At(row, i - 1)
      BY <3>3, <3>4
    <3> QED BY <3>2, <3>5
  <2> QED BY <1>4, <2>1, <2>2 DEF RowEndsAt
<1>6. ASSUME RowEndsAt(h, row, p), NEW m \in DOMAIN t.masks PROVE Passes(t.masks[m], At(h, p - (m - 1)))
  <2>1. m \in 1 .. Len(row) /\ t.masks[m] = Masks(row[m])
    BY <1>0, <1>1
  <2>2. At(h, p - (m - 1)) \in row[m]
    BY <1>2, <1>6, <2>1 DEF RowEndsAt
  <2> QED BY <2>1, <2>2 DEF Passes, Masks
<1> QED
  BY <1>5, <1>6

-----------------------------------------------------------------------------
(* The invariant.  What is asked for:                                      *)
AskInv ==
  /\ ask.op \in {"strict", "all", "fwd", "rev", "setfwd", "setrev"}
  /\ ask.sets \in Row /\ ask.hay \in Seq(Bytes)
  /\ ask.from \in 0 .. Len(ask.hay)
  /\ ask.op \in {"setfwd", "setrev"} => Len(ask.sets) = 1
  /\ ask.op = "all" => ask.from = 0
  /\ ask.op = "rev" => ask.hay # <<>>

(* Which searcher runs, and on what.                                       *)
LiteralRuns ==
  /\ ask.op \in {"strict", "all", "fwd"}
  /\ \E n \in 1 .. Len(Sets) :
       /\ \A i \in 1 .. n : IsByte(Sets[i])
       /\ s = LiteralSearch("literal", Needle(Sets, n), 0)
       /\ ask.op # "fwd" => n = Len(Sets)
  /\ run = Frame(SubSeq(ask.hay, ask.from + 1, HayLen), 0, ask.from)
RowRuns ==
  /\ ask.op = "fwd" /\ run = Frame(ask.hay, ask.from, 0)
  /\ \/ s = FwdTeddy(Sets)
     \/ \E anchor \in Places(Sets), common \in {ask.common, FALSE} : s = RangePrefix(Sets, anchor, common) /\ s # NoSearcher
SetRuns ==
  /\ ask.op \in {"setfwd", "setrev"} /\ s = SetSearch(Sets[1]) /\ s # NoSearcher
  /\ run = Frame(ask.hay, ask.from, 0)
RevRuns ==
  /\ ask.op = "rev" /\ s = RevSearch(RevWindow(Sets), TailOffset(Sets))
  /\ run = Frame(ask.hay, ask.from, 0)
SearcherRuns == LiteralRuns \/ RowRuns \/ SetRuns \/ RevRuns

(* Where the run matches: where a row begins, or where it ends.            *)
TheSet == Sets[1]
RevRow == RevWindow(Sets)
Hits ==
  IF Is({"bytes", "ranges"}) THEN {p \in 0 .. N - 1 : At(Hay, p) \in TheSet}
  ELSE IF Is({"literal"}) THEN {p \in 0 .. N - s.len : \A i \in 1 .. s.len : Hay[p + i] \in Sets[i]}
  ELSE IF Is({"teddy", "range"}) THEN {p \in run.from .. N - s.len : RowAt(Hay, Sets, p)}
  ELSE {p \in s.len - 1 .. RevEnd : RowEndsAt(Hay, RevRow, p)}

(* What the loop has behind it when it is at p.                            *)
LoopAt(to, p) ==
  /\ to = "chunks" /\ SetIs("fwd") => p \in 0 .. N /\ \A h \in Hits : h >= p
  /\ to = "chunks" /\ SetIs("rev") => /\ p \in 0 .. N - Lanes /\ p % Lanes = N % Lanes
                                      /\ \A h \in Hits : h < p + Lanes
  /\ to = "tail" /\ SetIs("rev") => \A h \in Hits : h < Gap
  /\ to = "chunks" /\ Is({"literal"}) => /\ p \in Nat /\ p >= s.rare /\ N >= s.len
                                         /\ ask.op # "all" => \A h \in Hits : h + s.rare >= p
  /\ to = "tail" /\ Is({"literal"}) /\ ask.op # "all" => Hits = {}
  /\ to = "chunks" /\ Is({"teddy", "range"}) => p \in Nat /\ p >= run.from /\ \A h \in Hits : h >= p
  /\ to = "chunks" /\ Is({"revliteral"}) => /\ p \in Int /\ p <= RevEnd - (s.len - 1) + s.rare
                                            /\ \A h \in Hits : h - (s.len - 1) + s.rare <= p
  /\ to = "chunks" /\ Is({"revteddy"}) => /\ p \in Nat /\ p >= MinPos /\ p + Lanes - 1 <= RevEnd
                                          /\ \A h \in Hits : h <= p + Lanes - 1
  /\ to = "tail" /\ Is({"revteddy"}) => p \in Int /\ p <= RevEnd /\ \A h \in Hits : h <= p

(* What the loop returns.                                                  *)
Onward == ask.op \notin Reverse
Answer(f) ==
  IF ask.op = "all" \/ Hits = {} THEN f = None
  ELSE \E h \in Hits : f = h + s.tail + run.base /\ \A k \in Hits : IF Onward THEN h <= k ELSE k <= h

(* The matches that a search for all has collected: each is the next after *)
(* the last, and what is left begins at b or later.                        *)
EndOf(acc, k) == IF k = 0 THEN 0 ELSE acc[k][2]
Greedy(acc, b) ==
  /\ acc \in Seq(Nat \X Nat)
  /\ \A k \in 1 .. Len(acc) : /\ acc[k][1] \in Hits /\ acc[k][1] >= EndOf(acc, k - 1)
                              /\ acc[k][2] = acc[k][1] + s.len
                              /\ \A q \in Hits : q >= EndOf(acc, k - 1) => acc[k][1] <= q
  /\ \A q \in Hits : q >= EndOf(acc, Len(acc)) => q >= b
CollectAt(to, p, acc) ==
  ask.op = "all" => /\ to = "call" => acc = <<>>
                    /\ to = "chunks" => Greedy(acc, p - s.rare)
                    /\ to \in {"tail", "returned"} => Greedy(acc, N + 1)

Running == {"call", "chunks", "tail", "returned"}
RunInv ==
  /\ pc \in Running \cup {"build", "done", "unsearched"}
  /\ pc = "build" => result = None /\ matches = <<>> /\ reads = {}
  /\ pc \in Running => /\ SearcherRuns /\ result = None
                       /\ LoopAt(pc, pos) /\ CollectAt(pc, pos, matches)
                       /\ pc = "returned" => Answer(found)

IInv == AskInv /\ RunInv /\ NothingSkipped /\ FoundThere /\ AllFound /\ ReadsInside

-----------------------------------------------------------------------------
(* The haystack of a run is the end of the one asked for.                  *)
LEMMA EndOfHay ==
  ASSUME NEW h \in Seq(Bytes), NEW a \in 0 .. Len(h), NEW u, u = SubSeq(h, a + 1, Len(h))
  PROVE  u \in Seq(Bytes) /\ Len(u) = Len(h) - a /\ \A i \in 1 .. Len(u) : u[i] = h[i + a]
<1> DEFINE n == Len(h) - a
<1>1. Len(h) \in Nat /\ a \in Nat /\ n \in Nat /\ a + n = Len(h) /\ a + n <= Len(h)
  OBVIOUS
<1>2. a + n \in Nat
  BY <1>1
<1>3. u = SubSeq(h, a + 1, a + n)
  BY <1>1
<1> HIDE DEF n
<1>4. u \in Seq(Bytes) /\ Len(u) = n /\ \A i \in 1 .. n : u[i] = h[a + i]
  BY <1>1, <1>3, SubSeqIs
<1>5. \A i \in 1 .. n : a + i = i + a
  BY <1>1
<1>6. n = Len(h) - a
  BY DEF n
<1> QED
  BY <1>4, <1>5, <1>6

LEMMA AskFacts ==
  ASSUME AskInv
  PROVE  /\ ask.hay \in Seq(Bytes) /\ HayLen \in Nat /\ ask.from \in 0 .. HayLen
         /\ Sets \in Row /\ Len(Sets) \in Nat \ {0}
BY DEF AskInv, HayLen, Sets, Row

LEMMA RunFrame ==
  ASSUME AskInv, SearcherRuns
  PROVE  /\ Hay \in Seq(Bytes) /\ N \in Nat /\ run.base \in 0 .. HayLen /\ N = HayLen - run.base
         /\ \A i \in 1 .. N : Hay[i] = ask.hay[i + run.base]
         /\ run.from \in Nat
<1>1. ask.hay \in Seq(Bytes) /\ HayLen \in Nat /\ ask.from \in 0 .. HayLen /\ HayLen = Len(ask.hay)
  BY AskFacts DEF HayLen
<1>2. ASSUME NEW b \in 0 .. HayLen, NEW f \in Nat, run = Frame(SubSeq(ask.hay, b + 1, HayLen), f, b)
      PROVE  /\ Hay \in Seq(Bytes) /\ N \in Nat /\ run.base \in 0 .. HayLen /\ N = HayLen - run.base
             /\ \A i \in 1 .. N : Hay[i] = ask.hay[i + run.base]
             /\ run.from \in Nat
  <2>1. Hay = SubSeq(ask.hay, b + 1, Len(ask.hay)) /\ run.base = b /\ run.from = f /\ N = Len(Hay)
    BY <1>1, <1>2 DEF Frame, Hay, N
  <2>2. b \in 0 .. Len(ask.hay)
    BY <1>1
  <2>0. ask.hay \in Seq(Bytes) /\ Hay = SubSeq(ask.hay, b + 1, Len(ask.hay))
    BY <1>1, <2>1
  <2>3. Hay \in Seq(Bytes) /\ Len(Hay) = Len(ask.hay) - b /\ \A i \in 1 .. Len(Hay) : Hay[i] = ask.hay[i + b]
    <3>1. \A h \in Seq(Bytes) : \A u : \A a \in 0 .. Len(h) : u = SubSeq(h, a + 1, Len(h)) =>
             u \in Seq(Bytes) /\ Len(u) = Len(h) - a /\ \A i \in 1 .. Len(u) : u[i] = h[i + a]
      BY EndOfHay
    <3> QED
      BY ONLY <2>0, <2>2, <3>1
  <2>4. b \in Nat /\ Len(ask.hay) - b \in Nat
    BY <1>1
  <2> QED
    BY <1>1, <2>1, <2>3, <2>4
<1>3. ASSUME NEW f \in Nat, run = Frame(ask.hay, f, 0)
      PROVE  /\ Hay \in Seq(Bytes) /\ N \in Nat /\ run.base \in 0 .. HayLen /\ N = HayLen - run.base
             /\ \A i \in 1 .. N : Hay[i] = ask.hay[i + run.base]
             /\ run.from \in Nat
  <2>1. Hay = ask.hay /\ run.base = 0 /\ run.from = f /\ N = HayLen
    BY <1>1, <1>3 DEF Frame, Hay, N
  <2>2. \A i \in 1 .. N : i + 0 = i
    OBVIOUS
  <2> QED
    BY <1>1, <2>1, <2>2
<1>4. ask.from \in Nat
  BY <1>1
<1>5. CASE LiteralRuns
  <2>1. run = Frame(SubSeq(ask.hay, ask.from + 1, HayLen), 0, ask.from)
    BY <1>5 DEF LiteralRuns
  <2> QED
    BY <1>1, <1>2, <2>1
<1>6. CASE RowRuns \/ SetRuns \/ RevRuns
  <2>1. run = Frame(ask.hay, ask.from, 0)
    BY <1>6 DEF RowRuns, SetRuns, RevRuns
  <2> QED
    BY <1>3, <1>4, <2>1
<1> QED
  BY <1>5, <1>6 DEF SearcherRuns

-----------------------------------------------------------------------------
(* The kind of a searcher tells which search runs.                         *)
LEMMA KindsOfRuns ==
  ASSUME AskInv, SearcherRuns
  PROVE  /\ LiteralRuns => s.k = "literal"
         /\ RowRuns => s.k \in {"teddy", "range"}
         /\ SetRuns => s.k \in {"bytes", "ranges"}
         /\ RevRuns => s.k \in {"revliteral", "revteddy"}
         /\ s.k \in {"literal", "teddy", "range", "bytes", "ranges", "revliteral", "revteddy"}
<1>1. LiteralRuns => s.k = "literal"
  BY DEF LiteralRuns, LiteralSearch
<1>2. RowRuns => s.k \in {"teddy", "range"}
  BY DEF RowRuns, FwdTeddy, RangePrefix
<1>3. \A S : SetSearch(S) # NoSearcher => SetSearch(S).k \in {"bytes", "ranges"}
  BY DEF SetSearch, RangeSkip
<1>4. SetRuns => s.k \in {"bytes", "ranges"}
  BY <1>3 DEF SetRuns
<1>5. \A row, tail : RevSearch(row, tail).k \in {"revliteral", "revteddy"}
  BY DEF RevSearch, LiteralSearch, RevTeddy
<1>6. RevRuns => s.k \in {"revliteral", "revteddy"}
  BY <1>5 DEF RevRuns
<1> QED
  BY <1>1, <1>2, <1>4, <1>6 DEF SearcherRuns

(* What is known of each kind of searcher: where its haystack verifies is  *)
(* where its run matches.                                                  *)
LEMMA SetFacts ==
  ASSUME AskInv, SearcherRuns, Is({"bytes", "ranges"})
  PROVE  /\ SetRuns
         /\ s.tail = 0 /\ TheSet \in SUBSET Bytes
         /\ \A b \in Bytes : SetHit(s, b) <=> b \in TheSet
         /\ Hits = {p \in 0 .. N - 1 : At(Hay, p) \in TheSet}
<1>1. SetRuns
  BY KindsOfRuns DEF SearcherRuns, Is
<1>2. Hits = {p \in 0 .. N - 1 : At(Hay, p) \in TheSet}
  BY DEF Hits
<1>3. CASE SetRuns
  <2>1. Sets[1] \in SUBSET Bytes
    BY DEF AskInv, Sets, Row
  <2>2. s = SetSearch(Sets[1]) /\ s # NoSearcher /\ TheSet = Sets[1]
    BY <1>3 DEF SetRuns, TheSet
  <2> QED
    BY <1>1, <1>2, <2>1, <2>2, SetSearches
<1> QED
  BY <1>1, <1>3

LEMMA LiteralFacts ==
  ASSUME AskInv, SearcherRuns, Is({"literal"})
  PROVE  /\ LiteralRuns /\ s.tail = 0 /\ s.len \in 1 .. Len(Sets)
         /\ s.rare \in 0 .. s.len - 1 /\ s.confirm \in 0 .. s.len - 1
         /\ ask.op # "fwd" => s.len = Len(Sets)
         /\ \A p \in 0 .. N - s.len :
              /\ Verify(s, Hay, p) <=> p \in Hits
              /\ p \in Hits => At(Hay, p + s.rare) = s.rareByte /\ At(Hay, p + s.confirm) = s.confirmByte
         /\ Hits = {p \in 0 .. N - s.len : \A i \in 1 .. s.len : Hay[p + i] \in Sets[i]}
<1>1. LiteralRuns
  BY KindsOfRuns DEF SearcherRuns, Is
<1>2. Sets \in Row
  BY AskFacts
<1>3. PICK n \in 1 .. Len(Sets) : /\ \A i \in 1 .. n : IsByte(Sets[i])
                                  /\ s = LiteralSearch("literal", Needle(Sets, n), 0)
                                  /\ ask.op # "fwd" => n = Len(Sets)
  BY <1>1 DEF LiteralRuns
<1> DEFINE word == Needle(Sets, n)
<1>4. word \in Word /\ Len(word) = n
  BY <1>2, <1>3, NeedleIsWord
<1>5. s = LiteralSearch("literal", word, 0)
  BY <1>3
<1> HIDE DEF word
<1>6. /\ s.tail = 0 /\ s.len = Len(word) /\ s.rare \in 0 .. s.len - 1 /\ s.confirm \in 0 .. s.len - 1
  BY <1>4, <1>5, LiteralFields
<1>7. Hay \in Seq(Bytes) /\ N \in Nat /\ N = Len(Hay)
  BY RunFrame DEF N, Hay
<1>8. Hits = {p \in 0 .. N - s.len : \A i \in 1 .. s.len : Hay[p + i] \in Sets[i]}
  BY DEF Hits, Is
<1>9. ASSUME NEW p \in 0 .. N - s.len
      PROVE  /\ Verify(s, Hay, p) <=> p \in Hits
             /\ p \in Hits => At(Hay, p + s.rare) = s.rareByte /\ At(Hay, p + s.confirm) = s.confirmByte
  <2>1. p \in 0 .. Len(Hay) - n /\ p \in 0 .. Len(Hay) - s.len
    BY <1>4, <1>6, <1>7, <1>9
  <2>2. Verify(s, Hay, p) <=> \A i \in 1 .. n : Hay[p + i] \in Sets[i]
    BY <1>2, <1>3, <1>7, <2>1, LiteralSearches
  <2>3. Verify(s, Hay, p) <=> p \in Hits
    BY <1>4, <1>6, <1>8, <1>9, <2>2
  <2>4. Verify(s, Hay, p) => At(Hay, p + s.rare) = s.rareByte /\ At(Hay, p + s.confirm) = s.confirmByte
    BY <1>4, <1>5, <1>7, <2>1, LiteralVerified
  <2> QED
    BY <2>3, <2>4
<1> QED
  BY <1>1, <1>3, <1>4, <1>6, <1>8, <1>9

LEMMA RowFacts ==
  ASSUME AskInv, SearcherRuns, Is({"teddy", "range"})
  PROVE  /\ RowRuns /\ ask.op = "fwd" /\ s.tail = 0 /\ s.len = Len(Sets)
         /\ \A p \in 0 .. N - s.len : VerifyFwd(s, Hay, p) <=> RowAt(Hay, Sets, p)
         /\ s.k = "teddy" =>
              /\ s.offsets \in [DOMAIN s.masks -> 0 .. s.len - 1] /\ Len(s.masks) \in Nat
              /\ \A p \in 0 .. N - s.len : RowAt(Hay, Sets, p) =>
                    \A m \in DOMAIN s.masks : Passes(s.masks[m], At(Hay, p + s.offsets[m]))
         /\ s.k = "range" =>
              /\ s.anchor \in 0 .. s.len - 1
              /\ \A p \in 0 .. N - s.len : RowAt(Hay, Sets, p) => InRanges(At(Hay, p + s.anchor), s.ranges)
         /\ Hits = {p \in run.from .. N - s.len : RowAt(Hay, Sets, p)}
<1>1. RowRuns /\ ask.op = "fwd"
  BY KindsOfRuns DEF SearcherRuns, Is, RowRuns
<1>2. Sets \in Row /\ Len(Sets) \in Nat \ {0}
  BY AskFacts
<1>3. Hay \in Seq(Bytes) /\ N \in Nat /\ N = Len(Hay)
  BY RunFrame DEF N, Hay
<1>4. Hits = {p \in run.from .. N - s.len : RowAt(Hay, Sets, p)}
  BY DEF Hits, Is
<1>5. CASE s = FwdTeddy(Sets)
  <2>1. /\ s.k = "teddy" /\ s.len = Len(Sets) /\ s.tail = 0
        /\ s.offsets \in [1 .. NumSimd(Len(Sets)) -> Places(Sets)]
        /\ s.masks = [m \in 1 .. NumSimd(Len(Sets)) |-> Masks(At(Sets, s.offsets[m]))]
    BY <1>2, <1>5, TeddyFields
  <2>2. NumSimd(Len(Sets)) \in Nat
    BY <1>2 DEF NumSimd, Lesser
  <2>3. DOMAIN s.masks = 1 .. NumSimd(Len(Sets)) /\ Len(s.masks) = NumSimd(Len(Sets))
    BY <2>1, <2>2
  <2>4. s.offsets \in [DOMAIN s.masks -> 0 .. s.len - 1]
    BY <2>1, <2>3 DEF Places
  <2>5. ASSUME NEW p \in 0 .. N - s.len
        PROVE  /\ VerifyFwd(s, Hay, p) <=> RowAt(Hay, Sets, p)
               /\ RowAt(Hay, Sets, p) => \A m \in DOMAIN s.masks : Passes(s.masks[m], At(Hay, p + s.offsets[m]))
    <3>1. p \in 0 .. Len(Hay) - Len(Sets)
      BY <1>3, <2>1, <2>5
    <3> QED
      BY <1>2, <1>3, <1>5, <3>1, TeddySearches
  <2> QED
    BY <1>1, <1>4, <2>1, <2>2, <2>3, <2>4, <2>5
<1>6. CASE \E anchor \in Places(Sets), common \in {ask.common, FALSE} : s = RangePrefix(Sets, anchor, common) /\ s # NoSearcher
  <2>1. PICK anchor \in Places(Sets), common \in {ask.common, FALSE} : s = RangePrefix(Sets, anchor, common) /\ s # NoSearcher
    BY <1>6
  <2>2. s.k = "range" /\ s.len = Len(Sets) /\ s.tail = 0 /\ s.anchor = anchor
    BY <2>1 DEF RangePrefix
  <2>3. s.anchor \in 0 .. s.len - 1
    BY <2>1, <2>2 DEF Places
  <2>4. ASSUME NEW p \in 0 .. N - s.len
        PROVE  /\ VerifyFwd(s, Hay, p) <=> RowAt(Hay, Sets, p)
               /\ RowAt(Hay, Sets, p) => InRanges(At(Hay, p + s.anchor), s.ranges)
    <3>1. p \in 0 .. Len(Hay) - Len(Sets)
      BY <1>3, <2>2, <2>4
    <3> QED
      BY <1>2, <1>3, <2>1, <3>1, RangeSearches
  <2> QED
    BY <1>1, <1>4, <2>2, <2>3, <2>4
<1> QED
  BY <1>1, <1>5, <1>6 DEF RowRuns

-----------------------------------------------------------------------------
(* A reverse search looks for the end of its row, at RevEnd or before it.  *)
LEMMA RevFacts ==
  ASSUME AskInv, SearcherRuns, Is({"revliteral", "revteddy"})
  PROVE  /\ RevRuns
         /\ RevRow \in Row /\ s.tail \in Nat /\ s = RevSearch(RevRow, s.tail)
         /\ s.len = Len(RevRow) /\ s.len \in Nat \ {0}
         /\ N \in Nat \ {0} /\ RevEnd \in Int /\ RevEnd <= N - 1
         /\ LastByte = Lesser(run.from, N - 1) /\ LastByte \in 0 .. N - 1 /\ RevEnd = LastByte - s.tail
         /\ Hits = {p \in s.len - 1 .. RevEnd : RowEndsAt(Hay, RevRow, p)}
<1>1. RevRuns
  BY KindsOfRuns DEF SearcherRuns, Is
<1>2. Sets \in Row /\ HayLen \in Nat /\ ask.from \in 0 .. HayLen /\ ask.hay \in Seq(Bytes)
  BY AskFacts
<1>3. \A row, tail : RevSearch(row, tail).tail = tail /\ (row \in Row => RevSearch(row, tail).len = Len(row))
  <2>1. ASSUME NEW row, NEW tail
        PROVE  RevSearch(row, tail).tail = tail /\ (row \in Row => RevSearch(row, tail).len = Len(row))
    <3>1. row \in Row => Len([i \in DOMAIN row |-> ByteOf(row[Len(row) + 1 - i])]) = Len(row)
      <4>1. row \in Row => DOMAIN row = 1 .. Len(row) /\ Len(row) \in Nat
        BY DEF Row
      <4> QED
        BY <4>1
    <3> QED
      BY <3>1 DEF RevSearch, LiteralSearch, RevTeddy
  <2> QED
    BY <2>1
<1>4. RevRow \in Row /\ s.tail \in Nat /\ s = RevSearch(RevRow, s.tail) /\ s.len = Len(RevRow)
  <2>1. CASE RevRuns
    <3>1. ask.op = "rev" /\ s = RevSearch(RevWindow(Sets), TailOffset(Sets)) /\ RevRow = RevWindow(Sets)
      BY <2>1 DEF RevRuns, RevRow
    <3>2. RevWindow(Sets) \in Row /\ TailOffset(Sets) \in Nat
      BY <1>2, RevWindowInside DEF Row
    <3> QED
      BY <1>3, <3>1, <3>2
  <2> QED
    BY <1>1, <2>1
<1>5. s.len \in Nat \ {0}
  BY <1>4 DEF Row
<1>6. run.from \in Nat /\ N \in Nat
  BY RunFrame
<1>7. N # 0
  <2>1. CASE RevRuns
    <3>1. Hay = ask.hay /\ ask.hay # <<>>
      BY <2>1 DEF RevRuns, Frame, Hay, AskInv
    <3> QED
      BY <1>2, <3>1 DEF N, Hay
  <2> QED
    BY <1>1, <2>1
<1>8. LastByte = Lesser(run.from, N - 1)
  BY <1>6, <1>7 DEF LastByte, Less
<1>9. LastByte \in 0 .. N - 1
  BY <1>6, <1>7, <1>8 DEF Lesser
<1>10. RevEnd = LastByte - s.tail
  BY DEF RevEnd
<1>11. RevEnd \in Int /\ RevEnd <= N - 1
  BY <1>4, <1>6, <1>9, <1>10
<1>12. Hits = {p \in s.len - 1 .. RevEnd : RowEndsAt(Hay, RevRow, p)}
  BY DEF Hits, Is
<1> QED
  BY <1>1, <1>4, <1>5, <1>6, <1>7, <1>8, <1>9, <1>10, <1>11, <1>12

LEMMA RevLiteralFacts ==
  ASSUME AskInv, SearcherRuns, Is({"revliteral"})
  PROVE  /\ s.rare \in 0 .. s.len - 1 /\ s.confirm \in 0 .. s.len - 1
         /\ \A p \in 0 .. N - s.len :
              /\ Verify(s, Hay, p) <=> RowEndsAt(Hay, RevRow, p + s.len - 1)
              /\ Verify(s, Hay, p) => At(Hay, p + s.rare) = s.rareByte /\ At(Hay, p + s.confirm) = s.confirmByte
<1> Is({"revliteral", "revteddy"})
  BY DEF Is
<1>1. RevRow \in Row /\ s = RevSearch(RevRow, s.tail) /\ s.len = Len(RevRow) /\ s.len \in Nat \ {0}
  BY RevFacts
<1>2. Hay \in Seq(Bytes) /\ N \in Nat /\ N = Len(Hay)
  BY RunFrame DEF N, Hay
<1>3. \A i \in 1 .. Len(RevRow) : IsByte(RevRow[i])
  <2>1. DOMAIN RevRow = 1 .. Len(RevRow)
    BY <1>1 DEF Row
  <2>2. (\A i \in DOMAIN RevRow : IsByte(RevRow[i])) \/ RevSearch(RevRow, s.tail).k = "revteddy"
    BY DEF RevSearch, RevTeddy
  <2> QED
    BY <1>1, <2>1, <2>2 DEF Is
<1> DEFINE row == RevRow
           t == s
           h == Hay
           tail == s.tail
<1>4. /\ row \in Row /\ t = RevSearch(row, tail) /\ h \in Seq(Bytes)
      /\ \A i \in 1 .. Len(row) : IsByte(row[i])
  BY <1>1, <1>2, <1>3
<1> HIDE DEF row, t, h, tail
<1>5. /\ \E word \in Word : t = LiteralSearch("revliteral", word, tail) /\ Len(word) = Len(row)
      /\ \A p \in 0 .. Len(h) - t.len : Verify(t, h, p) <=> RowEndsAt(h, row, p + t.len - 1)
  BY <1>4, RevLiteralSearches
<1>6. PICK word \in Word : t = LiteralSearch("revliteral", word, tail) /\ Len(word) = Len(row)
  BY <1>5
<1>7. t.rare \in 0 .. t.len - 1 /\ t.confirm \in 0 .. t.len - 1
  BY <1>6, LiteralFields
<1>8. \A p \in 0 .. Len(h) - t.len :
        Verify(t, h, p) => At(h, p + t.rare) = t.rareByte /\ At(h, p + t.confirm) = t.confirmByte
  BY <1>4, <1>6, LiteralVerified
<1> QED
  BY <1>2, <1>5, <1>7, <1>8 DEF row, t, h, tail

LEMMA RevTeddyFacts ==
  ASSUME AskInv, SearcherRuns, Is({"revteddy"})
  PROVE  /\ DOMAIN s.masks = 1 .. NumSimd(s.len) /\ Len(s.masks) = NumSimd(s.len)
         /\ NumSimd(s.len) \in 1 .. s.len /\ NumSimd(s.len) <= 3
         /\ \A p \in Nat : p < s.len - 1 => ~ VerifyRev(s, Hay, p)
         /\ \A p \in s.len - 1 .. N - 1 :
              /\ VerifyRev(s, Hay, p) <=> RowEndsAt(Hay, RevRow, p)
              /\ RowEndsAt(Hay, RevRow, p) => \A m \in DOMAIN s.masks : Passes(s.masks[m], At(Hay, p - (m - 1)))
<1> Is({"revliteral", "revteddy"})
  BY DEF Is
<1>1. RevRow \in Row /\ s = RevSearch(RevRow, s.tail) /\ s.len = Len(RevRow) /\ s.len \in Nat \ {0}
  BY RevFacts
<1>2. Hay \in Seq(Bytes) /\ N \in Nat /\ N = Len(Hay)
  BY RunFrame DEF N, Hay
<1>3. s = RevTeddy(RevRow, s.tail)
  <2>1. RevSearch(RevRow, s.tail) = RevTeddy(RevRow, s.tail) \/ RevSearch(RevRow, s.tail).k = "revliteral"
    BY DEF RevSearch, LiteralSearch
  <2> QED
    BY <1>1, <2>1 DEF Is
<1>4. NumSimd(s.len) \in 1 .. s.len /\ NumSimd(s.len) <= 3
  BY <1>1, RevWindowInside
<1>5. s.masks = [m \in 1 .. NumSimd(s.len) |-> Masks(RevRow[m])]
  BY <1>1, <1>3 DEF RevTeddy
<1>6. DOMAIN s.masks = 1 .. NumSimd(s.len) /\ Len(s.masks) = NumSimd(s.len)
  BY <1>4, <1>5
<1>7. \A p \in Nat : p < s.len - 1 => ~ VerifyRev(s, Hay, p)
  BY <1>1 DEF VerifyRev
<1> DEFINE row == RevRow
           t == s
           h == Hay
           tail == s.tail
<1>8. row \in Row /\ t = RevTeddy(row, tail) /\ h \in Seq(Bytes)
  BY <1>1, <1>2, <1>3
<1> HIDE DEF row, t, h, tail
<1>9. \A p \in Len(row) - 1 .. Len(h) - 1 :
         /\ VerifyRev(t, h, p) <=> RowEndsAt(h, row, p)
         /\ RowEndsAt(h, row, p) => \A m \in DOMAIN t.masks : Passes(t.masks[m], At(h, p - (m - 1)))
  BY <1>8, RevTeddySearches
<1> QED
  BY <1>1, <1>2, <1>4, <1>6, <1>7, <1>9 DEF row, t, h, tail

-----------------------------------------------------------------------------
(* What each kind of loop has behind it, one kind at a time.               *)
LEMMA LoopCases ==
  ASSUME NEW p
  PROVE  /\ LoopAt("returned", p) /\ LoopAt("call", p)
         /\ SetIs("fwd") => LoopAt("chunks", p) = (p \in 0 .. N /\ \A h \in Hits : h >= p)
         /\ SetIs("rev") => LoopAt("chunks", p) = (/\ p \in 0 .. N - Lanes /\ p % Lanes = N % Lanes
                                                   /\ \A h \in Hits : h < p + Lanes)
         /\ SetIs("rev") => LoopAt("tail", p) = \A h \in Hits : h < Gap
         /\ Is({"literal"}) => LoopAt("chunks", p) = (/\ p \in Nat /\ p >= s.rare /\ N >= s.len
                                                      /\ ask.op # "all" => \A h \in Hits : h + s.rare >= p)
         /\ Is({"literal"}) => LoopAt("tail", p) = (ask.op # "all" => Hits = {})
         /\ Is({"teddy", "range"}) => LoopAt("chunks", p) = (p \in Nat /\ p >= run.from /\ \A h \in Hits : h >= p)
         /\ Is({"revliteral"}) => LoopAt("chunks", p) = (/\ p \in Int /\ p <= RevEnd - (s.len - 1) + s.rare
                                                         /\ \A h \in Hits : h - (s.len - 1) + s.rare <= p)
         /\ Is({"revteddy"}) => LoopAt("chunks", p) = (/\ p \in Nat /\ p >= MinPos /\ p + Lanes - 1 <= RevEnd
                                                       /\ \A h \in Hits : h <= p + Lanes - 1)
         /\ Is({"revteddy"}) => LoopAt("tail", p) = (p \in Int /\ p <= RevEnd /\ \A h \in Hits : h <= p)
<1>1. LoopAt("returned", p) /\ LoopAt("call", p)
  BY DEF LoopAt
<1>2. SetIs("fwd") => LoopAt("chunks", p) = (p \in 0 .. N /\ \A h \in Hits : h >= p)
  BY DEF LoopAt, SetIs, Is
<1>3. SetIs("rev") => LoopAt("chunks", p) = (/\ p \in 0 .. N - Lanes /\ p % Lanes = N % Lanes
                                             /\ \A h \in Hits : h < p + Lanes)
  BY DEF LoopAt, SetIs, Is
<1>4. SetIs("rev") => LoopAt("tail", p) = \A h \in Hits : h < Gap
  BY DEF LoopAt, SetIs, Is
<1>5. Is({"literal"}) => LoopAt("chunks", p) = (/\ p \in Nat /\ p >= s.rare /\ N >= s.len
                                                /\ ask.op # "all" => \A h \in Hits : h + s.rare >= p)
  BY DEF LoopAt, SetIs, Is
<1>6. Is({"literal"}) => LoopAt("tail", p) = (ask.op # "all" => Hits = {})
  BY DEF LoopAt, SetIs, Is
<1>7. Is({"teddy", "range"}) => LoopAt("chunks", p) = (p \in Nat /\ p >= run.from /\ \A h \in Hits : h >= p)
  BY DEF LoopAt, SetIs, Is
<1>8. Is({"revliteral"}) => LoopAt("chunks", p) = (/\ p \in Int /\ p <= RevEnd - (s.len - 1) + s.rare
                                                   /\ \A h \in Hits : h - (s.len - 1) + s.rare <= p)
  BY DEF LoopAt, SetIs, Is
<1>9. Is({"revteddy"}) => LoopAt("chunks", p) = (/\ p \in Nat /\ p >= MinPos /\ p + Lanes - 1 <= RevEnd
                                                 /\ \A h \in Hits : h <= p + Lanes - 1)
  BY DEF LoopAt, SetIs, Is
<1>10. Is({"revteddy"}) => LoopAt("tail", p) = (p \in Int /\ p <= RevEnd /\ \A h \in Hits : h <= p)
  BY DEF LoopAt, SetIs, Is
<1> QED
  BY <1>1, <1>2, <1>3, <1>4, <1>5, <1>6, <1>7, <1>8, <1>9, <1>10

(* What a step of a loop must leave behind.                                *)
Kept(to, p, f, acc, rd) ==
  /\ to \in {"chunks", "tail", "returned"} /\ LoopAt(to, p) /\ CollectAt(to, p, acc)
  /\ to = "returned" => Answer(f)
  /\ rd \in SUBSET (0 .. N - 1)

LEMMA FirstAnswers ==
  ASSUME N \in Nat, Hits \in SUBSET (0 .. N), Onward, ask.op # "all",
         NEW e \in Int, NEW T, T = {h \in Hits : h < e}, T # {}
  PROVE  Least(T) # None /\ Answer(Least(T) + s.tail + run.base)
<1>1. 0 \in Int /\ N \in Int /\ T \in SUBSET (0 .. N) /\ None = -1
  <2>1. \A h \in T : h \in Hits
    OBVIOUS
  <2>2. T \subseteq 0 .. N
    BY <2>1
  <2> QED
    BY <2>2 DEF None
<1>2. Least(T) \in T /\ \A n \in T : Least(T) <= n
  BY <1>1, LeastOf
<1>3. Least(T) \in Hits /\ Least(T) < e /\ Least(T) \in 0 .. N
  BY <1>1, <1>2
<1>4. ASSUME NEW k \in Hits
      PROVE  Least(T) <= k
  <2>1. k \in 0 .. N
    BY <1>4
  <2> QED
    BY <1>2, <1>3, <2>1
<1>5. Least(T) # None
  BY <1>1, <1>3
<1> QED
  BY <1>3, <1>4, <1>5 DEF Answer

LEMMA LastAnswers ==
  ASSUME N \in Nat, Hits \in SUBSET (0 .. N), ~ Onward, ask.op # "all",
         NEW e \in Int, NEW T, T = {h \in Hits : h >= e}, T # {}
  PROVE  Greatest(T) # None /\ Answer(Greatest(T) + s.tail + run.base)
<1>1. 0 \in Int /\ N \in Int /\ T \in SUBSET (0 .. N) /\ None = -1
  <2>1. \A h \in T : h \in Hits
    OBVIOUS
  <2>2. T \subseteq 0 .. N
    BY <2>1
  <2> QED
    BY <2>2 DEF None
<1>2. Greatest(T) \in T /\ \A n \in T : n <= Greatest(T)
  BY <1>1, GreatestOf
<1>3. Greatest(T) \in Hits /\ Greatest(T) >= e /\ Greatest(T) \in 0 .. N
  BY <1>1, <1>2
<1>4. ASSUME NEW k \in Hits
      PROVE  k <= Greatest(T)
  <2>1. k \in 0 .. N
    BY <1>4
  <2> QED
    BY <1>2, <1>3, <2>1
<1>5. Greatest(T) # None
  BY <1>1, <1>3
<1> QED
  BY <1>3, <1>4, <1>5 DEF Answer

LEMMA FirstOrKeeps ==
  ASSUME N \in Nat, Hits \in SUBSET (0 .. N), Onward, ask.op # "all",
         NEW e \in Int, NEW T, T = {h \in Hits : h < e},
         NEW to \in {"chunks", "tail"}, NEW p, (\A h \in Hits : h >= e) => LoopAt(to, p),
         FirstOr(T, to, p), reads' \in SUBSET (0 .. N - 1)
  PROVE  Kept(pc', pos', found', matches', reads')
<1>1. CASE T = {}
  <2>1. pc' = to /\ pos' = p
    BY <1>1 DEF FirstOr, Go
  <2>2. \A h \in Hits : h >= e
    BY <1>1
  <2> QED
    BY <2>1, <2>2 DEF Kept, CollectAt
<1>2. CASE T # {}
  <2>1. Least(T) # None /\ Answer(Least(T) + s.tail + run.base)
    BY <1>2, FirstAnswers
  <2>2. pc' = "returned" /\ found' = Least(T) + s.tail + run.base
    BY <1>2, <2>1 DEF FirstOr, Return
  <2> QED
    BY <2>1, <2>2, LoopCases DEF Kept, CollectAt
<1> QED
  BY <1>1, <1>2

LEMMA LastOrKeeps ==
  ASSUME N \in Nat, Hits \in SUBSET (0 .. N), ~ Onward, ask.op # "all",
         NEW e \in Int, NEW T, T = {h \in Hits : h >= e},
         NEW to \in {"chunks", "tail"}, NEW p, (\A h \in Hits : h < e) => LoopAt(to, p),
         LastOr(T, to, p), reads' \in SUBSET (0 .. N - 1)
  PROVE  Kept(pc', pos', found', matches', reads')
<1>1. CASE T = {}
  <2>1. pc' = to /\ pos' = p
    BY <1>1 DEF LastOr, Go
  <2>2. \A h \in Hits : h < e
    BY <1>1
  <2> QED
    BY <2>1, <2>2 DEF Kept, CollectAt
<1>2. CASE T # {}
  <2>1. Greatest(T) # None /\ Answer(Greatest(T) + s.tail + run.base)
    BY <1>2, LastAnswers
  <2>2. pc' = "returned" /\ found' = Greatest(T) + s.tail + run.base
    BY <1>2, <2>1 DEF LastOr, Return
  <2> QED
    BY <2>1, <2>2, LoopCases DEF Kept, CollectAt
<1> QED
  BY <1>1, <1>2

LEMMA NoneKeeps ==
  ASSUME Hits = {} \/ ask.op = "all", CollectAt("returned", pos', matches'),
         Return(None), reads' \in SUBSET (0 .. N - 1)
  PROVE  Kept(pc', pos', found', matches', reads')
<1>1. pc' = "returned" /\ found' = None
  BY DEF Return
<1>2. Answer(None)
  BY DEF Answer
<1> QED
  BY <1>1, <1>2, LoopCases DEF Kept

LEMMA ReturnFirstKeeps ==
  ASSUME N \in Nat, Hits \in SUBSET (0 .. N), Onward, ask.op # "all", NEW T, T = Hits,
         Return(First(T)), reads' \in SUBSET (0 .. N - 1)
  PROVE  Kept(pc', pos', found', matches', reads')
<1>1. CASE T = {}
  BY <1>1, NoneKeeps DEF First, CollectAt
<1>2. CASE T # {}
  <2>0. N + 1 \in Int /\ \A h \in Hits : h < N + 1
    OBVIOUS
  <2>1. T = {h \in Hits : h < N + 1}
    BY ONLY <2>0, T = Hits
  <2>2. Least(T) # None /\ Answer(Least(T) + s.tail + run.base)
    BY <1>2, <2>0, <2>1, FirstAnswers
  <2>3. pc' = "returned" /\ found' = Least(T) + s.tail + run.base
    BY <1>2, <2>2 DEF First, Return
  <2> QED
    BY <2>2, <2>3, LoopCases DEF Kept, CollectAt
<1> QED
  BY <1>1, <1>2

LEMMA ReturnLastKeeps ==
  ASSUME N \in Nat, Hits \in SUBSET (0 .. N), ~ Onward, ask.op # "all", NEW T, T = Hits,
         Return(Last(T)), reads' \in SUBSET (0 .. N - 1)
  PROVE  Kept(pc', pos', found', matches', reads')
<1>1. CASE T = {}
  BY <1>1, NoneKeeps DEF Last, CollectAt
<1>2. CASE T # {}
  <2>0. 0 \in Int /\ \A h \in Hits : h >= 0
    OBVIOUS
  <2>1. T = {h \in Hits : h >= 0}
    BY ONLY <2>0, T = Hits
  <2>2. Greatest(T) # None /\ Answer(Greatest(T) + s.tail + run.base)
    BY <1>2, <2>0, <2>1, LastAnswers
  <2>3. pc' = "returned" /\ found' = Greatest(T) + s.tail + run.base
    BY <1>2, <2>2 DEF Last, Return
  <2> QED
    BY <2>2, <2>3, LoopCases DEF Kept, CollectAt
<1> QED
  BY <1>1, <1>2

-----------------------------------------------------------------------------
LEMMA RemainderLess ==
  ASSUME NEW w \in Nat \ {0}, NEW n \in Nat
  PROVE  /\ n < w => (n % w) = n
         /\ n >= w => ((n - w) % w) = (n % w)
<1> DEFINE q == n \div w
           r == n % w
<1>1. q \in Nat /\ r \in 0 .. w - 1 /\ n = w * q + r
  BY DivisionBounds, RemainderBounds
<1>2. \A k \in Nat, j \in 0 .. w - 1 : (w * k + j) % w = j
  BY RemainderIs
<1>3. ASSUME n < w
      PROVE  (n % w) = n
  <2>1. 0 \in Nat /\ n \in 0 .. w - 1 /\ w * 0 = 0 /\ w * 0 + n = n
    BY <1>3
  <2> QED
    BY <1>2, <2>1
<1>4. ASSUME n >= w
      PROVE  ((n - w) % w) = r
  <2> HIDE DEF q, r
  <2>1. q # 0
    <3>1. ASSUME q = 0
          PROVE  FALSE
      <4>1. w * q = 0
        BY <3>1
      <4>2. n = r
        BY <1>1, <4>1
      <4> QED
        BY <1>1, <1>4, <4>2
    <3> QED
      BY <3>1
  <2>2. PICK k \in Nat : q = k + 1
    <3>1. q - 1 \in Nat /\ q = (q - 1) + 1
      BY <1>1, <2>1
    <3> QED
      BY <3>1
  <2>3. w * q = w * k + w
    BY <2>2
  <2>4. w * k \in Nat
    OBVIOUS
  <2>5. n - w = w * k + r
    BY <1>1, <2>3, <2>4
  <2> QED
    BY <1>1, <1>2, <2>2, <2>5
<1> QED
  BY <1>3, <1>4

LEMMA AtByte ==
  ASSUME NEW h \in Seq(Bytes), NEW p \in 0 .. Len(h) - 1
  PROVE  At(h, p) = h[p + 1] /\ At(h, p) \in Bytes
<1>1. p \in 0 .. Len(h) - 1 /\ p + 1 \in 1 .. Len(h)
  OBVIOUS
<1> QED
  BY <1>1 DEF At

LEMMA LanesNat == Lanes \in Nat \ {0}
BY SearchConstants

(* What a vector of a set search, and its buffer for the rest, find.       *)
LEMMA SetLanesFind ==
  ASSUME AskInv, SearcherRuns, Is({"bytes", "ranges"}), NEW p \in Nat, p + Lanes <= N
  PROVE  /\ {p + i : i \in SetLanes(Hay, p)} = {h \in Hits : p <= h /\ h < p + Lanes}
         /\ Span(p, Lanes) \in SUBSET (0 .. N - 1)
<1> DEFINE T == {p + i : i \in SetLanes(Hay, p)}
           U == {h \in Hits : p <= h /\ h < p + Lanes}
<1>1. Hay \in Seq(Bytes) /\ N \in Nat /\ N = Len(Hay)
  BY RunFrame DEF N, Hay
<1>2. Lanes \in Nat
  BY LanesNat
<1>3. \A i \in 0 .. N - 1 : At(Hay, i) \in Bytes
  BY <1>1, AtByte
<1>4. \A b \in Bytes : SetHit(s, b) <=> b \in TheSet
  BY SetFacts
<1>5. Hits = {h \in 0 .. N - 1 : At(Hay, h) \in TheSet}
  BY SetFacts
<1>6. ASSUME NEW i \in 0 .. Lanes - 1
      PROVE  p + i \in 0 .. N - 1 /\ (SetHit(s, At(Hay, p + i)) <=> p + i \in Hits) /\ p <= p + i /\ p + i < p + Lanes
  <2>1. p + i \in 0 .. N - 1 /\ p <= p + i /\ p + i < p + Lanes
    BY <1>1, <1>2, <1>6
  <2> QED
    BY <1>3, <1>4, <1>5, <2>1
<1>7. ASSUME NEW h \in T
      PROVE  h \in U
  <2>1. PICK i \in SetLanes(Hay, p) : h = p + i
    OBVIOUS
  <2>2. i \in 0 .. Lanes - 1 /\ SetHit(s, At(Hay, p + i))
    BY <2>1 DEF SetLanes
  <2> QED
    BY <1>6, <2>1, <2>2
<1>8. ASSUME NEW h \in U
      PROVE  h \in T
  <2>1. h \in 0 .. N - 1 /\ p <= h /\ h < p + Lanes /\ h \in Hits
    BY <1>5, <1>8
  <2>2. h - p \in 0 .. Lanes - 1 /\ p + (h - p) = h
    BY <1>1, <1>2, <2>1
  <2>3. h - p \in SetLanes(Hay, p)
    BY <1>6, <2>1, <2>2 DEF SetLanes
  <2> QED
    BY <2>2, <2>3
<1>9. Span(p, Lanes) \subseteq 0 .. N - 1
  BY <1>1, <1>2 DEF Span
<1> QED
  BY <1>7, <1>8, <1>9

LEMMA SetRestFinds ==
  ASSUME AskInv, SearcherRuns, Is({"bytes", "ranges"}),
         NEW p \in Nat, NEW n \in Nat, p + n <= N, n <= Lanes
  PROVE  /\ SetRest(Hay, p, n) = {h \in Hits : p <= h /\ h < p + n}
         /\ Span(p, n) \in SUBSET (0 .. N - 1)
<1> DEFINE T == SetRest(Hay, p, n)
           U == {h \in Hits : p <= h /\ h < p + n}
           B == Buffer(Hay, p, n)
<1>1. Hay \in Seq(Bytes) /\ N \in Nat /\ N = Len(Hay)
  BY RunFrame DEF N, Hay
<1>2. Lanes \in Nat
  BY LanesNat
<1>3. \A i \in 0 .. N - 1 : At(Hay, i) \in Bytes
  BY <1>1, AtByte
<1>4. \A b \in Bytes : SetHit(s, b) <=> b \in TheSet
  BY SetFacts
<1>5. Hits = {h \in 0 .. N - 1 : At(Hay, h) \in TheSet}
  BY SetFacts
<1>6. ASSUME NEW i \in 0 .. n - 1
      PROVE  /\ i \in 0 .. Lanes - 1 /\ p + i \in 0 .. N - 1 /\ p <= p + i /\ p + i < p + n
             /\ SetHit(s, At(B, 0 + i)) <=> p + i \in Hits
  <2>1. /\ p + i \in 0 .. N - 1 /\ p <= p + i /\ p + i < p + n /\ 0 + i = i /\ i + 1 \in 1 .. Lanes
        /\ i \in 0 .. Lanes - 1 /\ i + 1 <= n /\ p + (i + 1) - 1 = p + i
    BY <1>1, <1>2, <1>6
  <2>2. Len(B) = Lanes
    BY <1>2 DEF Buffer
  <2>3. At(B, i) = B[i + 1]
    BY <2>1, <2>2 DEF At
  <2>4. B[i + 1] = At(Hay, p + i)
    BY <2>1 DEF Buffer
  <2> QED
    BY <1>3, <1>4, <1>5, <2>1, <2>3, <2>4
<1>7. ASSUME NEW h \in T
      PROVE  h \in U
  <2>1. PICK i \in SetLanes(B, 0) \cap 0 .. n - 1 : h = p + i
    BY DEF SetRest
  <2>2. i \in 0 .. n - 1 /\ SetHit(s, At(B, 0 + i))
    BY <2>1 DEF SetLanes
  <2> QED
    BY <1>6, <2>1, <2>2
<1>8. ASSUME NEW h \in U
      PROVE  h \in T
  <2>1. h \in 0 .. N - 1 /\ p <= h /\ h < p + n /\ h \in Hits
    BY <1>5, <1>8
  <2>2. h - p \in 0 .. n - 1 /\ p + (h - p) = h
    BY <1>1, <1>2, <2>1
  <2>3. h - p \in SetLanes(B, 0)
    BY <1>6, <2>1, <2>2 DEF SetLanes
  <2> QED
    BY <2>2, <2>3 DEF SetRest
<1>9. Span(p, n) \subseteq 0 .. N - 1
  BY <1>1, <1>2 DEF Span
<1> QED
  BY <1>7, <1>8, <1>9

-----------------------------------------------------------------------------
(* A search that runs.                                                     *)
Going ==
  /\ AskInv /\ SearcherRuns
  /\ LoopAt(pc, pos) /\ CollectAt(pc, pos, matches)

LEMMA SetGoing ==
  ASSUME Going, Is({"bytes", "ranges"})
  PROVE  /\ N \in Nat /\ Hits \in SUBSET (0 .. N) /\ Hits \in SUBSET (0 .. N - 1) /\ Lanes \in Nat \ {0}
         /\ ask.op # "all"
         /\ SetIs("fwd") => Onward
         /\ SetIs("rev") => ~ Onward
         /\ s.tail = 0
<1> AskInv /\ SearcherRuns
  BY DEF Going
<1>1. N \in Nat
  BY RunFrame
<1>2. SetRuns
  BY SetFacts
<1>3. ask.op \in {"setfwd", "setrev"}
  BY <1>2 DEF SetRuns
<1>4. Hits = {p \in 0 .. N - 1 : At(Hay, p) \in TheSet} /\ s.tail = 0
  BY SetFacts
<1>5. Hits \subseteq 0 .. N /\ Hits \subseteq 0 .. N - 1
  BY <1>1, <1>4
<1>6. (SetIs("fwd") => Onward) /\ (SetIs("rev") => ~ Onward)
  BY <1>3 DEF SetIs, Onward, Reverse
<1> QED
  BY <1>1, <1>3, <1>4, <1>5, <1>6, LanesNat

LEMMA CallSetFwdKeeps ==
  ASSUME Going, CallSetFwd
  PROVE  Kept(pc', pos', found', matches', reads')
<1>1. SetIs("fwd") /\ Is({"bytes", "ranges"}) /\ pc' = "chunks" /\ pos' = 0 /\ reads' = {}
  BY DEF CallSetFwd, SetIs, Go
<1>2. N \in Nat /\ Hits \in SUBSET (0 .. N) /\ ask.op # "all"
  BY <1>1, SetGoing
<1>3. LoopAt("chunks", 0)
  <2>1. 0 \in 0 .. N /\ \A h \in Hits : h >= 0
    BY <1>2
  <2> QED
    BY <1>1, <2>1, LoopCases
<1> QED
  BY <1>1, <1>2, <1>3 DEF Kept, CollectAt

LEMMA SetFwdChunkKeeps ==
  ASSUME Going, SetFwdChunk
  PROVE  Kept(pc', pos', found', matches', reads')
<1> AskInv /\ SearcherRuns
  BY DEF Going
<1> DEFINE e == pos + Lanes
           T == {pos + i : i \in SetLanes(Hay, pos)}
<1>1. /\ SetIs("fwd") /\ Is({"bytes", "ranges"}) /\ pc = "chunks" /\ pos + Lanes <= N
      /\ FirstOr(T, "chunks", e) /\ reads' = Span(pos, Lanes)
  BY DEF SetFwdChunk, SetIs
<1>2. N \in Nat /\ Hits \in SUBSET (0 .. N) /\ ask.op # "all" /\ Lanes \in Nat /\ Onward
  BY <1>1, SetGoing
<1>3. pos \in 0 .. N /\ \A h \in Hits : h >= pos
  BY <1>1, LoopCases DEF Going
<1>4. pos \in Nat /\ e \in Int /\ e \in 0 .. N
  BY <1>1, <1>2, <1>3
<1>5. T = {h \in Hits : pos <= h /\ h < e} /\ reads' \in SUBSET (0 .. N - 1)
  BY <1>1, <1>4, SetLanesFind
<1>6. T = {h \in Hits : h < e}
  <2>1. \A h \in Hits : pos <= h
    BY <1>2, <1>3, <1>4
  <2> QED
    BY <1>5, <2>1
<1> HIDE DEF e, T
<1>7. (\A h \in Hits : h >= e) => LoopAt("chunks", e)
  BY <1>1, <1>4, LoopCases
<1>8. "chunks" \in {"chunks", "tail"}
  OBVIOUS
<1> QED
  BY <1>1, <1>2, <1>4, <1>5, <1>6, <1>7, <1>8, FirstOrKeeps

LEMMA SetFwdTailKeeps ==
  ASSUME Going, SetFwdTail
  PROVE  Kept(pc', pos', found', matches', reads')
<1> AskInv /\ SearcherRuns
  BY DEF Going
<1> DEFINE n == N - pos
           T == SetRest(Hay, pos, n)
<1>1. /\ SetIs("fwd") /\ Is({"bytes", "ranges"}) /\ pc = "chunks" /\ pos + Lanes > N
      /\ Return(First(T)) /\ reads' = Span(pos, n)
  BY DEF SetFwdTail, SetIs
<1>2. N \in Nat /\ Hits \in SUBSET (0 .. N) /\ Hits \in SUBSET (0 .. N - 1) /\ ask.op # "all" /\ Lanes \in Nat /\ Onward
  BY <1>1, SetGoing
<1>3. pos \in 0 .. N /\ \A h \in Hits : h >= pos
  BY <1>1, LoopCases DEF Going
<1>4. pos \in Nat /\ n \in Nat /\ pos + n = N /\ pos + n <= N /\ n <= Lanes
  BY <1>1, <1>2, <1>3
<1> HIDE DEF n
<1>5. T = {h \in Hits : pos <= h /\ h < pos + n} /\ reads' \in SUBSET (0 .. N - 1)
  BY <1>1, <1>4, SetRestFinds
<1>6. T = Hits
  <2>1. \A h \in Hits : pos <= h /\ h < pos + n
    BY <1>2, <1>3, <1>4
  <2> QED
    BY <1>5, <2>1
<1> HIDE DEF T
<1> QED
  BY <1>1, <1>2, <1>5, <1>6, ReturnFirstKeeps

LEMMA CallSetRevKeeps ==
  ASSUME Going, CallSetRev
  PROVE  Kept(pc', pos', found', matches', reads')
<1>1. /\ SetIs("rev") /\ Is({"bytes", "ranges"}) /\ reads' = {}
      /\ IF N >= Lanes THEN pc' = "chunks" /\ pos' = N - Lanes ELSE pc' = "tail" /\ pos' = 0
  BY DEF CallSetRev, SetIs, Go
<1>2. N \in Nat /\ Hits \in SUBSET (0 .. N - 1) /\ ask.op # "all" /\ Lanes \in Nat \ {0}
  BY <1>1, SetGoing
<1>3. \A h \in Hits : h < N
  BY <1>2
<1>4. CASE N >= Lanes
  <2>1. N - Lanes \in 0 .. N - Lanes /\ (N - Lanes) + Lanes = N
    BY <1>2, <1>4
  <2>2. ((N - Lanes) % Lanes) = (N % Lanes)
    BY <1>2, <1>4, RemainderLess
  <2>3. LoopAt("chunks", N - Lanes)
    BY <1>1, <1>3, <2>1, <2>2, LoopCases
  <2> QED
    BY <1>1, <1>2, <1>4, <2>3 DEF Kept, CollectAt
<1>5. CASE ~ (N >= Lanes)
  <2>1. Gap = N
    BY <1>5 DEF Gap
  <2>2. LoopAt("tail", 0)
    BY <1>1, <1>3, <2>1, LoopCases
  <2> QED
    BY <1>1, <1>2, <1>5, <2>2 DEF Kept, CollectAt
<1> QED
  BY <1>4, <1>5

LEMMA SetRevChunkKeeps ==
  ASSUME Going, SetRevChunk
  PROVE  Kept(pc', pos', found', matches', reads')
<1> AskInv /\ SearcherRuns
  BY DEF Going
<1> DEFINE T == {pos + i : i \in SetLanes(Hay, pos)}
           to == IF pos < Lanes THEN "tail" ELSE "chunks"
           p == Less(pos, Lanes)
           e == pos
<1>1. /\ SetIs("rev") /\ Is({"bytes", "ranges"}) /\ pc = "chunks"
      /\ LastOr(T, to, p) /\ reads' = Span(pos, Lanes) /\ to \in {"chunks", "tail"}
  BY DEF SetRevChunk, SetIs
<1>2. N \in Nat /\ Hits \in SUBSET (0 .. N) /\ ask.op # "all" /\ Lanes \in Nat \ {0} /\ ~ Onward
  BY <1>1, SetGoing
<1>3. pos \in 0 .. N - Lanes /\ pos % Lanes = N % Lanes /\ \A h \in Hits : h < pos + Lanes
  BY <1>1, LoopCases DEF Going
<1>4. pos \in Nat /\ e \in Int /\ pos + Lanes <= N
  BY <1>2, <1>3
<1>5. T = {h \in Hits : pos <= h /\ h < pos + Lanes} /\ reads' \in SUBSET (0 .. N - 1)
  BY <1>1, <1>4, SetLanesFind
<1>6. T = {h \in Hits : h >= e}
  <2>1. \A h \in Hits : h < pos + Lanes /\ (h >= e <=> pos <= h)
    BY <1>2, <1>3, <1>4
  <2> QED
    BY <1>5, <2>1
<1>7. ASSUME \A h \in Hits : h < e
      PROVE  LoopAt(to, p)
  <2>1. CASE pos < Lanes
    <3>1. (pos % Lanes) = pos
      BY <1>2, <1>4, <2>1, RemainderLess
    <3>2. Gap = pos
      BY <1>2, <1>3, <1>4, <3>1 DEF Gap
    <3>3. LoopAt("tail", p)
      BY <1>1, <1>7, <3>2, LoopCases
    <3> QED
      BY <2>1, <3>3
  <2>2. CASE ~ (pos < Lanes)
    <3>0. pos >= Lanes
      BY <1>2, <1>4, <2>2
    <3>1. p = pos - Lanes /\ p \in 0 .. N - Lanes /\ p + Lanes = e
      BY <1>2, <1>4, <3>0 DEF Less
    <3>2. ((pos - Lanes) % Lanes) = (pos % Lanes)
      BY <1>2, <1>4, <3>0, RemainderLess
    <3>3. p % Lanes = N % Lanes
      BY <1>3, <3>1, <3>2
    <3>4. \A h \in Hits : h < p + Lanes
      BY <1>7, <3>1
    <3>5. LoopAt("chunks", p)
      BY <1>1, <3>1, <3>3, <3>4, LoopCases
    <3> QED
      BY <2>2, <3>5
  <2> QED
    BY <2>1, <2>2
<1> HIDE DEF T, to, p, e
<1> QED
  BY <1>1, <1>2, <1>4, <1>5, <1>6, <1>7, LastOrKeeps

LEMMA SetRevTailKeeps ==
  ASSUME Going, SetRevTail
  PROVE  Kept(pc', pos', found', matches', reads')
<1> AskInv /\ SearcherRuns
  BY DEF Going
<1> DEFINE n == Gap
           T == SetRest(Hay, 0, n)
<1>1. /\ SetIs("rev") /\ Is({"bytes", "ranges"}) /\ pc = "tail"
      /\ Return(Last(T)) /\ reads' = Span(0, n)
  BY DEF SetRevTail, SetIs
<1>2. N \in Nat /\ Hits \in SUBSET (0 .. N) /\ ask.op # "all" /\ Lanes \in Nat \ {0} /\ ~ Onward
  BY <1>1, SetGoing
<1>3. \A h \in Hits : h < n
  BY <1>1, LoopCases DEF Going
<1>4. 0 \in Nat /\ n \in Nat /\ 0 + n = n /\ 0 + n <= N /\ n <= Lanes
  <2>1. CASE N >= Lanes
    <3>1. N % Lanes \in 0 .. Lanes - 1 /\ n = N % Lanes
      BY <1>2, <2>1, RemainderBounds DEF Gap
    <3> HIDE DEF n
    <3> QED
      BY <1>2, <2>1, <3>1
  <2>2. CASE ~ (N >= Lanes)
    <3>1. n = N
      BY <2>2 DEF Gap
    <3> HIDE DEF n
    <3> QED
      BY <1>2, <2>2, <3>1
  <2> QED
    BY <2>1, <2>2
<1> HIDE DEF n
<1>5. T = {h \in Hits : 0 <= h /\ h < 0 + n} /\ reads' \in SUBSET (0 .. N - 1)
  BY <1>1, <1>4, SetRestFinds
<1>6. T = Hits
  <2>1. \A h \in Hits : 0 <= h /\ h < 0 + n
    BY <1>2, <1>3, <1>4
  <2> QED
    BY <1>5, <2>1
<1> HIDE DEF T
<1> QED
  BY <1>1, <1>2, <1>5, <1>6, ReturnLastKeeps

-----------------------------------------------------------------------------
(* Teddy and the range search: the candidates of a vector.                 *)
LEMMA RowGoing ==
  ASSUME Going, Is({"teddy", "range"})
  PROVE  /\ N \in Nat /\ Hits \in SUBSET (0 .. N) /\ Lanes \in Nat \ {0} /\ s.len \in Nat \ {0}
         /\ ask.op # "all" /\ Onward /\ run.from \in Nat
         /\ Hits \in SUBSET (0 .. N - s.len)
<1> AskInv /\ SearcherRuns
  BY DEF Going
<1>1. N \in Nat /\ run.from \in Nat
  BY RunFrame
<1>2. /\ ask.op = "fwd" /\ s.len = Len(Sets)
      /\ Hits = {p \in run.from .. N - s.len : RowAt(Hay, Sets, p)}
  BY RowFacts
<1>3. s.len \in Nat \ {0}
  BY <1>2, AskFacts
<1>4. Hits \subseteq 0 .. N - s.len /\ Hits \subseteq 0 .. N
  BY <1>1, <1>2, <1>3
<1>5. Onward /\ ask.op # "all"
  BY <1>2 DEF Onward, Reverse
<1> QED
  BY <1>1, <1>3, <1>4, <1>5, LanesNat

LEMMA VerifiedAre ==
  ASSUME Going, Is({"teddy", "range"}), NEW e \in Int,
         NEW cands, \A c \in cands : c \in 0 .. N - s.len /\ run.from <= c /\ c < e,
         \A h \in Hits : h < e => h \in cands
  PROVE  /\ Verified(cands) = {h \in Hits : h < e}
         /\ RowReads(cands) \in SUBSET (0 .. N - 1)
<1> AskInv /\ SearcherRuns
  BY DEF Going
<1>1. N \in Nat /\ s.len \in Nat \ {0} /\ run.from \in Nat /\ Hits \in SUBSET (0 .. N - s.len)
  BY RowGoing
<1>2. Hits = {p \in run.from .. N - s.len : RowAt(Hay, Sets, p)}
  BY RowFacts
<1>3. \A p \in 0 .. N - s.len : VerifyFwd(s, Hay, p) <=> RowAt(Hay, Sets, p)
  BY RowFacts
<1>4. ASSUME NEW c \in Verified(cands)
      PROVE  c \in Hits /\ c < e
  <2>1. c \in cands /\ VerifyFwd(s, Hay, c)
    BY DEF Verified
  <2>2. c \in 0 .. N - s.len /\ run.from <= c /\ c < e /\ c \in run.from .. N - s.len
    BY <1>1, <2>1
  <2> QED
    BY <1>2, <1>3, <2>1, <2>2
<1>5. ASSUME NEW h \in Hits, h < e
      PROVE  h \in Verified(cands)
  <2>1. h \in cands /\ h \in 0 .. N - s.len /\ RowAt(Hay, Sets, h)
    BY <1>1, <1>2, <1>5
  <2> QED
    BY <1>3, <2>1 DEF Verified
<1>6. RowReads(cands) \subseteq 0 .. N - 1
  <2>1. ASSUME NEW r \in RowReads(cands)
        PROVE  r \in 0 .. N - 1
    <3>1. PICK c \in cands : r \in Span(c, s.len)
      BY DEF RowReads
    <3>2. c \in 0 .. N - s.len /\ r \in c .. c + s.len - 1
      BY <3>1 DEF Span
    <3> QED
      BY <1>1, <3>2
  <2> QED
    BY <2>1
<1> QED
  BY <1>4, <1>5, <1>6

LEMMA SimdRoom ==
  ASSUME Going, Is({"teddy", "range"}), NEW p \in Nat, p < SimdEnd
  PROVE  p + Lanes + s.len <= N + 1
<1>1. N \in Nat /\ s.len \in Nat \ {0} /\ Lanes \in Nat \ {0}
  BY RowGoing
<1> QED
  BY <1>1 DEF SimdEnd, Less

LEMMA TeddyCandsFind ==
  ASSUME Going, Is({"teddy"}), NEW p \in Nat, p >= run.from, p < SimdEnd
  PROVE  /\ \A c \in TeddyCands(p) : c \in 0 .. N - s.len /\ run.from <= c /\ p <= c /\ c < p + Lanes
         /\ \A h \in Hits : p <= h /\ h < p + Lanes => h \in TeddyCands(p)
         /\ UNION {Span(p + s.offsets[m], Lanes) : m \in DOMAIN s.offsets} \in SUBSET (0 .. N - 1)
<1> Is({"teddy", "range"}) /\ AskInv /\ SearcherRuns
  BY DEF Going, Is
<1>1. /\ N \in Nat /\ s.len \in Nat \ {0} /\ Lanes \in Nat \ {0} /\ run.from \in Nat
      /\ Hits \in SUBSET (0 .. N - s.len)
  BY RowGoing
<1>2. p + Lanes + s.len <= N + 1
  BY SimdRoom
<1>3. /\ Hits = {q \in run.from .. N - s.len : RowAt(Hay, Sets, q)}
      /\ s.k = "teddy"
  BY RowFacts DEF Is
<1>4. /\ s.offsets \in [DOMAIN s.masks -> 0 .. s.len - 1]
      /\ \A q \in 0 .. N - s.len : RowAt(Hay, Sets, q) =>
            \A m \in DOMAIN s.masks : Passes(s.masks[m], At(Hay, q + s.offsets[m]))
  BY <1>3, RowFacts
<1>5. ASSUME NEW c \in TeddyCands(p)
      PROVE  c \in 0 .. N - s.len /\ run.from <= c /\ p <= c /\ c < p + Lanes
  <2>1. PICK i \in 0 .. Lanes - 1 : c = p + i
    BY DEF TeddyCands, FilterFwd
  <2> QED
    BY <1>1, <1>2, <2>1
<1>6. ASSUME NEW h \in Hits, p <= h, h < p + Lanes
      PROVE  h \in TeddyCands(p)
  <2>1. h \in 0 .. N - s.len /\ RowAt(Hay, Sets, h)
    BY <1>1, <1>3
  <2>2. h - p \in 0 .. Lanes - 1 /\ p + (h - p) = h
    BY <1>1, <1>6, <2>1
  <2>3. \A m \in DOMAIN s.masks : Passes(s.masks[m], At(Hay, p + (h - p) + s.offsets[m]))
    BY <1>4, <2>1, <2>2
  <2>4. h - p \in FilterFwd(s, Hay, p)
    BY <2>2, <2>3 DEF FilterFwd
  <2> QED
    BY <2>2, <2>4 DEF TeddyCands
<1>7. UNION {Span(p + s.offsets[m], Lanes) : m \in DOMAIN s.offsets} \subseteq 0 .. N - 1
  <2>1. ASSUME NEW m \in DOMAIN s.offsets, NEW r \in Span(p + s.offsets[m], Lanes)
        PROVE  r \in 0 .. N - 1
    <3>1. s.offsets[m] \in 0 .. s.len - 1 /\ r \in p + s.offsets[m] .. p + s.offsets[m] + Lanes - 1
      BY <1>4, <2>1 DEF Span
    <3> QED
      BY <1>1, <1>2, <3>1
  <2> QED
    BY <2>1
<1> QED
  BY <1>5, <1>6, <1>7

LEMMA RangeCandsFind ==
  ASSUME Going, Is({"range"}), pos \in Nat, pos >= run.from, pos < SimdEnd
  PROVE  /\ \A c \in RangeCands : c \in 0 .. N - s.len /\ run.from <= c /\ pos <= c /\ c < pos + Lanes
         /\ \A h \in Hits : pos <= h /\ h < pos + Lanes => h \in RangeCands
         /\ Span(pos + s.anchor, Lanes) \in SUBSET (0 .. N - 1)
<1> Is({"teddy", "range"}) /\ AskInv /\ SearcherRuns
  BY DEF Going, Is
<1>1. /\ N \in Nat /\ s.len \in Nat \ {0} /\ Lanes \in Nat \ {0} /\ run.from \in Nat
      /\ Hits \in SUBSET (0 .. N - s.len)
  BY RowGoing
<1>2. pos + Lanes + s.len <= N + 1
  BY SimdRoom
<1>3. /\ Hits = {q \in run.from .. N - s.len : RowAt(Hay, Sets, q)}
      /\ s.k = "range"
  BY RowFacts DEF Is
<1>4. /\ s.anchor \in 0 .. s.len - 1
      /\ \A q \in 0 .. N - s.len : RowAt(Hay, Sets, q) => InRanges(At(Hay, q + s.anchor), s.ranges)
  BY <1>3, RowFacts
<1>5. ASSUME NEW c \in RangeCands
      PROVE  c \in 0 .. N - s.len /\ run.from <= c /\ pos <= c /\ c < pos + Lanes
  <2>1. PICK i \in 0 .. Lanes - 1 : c = pos + i
    BY DEF RangeCands
  <2> QED
    BY <1>1, <1>2, <2>1
<1>6. ASSUME NEW h \in Hits, pos <= h, h < pos + Lanes
      PROVE  h \in RangeCands
  <2>1. h \in 0 .. N - s.len /\ RowAt(Hay, Sets, h)
    BY <1>1, <1>3
  <2>2. h - pos \in 0 .. Lanes - 1 /\ pos + (h - pos) = h
    BY <1>1, <1>6, <2>1
  <2>3. InRanges(At(Hay, pos + (h - pos) + s.anchor), s.ranges)
    BY <1>4, <2>1, <2>2
  <2> QED
    BY <2>2, <2>3 DEF RangeCands
<1>7. Span(pos + s.anchor, Lanes) \subseteq 0 .. N - 1
  BY <1>1, <1>2, <1>4 DEF Span
<1> QED
  BY <1>5, <1>6, <1>7

LEMMA CallRowKeeps ==
  ASSUME Going, CallRow
  PROVE  Kept(pc', pos', found', matches', reads')
<1>1. Is({"teddy", "range"}) /\ pc' = "chunks" /\ pos' = run.from /\ reads' = {}
  BY DEF CallRow, Go
<1> AskInv /\ SearcherRuns
  BY DEF Going
<1>2. N \in Nat /\ ask.op # "all" /\ run.from \in Nat /\ s.len \in Nat \ {0}
  BY <1>1, RowGoing
<1>3. Hits = {p \in run.from .. N - s.len : RowAt(Hay, Sets, p)}
  BY <1>1, RowFacts
<1>4. \A h \in Hits : h >= run.from
  BY <1>2, <1>3
<1>5. run.from >= run.from
  BY <1>2
<1>6. LoopAt("chunks", run.from)
  BY <1>1, <1>2, <1>4, <1>5, LoopCases
<1> QED
  BY <1>1, <1>2, <1>6 DEF Kept, CollectAt

LEMMA TeddyPairKeeps ==
  ASSUME Going, TeddyPair
  PROVE  Kept(pc', pos', found', matches', reads')
<1> DEFINE e == pos + 2 * Lanes
           A == TeddyCands(pos)
           B == TeddyCands(pos + Lanes)
           T == Verified(A \cup B)
<1>1. /\ Is({"teddy"}) /\ Is({"teddy", "range"}) /\ pc = "chunks" /\ pos + Lanes < SimdEnd
      /\ FirstOr(T, "chunks", e) /\ reads' = TeddyReads(pos) \cup TeddyReads(pos + Lanes)
  BY DEF TeddyPair, TeddyPairs, Is
<1>2. N \in Nat /\ Hits \in SUBSET (0 .. N) /\ ask.op # "all" /\ Lanes \in Nat \ {0} /\ Onward /\ run.from \in Nat
  BY <1>1, RowGoing
<1>3. pos \in Nat /\ pos >= run.from /\ \A h \in Hits : h >= pos
  BY <1>1, LoopCases DEF Going
<1>4. pos + Lanes \in Nat /\ pos + Lanes >= run.from /\ e \in Int /\ (pos + Lanes) + Lanes = e
  BY <1>2, <1>3
<1>5. SimdEnd \in Int
  BY <1>1, <1>2, RowGoing DEF SimdEnd, Less
<1>6. pos < SimdEnd
  BY <1>1, <1>2, <1>3, <1>5
<1>7. /\ \A c \in A : c \in 0 .. N - s.len /\ run.from <= c /\ pos <= c /\ c < pos + Lanes
      /\ \A h \in Hits : pos <= h /\ h < pos + Lanes => h \in A
      /\ UNION {Span(pos + s.offsets[m], Lanes) : m \in DOMAIN s.offsets} \in SUBSET (0 .. N - 1)
  BY <1>1, <1>3, <1>6, TeddyCandsFind
<1>8. /\ \A c \in B : c \in 0 .. N - s.len /\ run.from <= c /\ pos + Lanes <= c /\ c < pos + Lanes + Lanes
      /\ \A h \in Hits : pos + Lanes <= h /\ h < pos + Lanes + Lanes => h \in B
      /\ UNION {Span(pos + Lanes + s.offsets[m], Lanes) : m \in DOMAIN s.offsets} \in SUBSET (0 .. N - 1)
  BY <1>1, <1>4, TeddyCandsFind
<1>9. \A c \in A \cup B : c \in 0 .. N - s.len /\ run.from <= c /\ c < e
  BY <1>2, <1>3, <1>4, <1>7, <1>8, RowGoing
<1>10. \A h \in Hits : h < e => h \in A \cup B
  <2>1. ASSUME NEW h \in Hits, h < e
        PROVE  h \in A \cup B
    <3>1. h \in Nat /\ pos <= h
      BY <1>2, <1>3
    <3>2. CASE h < pos + Lanes
      BY <1>7, <3>1, <3>2
    <3>3. CASE ~ (h < pos + Lanes)
      <4>1. pos + Lanes <= h /\ h < pos + Lanes + Lanes
        BY <1>2, <1>3, <1>4, <2>1, <3>1, <3>3
      <4> QED
        BY <1>8, <4>1
    <3> QED
      BY <3>2, <3>3
  <2> QED
    BY <2>1
<1>11. T = {h \in Hits : h < e} /\ RowReads(A \cup B) \in SUBSET (0 .. N - 1)
  <2> HIDE DEF A, B, e
  <2> QED
    BY <1>1, <1>4, <1>9, <1>10, VerifiedAre
<1>12. reads' \in SUBSET (0 .. N - 1)
  <2>1. RowReads(A) \subseteq RowReads(A \cup B) /\ RowReads(B) \subseteq RowReads(A \cup B)
    BY DEF RowReads
  <2> DEFINE U(p) == UNION {Span(p + s.offsets[m], Lanes) : m \in DOMAIN s.offsets}
  <2>2. TeddyReads(pos) = U(pos) \cup RowReads(A) /\ TeddyReads(pos + Lanes) = U(pos + Lanes) \cup RowReads(B)
    BY DEF TeddyReads
  <2>3. U(pos) \in SUBSET (0 .. N - 1) /\ U(pos + Lanes) \in SUBSET (0 .. N - 1)
    BY <1>7, <1>8
  <2> HIDE DEF A, B, U
  <2> QED
    BY <1>1, <1>11, <2>1, <2>2, <2>3
<1> HIDE DEF e, T
<1>13. (\A h \in Hits : h >= e) => LoopAt("chunks", e)
  <2>1. e \in Nat /\ e >= run.from
    BY <1>2, <1>3, <1>4 DEF e
  <2> QED
    BY <1>1, <2>1, LoopCases
<1>14. "chunks" \in {"chunks", "tail"}
  OBVIOUS
<1> QED
  BY <1>1, <1>2, <1>4, <1>11, <1>12, <1>13, <1>14, FirstOrKeeps

LEMMA TeddyChunkKeeps ==
  ASSUME Going, TeddyChunk
  PROVE  Kept(pc', pos', found', matches', reads')
<1> DEFINE e == pos + Lanes
           A == TeddyCands(pos)
           T == Verified(A)
<1>1. /\ Is({"teddy"}) /\ Is({"teddy", "range"}) /\ pc = "chunks" /\ pos < SimdEnd
      /\ FirstOr(T, "chunks", e) /\ reads' = TeddyReads(pos)
  BY DEF TeddyChunk, Is
<1>2. N \in Nat /\ Hits \in SUBSET (0 .. N) /\ ask.op # "all" /\ Lanes \in Nat \ {0} /\ Onward /\ run.from \in Nat
  BY <1>1, RowGoing
<1>3. pos \in Nat /\ pos >= run.from /\ \A h \in Hits : h >= pos
  BY <1>1, LoopCases DEF Going
<1>4. e \in Int /\ e \in Nat /\ e >= run.from
  BY <1>2, <1>3
<1>5. /\ \A c \in A : c \in 0 .. N - s.len /\ run.from <= c /\ pos <= c /\ c < pos + Lanes
      /\ \A h \in Hits : pos <= h /\ h < pos + Lanes => h \in A
      /\ UNION {Span(pos + s.offsets[m], Lanes) : m \in DOMAIN s.offsets} \in SUBSET (0 .. N - 1)
  BY <1>1, <1>3, TeddyCandsFind
<1>6. \A h \in Hits : h < e => h \in A
  BY <1>2, <1>3, <1>5
<1>7. \A c \in A : c \in 0 .. N - s.len /\ run.from <= c /\ c < e
  BY <1>5
<1>8. T = {h \in Hits : h < e} /\ RowReads(A) \in SUBSET (0 .. N - 1)
  <2> HIDE DEF A, e
  <2> QED
    BY <1>1, <1>4, <1>6, <1>7, VerifiedAre
<1>9. reads' \in SUBSET (0 .. N - 1)
  <2> DEFINE U == UNION {Span(pos + s.offsets[m], Lanes) : m \in DOMAIN s.offsets}
  <2>1. TeddyReads(pos) = U \cup RowReads(A)
    BY DEF TeddyReads
  <2>2. U \in SUBSET (0 .. N - 1)
    BY <1>5
  <2> HIDE DEF A, U
  <2> QED
    BY <1>1, <1>8, <2>1, <2>2
<1> HIDE DEF e, T
<1>10. (\A h \in Hits : h >= e) => LoopAt("chunks", e)
  BY <1>1, <1>4, LoopCases
<1>11. "chunks" \in {"chunks", "tail"}
  OBVIOUS
<1> QED
  BY <1>1, <1>2, <1>4, <1>8, <1>9, <1>10, <1>11, FirstOrKeeps

LEMMA RangeChunkKeeps ==
  ASSUME Going, RangeChunk
  PROVE  Kept(pc', pos', found', matches', reads')
<1> DEFINE e == pos + Lanes
           A == RangeCands
           T == Verified(A)
<1>1. /\ Is({"range"}) /\ Is({"teddy", "range"}) /\ pc = "chunks" /\ pos < SimdEnd
      /\ FirstOr(T, "chunks", e) /\ reads' = Span(pos + s.anchor, Lanes) \cup RowReads(A)
  BY DEF RangeChunk, Is
<1>2. N \in Nat /\ Hits \in SUBSET (0 .. N) /\ ask.op # "all" /\ Lanes \in Nat \ {0} /\ Onward /\ run.from \in Nat
  BY <1>1, RowGoing
<1>3. pos \in Nat /\ pos >= run.from /\ \A h \in Hits : h >= pos
  BY <1>1, LoopCases DEF Going
<1>4. e \in Int /\ e \in Nat /\ e >= run.from
  BY <1>2, <1>3
<1>5. /\ \A c \in A : c \in 0 .. N - s.len /\ run.from <= c /\ pos <= c /\ c < pos + Lanes
      /\ \A h \in Hits : pos <= h /\ h < pos + Lanes => h \in A
      /\ Span(pos + s.anchor, Lanes) \in SUBSET (0 .. N - 1)
  BY <1>1, <1>3, RangeCandsFind
<1>6. \A h \in Hits : h < e => h \in A
  BY <1>2, <1>3, <1>5
<1>7. \A c \in A : c \in 0 .. N - s.len /\ run.from <= c /\ c < e
  BY <1>5
<1>8. T = {h \in Hits : h < e} /\ RowReads(A) \in SUBSET (0 .. N - 1)
  <2> HIDE DEF A, e
  <2> QED
    BY <1>1, <1>4, <1>6, <1>7, VerifiedAre
<1>9. reads' \in SUBSET (0 .. N - 1)
  BY <1>1, <1>5, <1>8
<1> HIDE DEF e, T
<1>10. (\A h \in Hits : h >= e) => LoopAt("chunks", e)
  BY <1>1, <1>4, LoopCases
<1>11. "chunks" \in {"chunks", "tail"}
  OBVIOUS
<1> QED
  BY <1>1, <1>2, <1>4, <1>8, <1>9, <1>10, <1>11, FirstOrKeeps

LEMMA RowRestKeeps ==
  ASSUME Going, RowRest
  PROVE  Kept(pc', pos', found', matches', reads')
<1> DEFINE e == N + 1
           A == pos .. N - s.len
           T == Verified(A)
<1>1. /\ Is({"teddy", "range"}) /\ pc = "chunks"
      /\ Return(First(T)) /\ reads' = RowReads(A)
  BY DEF RowRest
<1>2. /\ N \in Nat /\ Hits \in SUBSET (0 .. N) /\ ask.op # "all" /\ Onward /\ run.from \in Nat
      /\ s.len \in Nat \ {0} /\ Hits \in SUBSET (0 .. N - s.len)
  BY <1>1, RowGoing
<1>3. pos \in Nat /\ pos >= run.from /\ \A h \in Hits : h >= pos
  BY <1>1, LoopCases DEF Going
<1>4. e \in Int /\ \A h \in Hits : h < e
  BY <1>2
<1>5. \A c \in A : c \in 0 .. N - s.len /\ run.from <= c /\ c < e
  BY <1>2, <1>3
<1>6. \A h \in Hits : h < e => h \in A
  BY <1>2, <1>3
<1> HIDE DEF A, e
<1>7. T = {h \in Hits : h < e} /\ RowReads(A) \in SUBSET (0 .. N - 1)
  BY <1>1, <1>4, <1>5, <1>6, VerifiedAre
<1>8. T = Hits /\ reads' \in SUBSET (0 .. N - 1)
  BY <1>1, <1>4, <1>7
<1> HIDE DEF T
<1> QED
  BY <1>1, <1>2, <1>8, ReturnFirstKeeps

-----------------------------------------------------------------------------
(* A search for all.  What it has collected when it has seen the candidates *)
(* T of a step.                                                            *)
Lists == Seq(Nat \X Nat)
Collecting(starts, iter) ==
  /\ iter \in [SUBSET starts -> Lists] /\ iter[{}] = matches
  /\ \A T \in SUBSET starts : T # {} => iter[T] = Collect(iter[T \ {Greatest(T)}], Greatest(T))
  /\ Collected(starts) = iter[starts]

LEMMA CollectList ==
  ASSUME NEW acc \in Lists, NEW p \in Nat, s.len \in Nat
  PROVE  Collect(acc, p) \in Lists
<1>1. <<p, p + s.len>> \in Nat \X Nat
  OBVIOUS
<1> DEFINE V == Nat \X Nat
           e == <<p, p + s.len>>
<1>2. e \in V /\ acc \in Seq(V)
  BY <1>1 DEF Lists
<1>3. Append(acc, e) \in Seq(V)
  <2> HIDE DEF V, e
  <2> QED
    BY <1>2
<1> QED
  BY <1>3 DEF Collect, Lists

LEMMA CollectedFolds ==
  ASSUME N \in Nat, s.len \in Nat, matches \in Lists, NEW starts \in SUBSET (0 .. N)
  PROVE  \E iter : Collecting(starts, iter)
<1> DEFINE pick == [T \in SUBSET starts |-> Greatest(T)]
           step == [p \in starts \X Lists |-> Collect(p[2], p[1])]
           Eq(g) == [T \in SUBSET starts |-> IF T = {} THEN matches
                                             ELSE Collect(g[T \ {Greatest(T)}], Greatest(T))]
           iter == CHOOSE g : g = Eq(g)
<1>1. IsFiniteSet(starts)
  <2>1. IsFiniteSet(0 .. N)
    BY FS_Interval
  <2> QED
    BY <2>1, FS_Subset
<1>2. \A T \in SUBSET starts : T # {} => pick[T] \in T
  <2> SUFFICES ASSUME NEW T \in SUBSET starts, T # {}
               PROVE  Greatest(T) \in T
    OBVIOUS
  <2>1. T \in SUBSET (0 .. N) /\ 0 \in Int /\ N \in Int
    OBVIOUS
  <2> QED
    BY <2>1, GreatestOf
<1>3. step \in [starts \X Lists -> Lists]
  <2> SUFFICES ASSUME NEW p \in starts \X Lists
               PROVE  Collect(p[2], p[1]) \in Lists
    OBVIOUS
  <2>1. p[1] \in starts /\ p[2] \in Lists
    OBVIOUS
  <2>2. p[1] \in 0 .. N
    BY <2>1
  <2>3. p[1] \in Nat
    BY <2>2
  <2> QED
    BY <2>1, <2>3, CollectList
<1>4. PICK g \in [SUBSET starts -> Lists] : g = Folding(starts, matches, pick, step, g)
  <2>1. FoldDefined(starts, Lists, matches, pick, step)
    <3> HIDE DEF pick, step, Eq, iter
    <3> QED
      BY <1>1, <1>2, <1>3, FoldExists
  <2> QED
    BY <2>1 DEF FoldDefined
<1>5. Folding(starts, matches, pick, step, g) = Eq(g)
  <2> SUFFICES ASSUME NEW T \in SUBSET starts, T # {}
               PROVE  step[<<pick[T], g[T \ {pick[T]}]>>] = Collect(g[T \ {Greatest(T)}], Greatest(T))
    BY DEF Folding
  <2>1. pick[T] = Greatest(T)
    OBVIOUS
  <2>2. pick[T] \in starts /\ T \ {pick[T]} \in SUBSET starts
    BY <1>2
  <2>3. g[T \ {pick[T]}] \in Lists
    BY <2>2
  <2>4. step[<<pick[T], g[T \ {pick[T]}]>>] = Collect(g[T \ {pick[T]}], pick[T])
    <3> HIDE DEF pick
    <3> QED
      BY <2>2, <2>3
  <2> QED
    BY <2>1, <2>4
<1>6. iter = Eq(iter)
  <2>1. g = Eq(g)
    BY <1>4, <1>5
  <2> HIDE DEF Eq
  <2> QED
    BY <2>1
<1>7. Collected(starts) = iter[starts]
  BY DEF Collected, SetOps!MapThenFoldSet
<1>8. \A T \in SUBSET starts : iter[T] = IF T = {} THEN matches ELSE Collect(iter[T \ {Greatest(T)}], Greatest(T))
  <2> HIDE DEF iter
  <2> QED
    BY <1>6
<1> HIDE DEF iter
<1>9. \A T \in SUBSET starts : iter[T] \in Lists
  <2> SUFFICES ASSUME NEW S \in SUBSET starts
               PROVE  iter[S] \in Lists
    OBVIOUS
  <2> DEFINE top == [T \in SUBSET S |-> Greatest(T)]
             Fine == {T \in SUBSET S : iter[T] \in Lists}
  <2>1. IsFiniteSet(S) /\ \A T \in SUBSET S : T # {} => top[T] \in T
    <3>1. \A T \in SUBSET S : T \in SUBSET starts
      OBVIOUS
    <3>2. \A T \in SUBSET S : pick[T] = top[T]
      BY <3>1
    <3> HIDE DEF pick, top
    <3> QED
      BY <1>1, <1>2, <3>1, <3>2, FS_Subset
  <2>2. {} \in Fine
    BY <1>8
  <2>3. \A T \in SUBSET S : T # {} /\ T \ {top[T]} \in Fine => T \in Fine
    <3> SUFFICES ASSUME NEW T \in SUBSET S, T # {}, T \ {top[T]} \in Fine
                 PROVE  iter[T] \in Lists
      OBVIOUS
    <3>1. top[T] = Greatest(T) /\ T \in SUBSET starts
      OBVIOUS
    <3>2. iter[T] = Collect(iter[T \ {top[T]}], top[T])
      BY <1>8, <3>1
    <3>3. top[T] \in 0 .. N
      BY <2>1
    <3>4. top[T] \in Nat /\ iter[T \ {top[T]}] \in Lists
      BY <3>3
    <3> HIDE DEF top
    <3> QED
      BY <3>2, <3>4, CollectList
  <2>4. S \in Fine
    <3> HIDE DEF Fine, top
    <3> QED
      BY <2>1, <2>2, <2>3, FoldInduction
  <2> QED
    BY <2>4
<1>10. iter \in [SUBSET starts -> Lists]
  <2>1. iter = [T \in SUBSET starts |-> IF T = {} THEN matches ELSE Collect(iter[T \ {Greatest(T)}], Greatest(T))]
    BY <1>6
  <2>2. DOMAIN iter = SUBSET starts /\ iter = [T \in SUBSET starts |-> iter[T]]
    <3> DEFINE D == [T \in SUBSET starts |-> IF T = {} THEN matches ELSE Collect(iter[T \ {Greatest(T)}], Greatest(T))]
    <3>1. DOMAIN D = SUBSET starts /\ D = [T \in SUBSET starts |-> D[T]]
      OBVIOUS
    <3> HIDE DEF D
    <3>2. iter = D
      BY <2>1 DEF D
    <3> QED
      BY <3>1, <3>2
  <2> QED
    BY <1>9, <2>2
<1>11. Collecting(starts, iter)
  BY <1>7, <1>8, <1>10 DEF Collecting
<1> QED
  BY <1>11

-----------------------------------------------------------------------------
(* With the candidates T of a step behind it, a search for all has the     *)
(* matches that do not overlap, and the next one is not in T.              *)
GreedyPast(acc, b, T) ==
  /\ acc \in Lists
  /\ \A k \in 1 .. Len(acc) : /\ acc[k][1] \in Hits /\ acc[k][1] >= EndOf(acc, k - 1)
                              /\ acc[k][2] = acc[k][1] + s.len
                              /\ \A q \in Hits : q >= EndOf(acc, k - 1) => acc[k][1] <= q
  /\ \A q \in Hits : q >= EndOf(acc, Len(acc)) => q >= b /\ q \notin T

LEMMA EndOfNat ==
  ASSUME NEW acc \in Lists, NEW k \in 0 .. Len(acc)
  PROVE  EndOf(acc, k) \in Nat
<1>1. CASE k = 0
  BY <1>1 DEF EndOf
<1>2. CASE k # 0
  <2>1. k \in 1 .. Len(acc)
    BY <1>2
  <2>2. acc[k] \in Nat \X Nat
    BY <2>1 DEF Lists
  <2> QED
    BY <1>2, <2>2 DEF EndOf
<1> QED
  BY <1>1, <1>2

LEMMA AppendGreedy ==
  ASSUME s.len \in Nat, Hits \in SUBSET (0 .. N), N \in Nat, NEW b \in Int, NEW T,
         NEW acc, GreedyPast(acc, b, T), NEW x \in Hits, x >= EndOf(acc, Len(acc)),
         \A q \in Hits : q >= EndOf(acc, Len(acc)) => x <= q
  PROVE  LET a == Append(acc, <<x, x + s.len>>)
         IN /\ a \in Lists /\ EndOf(a, Len(a)) = x + s.len
            /\ \A k \in 1 .. Len(a) : /\ a[k][1] \in Hits /\ a[k][1] >= EndOf(a, k - 1)
                                      /\ a[k][2] = a[k][1] + s.len
                                      /\ \A q \in Hits : q >= EndOf(a, k - 1) => a[k][1] <= q
<1> DEFINE e == <<x, x + s.len>>
           a == Append(acc, e)
           V == Nat \X Nat
           n == Len(acc)
<1>1. acc \in Seq(V) /\ n \in Nat
  BY DEF GreedyPast, Lists
<1>2. x \in Nat /\ e \in V /\ e[1] = x /\ e[2] = x + s.len
  <2>1. x \in 0 .. N
    OBVIOUS
  <2> QED
    BY <2>1
<1> HIDE DEF V
<1>3. /\ a \in Seq(V) /\ Len(a) = n + 1 /\ a[n + 1] = e
      /\ \A k \in 1 .. n : a[k] = acc[k]
  <2> HIDE DEF e
  <2> QED
    BY <1>1, <1>2
<1> HIDE DEF a, e
<1>4. \A k \in 0 .. n : EndOf(a, k) = EndOf(acc, k)
  BY <1>1, <1>3 DEF EndOf
<1>5. EndOf(a, Len(a)) = x + s.len
  BY <1>1, <1>2, <1>3 DEF EndOf
<1>6. ASSUME NEW k \in 1 .. Len(a)
      PROVE  /\ a[k][1] \in Hits /\ a[k][1] >= EndOf(a, k - 1)
             /\ a[k][2] = a[k][1] + s.len
             /\ \A q \in Hits : q >= EndOf(a, k - 1) => a[k][1] <= q
  <2>1. CASE k \in 1 .. n
    <3>1. a[k] = acc[k] /\ k - 1 \in 0 .. n
      BY <1>1, <1>3, <2>1
    <3>2. EndOf(a, k - 1) = EndOf(acc, k - 1)
      BY <1>4, <3>1
    <3> QED
      BY <2>1, <3>1, <3>2 DEF GreedyPast
  <2>2. CASE k = n + 1
    <3>1. a[k] = e /\ k - 1 = n /\ n \in 0 .. n
      BY <1>1, <1>3, <2>2
    <3>2. EndOf(a, k - 1) = EndOf(acc, n)
      BY <1>4, <3>1
    <3>3. a[k][1] = x /\ a[k][2] = x + s.len
      BY <1>2, <3>1
    <3> QED
      BY <3>2, <3>3
  <2> QED
    BY <1>1, <1>3, <1>6, <2>1, <2>2
<1>7. a \in Lists
  BY <1>3 DEF Lists, V
<1> QED
  BY <1>5, <1>6, <1>7 DEF a, e

LEMMA CollectGreedy ==
  ASSUME s.len \in Nat \ {0}, N \in Nat, Hits \in SUBSET (0 .. N), NEW b \in Int,
         NEW starts \in SUBSET (0 .. N), \A c \in starts : Verify(s, Hay, c) <=> c \in Hits,
         NEW T \in SUBSET starts, NEW x \in T, \A y \in T : y <= x,
         \A q \in Hits : q >= b /\ q < x => q \in T,
         NEW acc, GreedyPast(acc, b, T \ {x})
  PROVE  GreedyPast(Collect(acc, x), b, T)
<1> DEFINE n == Len(acc)
           E == EndOf(acc, n)
<1>1. acc \in Lists /\ n \in Nat
  BY DEF GreedyPast, Lists
<1>2. E \in Nat
  <2>1. n \in 0 .. n
    BY <1>1
  <2> QED
    BY <1>1, <2>1, EndOfNat
<1>3. x \in starts /\ x \in 0 .. N /\ x \in Nat
  OBVIOUS
<1>4. (acc # <<>> /\ x < acc[n][2]) <=> x < E
  <2>1. acc = <<>> <=> n = 0
    BY <1>1 DEF Lists
  <2> QED
    BY <1>1, <1>3, <2>1 DEF EndOf
<1>5. \A q \in Hits : q >= E => q >= b /\ q \notin T \ {x}
  BY DEF GreedyPast
<1>6. CASE x < E \/ ~ Verify(s, Hay, x)
  <2>1. Collect(acc, x) = acc
    BY <1>4, <1>6 DEF Collect
  <2>2. \A q \in Hits : q >= E => q # x
    BY <1>2, <1>3, <1>6
  <2>3. \A q \in Hits : q >= E => q >= b /\ q \notin T
    BY <1>5, <2>2
  <2> QED
    BY <2>1, <2>3 DEF GreedyPast
<1>7. CASE ~ (x < E) /\ Verify(s, Hay, x)
  <2> DEFINE a == Append(acc, <<x, x + s.len>>)
  <2>1. Collect(acc, x) = a
    BY <1>4, <1>7 DEF Collect
  <2>2. x \in Hits /\ x >= E
    BY <1>2, <1>3, <1>7
  <2>3. \A q \in Hits : q >= E => x <= q
    <3>1. ASSUME NEW q \in Hits, q >= E, ~ (x <= q)
          PROVE  FALSE
      <4>1. q \in 0 .. N /\ q >= b /\ q < x
        BY <1>3, <1>5, <3>1
      <4>2. q \in T /\ q # x
        BY <1>3, <4>1
      <4> QED
        BY <1>5, <3>1, <4>2
    <3> QED
      BY <3>1
  <2>4. s.len \in Nat
    OBVIOUS
  <2> HIDE DEF E
  <2>5. /\ a \in Lists /\ EndOf(a, Len(a)) = x + s.len
        /\ \A k \in 1 .. Len(a) : /\ a[k][1] \in Hits /\ a[k][1] >= EndOf(a, k - 1)
                                  /\ a[k][2] = a[k][1] + s.len
                                  /\ \A q \in Hits : q >= EndOf(a, k - 1) => a[k][1] <= q
    <3>1. x >= EndOf(acc, Len(acc)) /\ \A q \in Hits : q >= EndOf(acc, Len(acc)) => x <= q
      BY <2>2, <2>3 DEF E
    <3> QED
      BY <2>2, <2>4, <3>1, AppendGreedy
  <2> HIDE DEF a
  <2>6. \A q \in Hits : q >= EndOf(a, Len(a)) => q >= b /\ q \notin T
    <3> SUFFICES ASSUME NEW q \in Hits, q >= x + s.len
                 PROVE  q >= b /\ q \notin T
      BY <2>5
    <3>1. q \in 0 .. N /\ q > x
      BY <1>3
    <3>2. q \notin T
      BY <1>3, <3>1
    <3>3. x >= b
      BY <1>5, <2>2
    <3> QED
      BY <1>3, <3>1, <3>2, <3>3
  <2> QED
    BY <2>1, <2>5, <2>6 DEF GreedyPast
<1> QED
  BY <1>6, <1>7

LEMMA CollectedGreedy ==
  ASSUME s.len \in Nat \ {0}, N \in Nat, Hits \in SUBSET (0 .. N), NEW b \in Int,
         NEW starts \in SUBSET (0 .. N), \A c \in starts : Verify(s, Hay, c) <=> c \in Hits,
         NEW e \in Int, \A q \in Hits : q >= b /\ q < e => q \in starts,
         \A c \in starts : c < e,
         Greedy(matches, b)
  PROVE  Greedy(Collected(starts), e)
<1>1. matches \in Lists /\ s.len \in Nat
  BY DEF Greedy, Lists
<1>2. PICK iter : Collecting(starts, iter)
  BY <1>1, CollectedFolds
<1> DEFINE Below(c) == {t \in starts : t < c}
           Good == {c \in Nat : GreedyPast(iter[Below(c)], b, Below(c))}
           Bad == Nat \ Good
<1>3. /\ iter[{}] = matches /\ Collected(starts) = iter[starts]
      /\ \A T \in SUBSET starts : T # {} => iter[T] = Collect(iter[T \ {Greatest(T)}], Greatest(T))
  BY <1>2 DEF Collecting
<1>0. \A t \in starts : t \in Nat /\ t \in 0 .. N /\ t < N + 1 /\ ~ (t < 0)
  <2> SUFFICES ASSUME NEW t \in starts
               PROVE  t \in Nat /\ t \in 0 .. N /\ t < N + 1 /\ ~ (t < 0)
    OBVIOUS
  <2>1. t \in 0 .. N
    OBVIOUS
  <2> QED
    BY <2>1
<1>4. Below(0) = {} /\ Below(N + 1) = starts
  BY <1>0
<1>5. 0 \in Good
  <2>1. GreedyPast(matches, b, {})
    BY DEF GreedyPast, Greedy, Lists
  <2> QED
    BY <1>3, <1>4, <2>1
<1>6. ASSUME NEW c \in Nat, c \in Good
      PROVE  c + 1 \in Good
  <2> DEFINE T == Below(c + 1)
  <2>1. CASE c \notin starts
    <3>1. T = Below(c)
      <4>1. \A t \in starts : t < c + 1 <=> t < c
        BY <1>0, <1>6, <2>1
      <4> QED
        BY <4>1
    <3> QED
      BY <1>6, <3>1
  <2>2. CASE c \in starts
    <3>1. c \in T /\ T \in SUBSET starts /\ T # {} /\ \A y \in T : y <= c
      BY <1>6, <2>2
    <3>2. T \ {c} = Below(c)
      <4>1. \A t \in starts : (t < c + 1 /\ t # c) <=> t < c
        BY <1>0, <1>6
      <4> QED
        BY <4>1
    <3>3. Greatest(T) = c
      <4>1. T \in SUBSET (0 .. N) /\ 0 \in Int /\ N \in Int
        <5>1. \A t \in T : t \in 0 .. N
          BY <1>0
        <5>2. T \subseteq 0 .. N
          BY <5>1
        <5> HIDE DEF T
        <5> QED
          BY <5>2
      <4> HIDE DEF T
      <4>2. Greatest(T) \in T /\ \A y \in T : y <= Greatest(T)
        BY <3>1, <4>1, GreatestOf
      <4>3. Greatest(T) \in 0 .. N
        BY <4>1, <4>2
      <4> QED
        BY <1>6, <3>1, <4>2, <4>3
    <3>4. iter[T] = Collect(iter[Below(c)], c)
      <4> HIDE DEF T
      <4>1. iter[T] = Collect(iter[T \ {c}], c)
        BY <1>3, <3>1, <3>3
      <4> QED
        BY <3>2, <4>1
    <3>5. \A q \in Hits : q >= b /\ q < c => q \in T
      <4> SUFFICES ASSUME NEW q \in Hits, q >= b, q < c
                   PROVE  q \in starts /\ q < c + 1
        OBVIOUS
      <4>1. q \in 0 .. N /\ c < e
        BY <2>2
      <4> QED
        BY <1>6, <4>1
    <3>6. GreedyPast(iter[Below(c)], b, T \ {c})
      BY <1>6, <3>2
    <3> HIDE DEF T, Below
    <3>7. GreedyPast(Collect(iter[Below(c)], c), b, T)
      BY <3>1, <3>5, <3>6, CollectGreedy
    <3> QED
      BY <3>4, <3>7 DEF T
  <2> QED
    BY <2>1, <2>2
<1>7. Bad = {}
  <2> SUFFICES ASSUME Bad # {}
               PROVE  FALSE
    OBVIOUS
  <2> HIDE DEF Good
  <2>1. PICK m \in Bad : \A n \in Bad : m <= n
    <3>1. Bad \in SUBSET Nat
      OBVIOUS
    <3> HIDE DEF Bad
    <3> QED
      BY <3>1, FirstNatural
  <2>2. m \in Nat /\ m # 0 /\ m \notin Good
    BY <1>5, <2>1
  <2>3. m - 1 \in Nat /\ m - 1 \in Good
    BY <2>1, <2>2
  <2> QED
    BY <1>6, <2>2, <2>3
<1>8. GreedyPast(iter[starts], b, starts)
  <2>1. N + 1 \in Nat
    OBVIOUS
  <2>2. N + 1 \in Good
    BY <1>7, <2>1
  <2> QED
    BY <1>4, <2>2
<1> DEFINE acc == iter[starts]
<1>9. acc = Collected(starts)
  BY <1>3
<1> HIDE DEF acc
<1>10. \A q \in Hits : q >= EndOf(acc, Len(acc)) => q >= e
  <2> SUFFICES ASSUME NEW q \in Hits, q >= EndOf(acc, Len(acc)), q < e
               PROVE  FALSE
    OBVIOUS
  <2> QED
    BY <1>8 DEF GreedyPast, acc
<1> QED
  BY <1>8, <1>9, <1>10 DEF GreedyPast, Greedy, Lists, acc

-----------------------------------------------------------------------------
(* The search for a literal: pos is where its rare byte would be.          *)
LEMMA LiteralGoing ==
  ASSUME Going, Is({"literal"})
  PROVE  /\ N \in Nat /\ s.len \in Nat \ {0} /\ Lanes \in Nat \ {0} /\ Onward
         /\ s.rare \in 0 .. s.len - 1 /\ s.confirm \in 0 .. s.len - 1
         /\ Hits \in SUBSET (0 .. N - s.len) /\ Hits \in SUBSET (0 .. N)
<1> AskInv /\ SearcherRuns
  BY DEF Going
<1>1. N \in Nat
  BY RunFrame
<1>2. /\ LiteralRuns /\ s.len \in 1 .. Len(Sets)
      /\ s.rare \in 0 .. s.len - 1 /\ s.confirm \in 0 .. s.len - 1
      /\ Hits = {p \in 0 .. N - s.len : \A i \in 1 .. s.len : Hay[p + i] \in Sets[i]}
  BY LiteralFacts
<1>3. s.len \in Nat \ {0}
  <2>1. Len(Sets) \in Nat
    BY AskFacts
  <2> QED
    BY <1>2, <2>1
<1>4. Hits \subseteq 0 .. N - s.len
  BY <1>2
<1>5. Hits \subseteq 0 .. N
  BY <1>1, <1>3, <1>4
<1>6. Onward
  BY <1>2 DEF LiteralRuns, Onward, Reverse
<1> QED
  BY <1>1, <1>2, <1>3, <1>4, <1>5, <1>6, LanesNat

LEMMA CompareInside ==
  ASSUME N \in Nat, s.len \in Nat \ {0}, NEW starts \in SUBSET (0 .. N - s.len)
  PROVE  CompareReads(starts) \in SUBSET (0 .. N - 1)
<1>1. ASSUME NEW r \in CompareReads(starts)
      PROVE  r \in 0 .. N - 1
  <2>1. PICK c \in starts : r \in Span(c, s.len)
    BY DEF CompareReads
  <2>2. c \in 0 .. N - s.len /\ r \in c .. c + s.len - 1
    BY <2>1 DEF Span
  <2> QED
    BY <2>2
<1> QED
  BY <1>1

LEMMA LiteralLanesFind ==
  ASSUME Going, Is({"literal"}), pos \in Nat, pos >= s.rare,
         NEW w \in Nat, pos + w <= LiteralEnd + 1,
         NEW starts, starts = Starts(LiteralLanes(s, Hay, pos, w))
  PROVE  /\ starts \in SUBSET (0 .. N - s.len)
         /\ \A c \in starts : c < pos + w - s.rare
         /\ \A q \in Hits : q >= pos - s.rare /\ q < pos + w - s.rare => q \in starts
         /\ LaneReads(pos, w) \cup CompareReads(starts) \in SUBSET (0 .. N - 1)
<1> AskInv /\ SearcherRuns
  BY DEF Going
<1>1. /\ N \in Nat /\ s.len \in Nat \ {0} /\ s.rare \in 0 .. s.len - 1 /\ s.confirm \in 0 .. s.len - 1
      /\ Hits \in SUBSET (0 .. N - s.len)
  BY LiteralGoing
<1>2. LiteralEnd = N - s.len + s.rare
  BY DEF LiteralEnd
<1>3. \A c \in starts : c \in 0 .. N - s.len /\ c < pos + w - s.rare
  <2> SUFFICES ASSUME NEW c \in starts
               PROVE  c \in 0 .. N - s.len /\ c < pos + w - s.rare
    OBVIOUS
  <2>1. PICK i \in 0 .. w - 1 : c = pos + i - s.rare
    BY DEF Starts, LiteralLanes
  <2> QED
    BY <1>1, <1>2, <2>1
<1>4. ASSUME NEW q \in Hits, q >= pos - s.rare, q < pos + w - s.rare
      PROVE  q \in starts
  <2> DEFINE i == q + s.rare - pos
  <2>1. q \in 0 .. N - s.len
    BY <1>1
  <2>2. /\ i \in 0 .. w - 1 /\ pos + i - s.rare = q /\ pos + i = q + s.rare
        /\ pos + i + s.confirm - s.rare = q + s.confirm
    BY <1>1, <1>4, <2>1
  <2>3. At(Hay, q + s.rare) = s.rareByte /\ At(Hay, q + s.confirm) = s.confirmByte
    BY <2>1, LiteralFacts
  <2> HIDE DEF i
  <2>4. i \in LiteralLanes(s, Hay, pos, w)
    BY <2>2, <2>3 DEF LiteralLanes
  <2> QED
    BY <2>2, <2>4 DEF Starts
<1>5. starts \in SUBSET (0 .. N - s.len)
  BY <1>3
<1>6. CompareReads(starts) \in SUBSET (0 .. N - 1)
  BY <1>1, <1>5, CompareInside
<1>7. LaneReads(pos, w) \subseteq 0 .. N - 1
  <2>1. /\ pos + w - 1 <= N - 1 /\ pos + s.confirm - s.rare \in Nat
        /\ pos + s.confirm - s.rare + w - 1 <= N - 1
    BY <1>1, <1>2
  <2> QED
    BY <1>1, <2>1 DEF LaneReads, Span
<1> QED
  BY <1>3, <1>4, <1>5, <1>6, <1>7

LEMMA GreedyWeaker ==
  ASSUME NEW acc, NEW b, Greedy(acc, b), NEW c, \A q \in Hits : q >= b => q >= c
  PROVE  Greedy(acc, c)
BY DEF Greedy

(* What the candidates of a step leave behind.                             *)
LEMMA HandleKeeps ==
  ASSUME Going, Is({"literal"}), pc = "chunks", NEW e \in Int,
         NEW starts \in SUBSET (0 .. N - s.len),
         \A c \in starts : c < e - s.rare,
         \A q \in Hits : q >= pos - s.rare /\ q < e - s.rare => q \in starts,
         NEW to \in {"chunks", "tail"}, NEW p, Handle(starts, to, p),
         ask.op = "all" \/ (\A h \in Hits : h >= e - s.rare) => LoopAt(to, p),
         \A acc : Greedy(acc, e - s.rare) => CollectAt(to, p, acc),
         reads' \in SUBSET (0 .. N - 1)
  PROVE  Kept(pc', pos', found', matches', reads')
<1> AskInv /\ SearcherRuns
  BY DEF Going
<1>1. /\ N \in Nat /\ s.len \in Nat \ {0} /\ s.rare \in 0 .. s.len - 1 /\ Onward
      /\ Hits \in SUBSET (0 .. N - s.len) /\ Hits \in SUBSET (0 .. N)
  BY LiteralGoing
<1>2. pos \in Nat /\ (ask.op # "all" => \A h \in Hits : h + s.rare >= pos)
  BY LoopCases DEF Going
<1>3. \A c \in 0 .. N - s.len : Verify(s, Hay, c) <=> c \in Hits
  BY LiteralFacts
<1> DEFINE d == e - s.rare
           b == pos - s.rare
           T == {q \in starts : Verify(s, Hay, q)}
<1>4. d \in Int /\ b \in Int
  BY <1>1, <1>2
<1>5. CASE ask.op = "all"
  <2>1. Greedy(matches, b)
    BY <1>5 DEF Going, CollectAt
  <2>2. starts \in SUBSET (0 .. N) /\ \A c \in starts : Verify(s, Hay, c) <=> c \in Hits
    <3>1. \A c \in starts : c \in 0 .. N - s.len
      OBVIOUS
    <3>2. \A c \in 0 .. N - s.len : c \in 0 .. N
      BY <1>1
    <3>3. starts \subseteq 0 .. N
      BY <3>1, <3>2
    <3> QED
      BY <1>3, <3>1, <3>3
  <2>3. (\A q \in Hits : q >= b /\ q < d => q \in starts) /\ \A c \in starts : c < d
    OBVIOUS
  <2> HIDE DEF b, d
  <2>4. Greedy(Collected(starts), d)
    BY <1>1, <1>4, <2>1, <2>2, <2>3, CollectedGreedy
  <2>5. pc' = to /\ pos' = p /\ matches' = Collected(starts)
    BY <1>5 DEF Handle, Collects, Go
  <2> QED
    BY <1>5, <2>4, <2>5 DEF Kept, d
<1>6. CASE ask.op # "all"
  <2>1. FirstOr(T, to, p)
    BY <1>6 DEF Handle, Collects
  <2>2. T = {h \in Hits : h < d}
    <3>1. ASSUME NEW q \in T
          PROVE  q \in Hits /\ q < d
      BY <1>3
    <3>2. ASSUME NEW q \in Hits, q < d
          PROVE  q \in T
      <4>1. q \in 0 .. N - s.len /\ q >= pos - s.rare
        BY <1>1, <1>2, <1>6
      <4> QED
        BY <1>3, <3>2, <4>1
    <3> QED
      BY <3>1, <3>2
  <2> HIDE DEF T, d
  <2>3. (\A h \in Hits : h >= d) => LoopAt(to, p)
    BY DEF d
  <2> QED
    BY <1>1, <1>4, <1>6, <2>1, <2>2, <2>3, FirstOrKeeps
<1> QED
  BY <1>5, <1>6

LEMMA CallLiteralKeeps ==
  ASSUME Going, CallLiteral
  PROVE  Kept(pc', pos', found', matches', reads')
<1>1. /\ pc = "call" /\ Is({"literal"}) /\ reads' = {} /\ matches' = matches
      /\ IF N < s.len THEN Return(None) ELSE pc' = "chunks" /\ pos' = s.rare
  BY DEF CallLiteral, Go
<1>2. /\ N \in Nat /\ s.len \in Nat \ {0} /\ s.rare \in 0 .. s.len - 1
      /\ Hits \in SUBSET (0 .. N - s.len)
  BY <1>1, LiteralGoing
<1>3. ask.op = "all" => matches = <<>>
  BY <1>1 DEF Going, CollectAt
<1>4. \A b \in Int : (\A q \in Hits : q >= b) => Greedy(<<>>, b)
  <2> SUFFICES ASSUME NEW b \in Int, \A q \in Hits : q >= b
               PROVE  Greedy(<<>>, b)
    OBVIOUS
  <2>1. <<>> \in Seq(Nat \X Nat) /\ Len(<<>>) = 0
    OBVIOUS
  <2> QED
    BY <2>1 DEF Greedy
<1>5. CASE N < s.len
  <2>1. Hits = {}
    <3>1. ASSUME NEW h \in Hits
          PROVE  FALSE
      <4>1. h \in 0 .. N - s.len
        BY <1>2
      <4> QED
        BY <1>2, <1>5, <4>1
    <3> QED
      BY <3>1
  <2>2. CollectAt("returned", pos', matches')
    BY <1>1, <1>2, <1>3, <1>4, <2>1 DEF CollectAt
  <2>3. Return(None)
    BY <1>1, <1>5
  <2> QED
    BY <1>1, <2>1, <2>2, <2>3, NoneKeeps
<1>6. CASE ~ (N < s.len)
  <2>1. pc' = "chunks" /\ pos' = s.rare
    BY <1>1, <1>6
  <2>2. \A h \in Hits : h >= 0 /\ h + s.rare >= s.rare
    BY <1>2
  <2>3. s.rare \in Nat /\ s.rare >= s.rare /\ N >= s.len /\ s.rare - s.rare = 0
    BY <1>2, <1>6
  <2>4. LoopAt("chunks", s.rare)
    BY <1>1, <2>2, <2>3, LoopCases
  <2>5. CollectAt("chunks", s.rare, matches')
    BY <1>1, <1>3, <1>4, <2>2, <2>3 DEF CollectAt
  <2> QED
    BY <1>1, <2>1, <2>4, <2>5 DEF Kept
<1> QED
  BY <1>5, <1>6

LEMMA LiteralLanesKeep ==
  ASSUME Going, pc = "chunks", Is({"literal"}), NEW w \in Nat, pos + w <= LiteralEnd + 1,
         NEW starts, starts = Starts(LiteralLanes(s, Hay, pos, w)),
         Handle(starts, "chunks", pos + w),
         reads' = LaneReads(pos, w) \cup CompareReads(starts)
  PROVE  Kept(pc', pos', found', matches', reads')
<1>1. /\ N \in Nat /\ s.len \in Nat \ {0} /\ s.rare \in 0 .. s.len - 1
      /\ Hits \in SUBSET (0 .. N - s.len)
  BY LiteralGoing
<1>2. pos \in Nat /\ pos >= s.rare /\ N >= s.len
  BY LoopCases DEF Going
<1>3. /\ starts \in SUBSET (0 .. N - s.len)
      /\ \A c \in starts : c < pos + w - s.rare
      /\ \A q \in Hits : q >= pos - s.rare /\ q < pos + w - s.rare => q \in starts
      /\ reads' \in SUBSET (0 .. N - 1)
  BY <1>2, LiteralLanesFind
<1> DEFINE e == pos + w
<1>4. e \in Int /\ e \in Nat /\ e >= s.rare
  BY <1>1, <1>2
<1> HIDE DEF e
<1>5. ask.op = "all" \/ (\A h \in Hits : h >= e - s.rare) => LoopAt("chunks", e)
  <2>1. (\A h \in Hits : h >= e - s.rare) => \A h \in Hits : h + s.rare >= e
    BY <1>1, <1>4
  <2> QED
    BY <1>2, <1>4, <2>1, LoopCases
<1>6. \A acc : Greedy(acc, e - s.rare) => CollectAt("chunks", e, acc)
  BY DEF CollectAt
<1>7. "chunks" \in {"chunks", "tail"} /\ Handle(starts, "chunks", e)
  BY DEF e
<1>8. /\ \A c \in starts : c < e - s.rare
      /\ \A q \in Hits : q >= pos - s.rare /\ q < e - s.rare => q \in starts
  <2>1. pos + w - s.rare = e - s.rare
    BY <1>1, <1>2 DEF e
  <2> QED
    BY <1>3, <2>1
<1> QED
  BY <1>3, <1>4, <1>5, <1>6, <1>7, <1>8, HandleKeeps

LEMMA LiteralPairKeeps ==
  ASSUME Going, LiteralPair
  PROVE  Kept(pc', pos', found', matches', reads')
<1> DEFINE w == 2 * Lanes
           starts == Starts(LiteralLanes(s, Hay, pos, w))
<1>1. /\ pc = "chunks" /\ Is({"literal"}) /\ pos + w <= LiteralEnd + 1
      /\ Handle(starts, "chunks", pos + w) /\ reads' = LaneReads(pos, w) \cup CompareReads(starts)
  BY DEF LiteralPair, Pairs
<1>2. w \in Nat
  BY LanesNat
<1> HIDE DEF w
<1>3. starts = Starts(LiteralLanes(s, Hay, pos, w))
  OBVIOUS
<1> HIDE DEF starts
<1> QED
  BY <1>1, <1>2, <1>3, LiteralLanesKeep

LEMMA LiteralChunkKeeps ==
  ASSUME Going, LiteralChunk
  PROVE  Kept(pc', pos', found', matches', reads')
<1> DEFINE w == Lanes
           starts == Starts(LiteralLanes(s, Hay, pos, w))
<1>1. /\ pc = "chunks" /\ Is({"literal"}) /\ pos + w <= LiteralEnd + 1
      /\ Handle(starts, "chunks", pos + w) /\ reads' = LaneReads(pos, w) \cup CompareReads(starts)
  BY DEF LiteralChunk
<1>2. w \in Nat
  BY LanesNat
<1> HIDE DEF w
<1>3. starts = Starts(LiteralLanes(s, Hay, pos, w))
  OBVIOUS
<1> HIDE DEF starts
<1> QED
  BY <1>1, <1>2, <1>3, LiteralLanesKeep

LEMMA LiteralRestKeeps ==
  ASSUME Going, LiteralRest
  PROVE  Kept(pc', pos', found', matches', reads')
<1> AskInv /\ SearcherRuns
  BY DEF Going
<1> DEFINE starts == {p - s.rare : p \in RareInRest}
           e == LiteralEnd + 1
<1>1. /\ pc = "chunks" /\ Is({"literal"})
      /\ Handle(starts, "tail", pos) /\ reads' = (pos .. LiteralEnd) \cup CompareReads(starts)
  BY DEF LiteralRest
<1>2. /\ N \in Nat /\ s.len \in Nat \ {0} /\ s.rare \in 0 .. s.len - 1 /\ s.confirm \in 0 .. s.len - 1
      /\ Hits \in SUBSET (0 .. N - s.len)
  BY <1>1, LiteralGoing
<1>3. pos \in Nat /\ pos >= s.rare
  BY <1>1, LoopCases DEF Going
<1>4. LiteralEnd = N - s.len + s.rare /\ e \in Int /\ e - s.rare = N - s.len + 1
  BY <1>2 DEF LiteralEnd
<1>5. \A c \in starts : c \in 0 .. N - s.len /\ c < e - s.rare
  <2> SUFFICES ASSUME NEW c \in starts
               PROVE  c \in 0 .. N - s.len /\ c < e - s.rare
    OBVIOUS
  <2>1. PICK p \in pos .. LiteralEnd : c = p - s.rare
    BY DEF RareInRest
  <2> HIDE DEF e, starts
  <2> QED
    BY <1>2, <1>3, <1>4, <2>1
<1>6. ASSUME NEW q \in Hits, q >= pos - s.rare, q < e - s.rare
      PROVE  q \in starts
  <2> DEFINE p == q + s.rare
  <2>1. q \in 0 .. N - s.len
    BY <1>2
  <2>2. p \in pos .. LiteralEnd /\ p - s.rare = q /\ p + s.confirm - s.rare = q + s.confirm
    BY <1>2, <1>3, <1>4, <1>6, <2>1
  <2>3. At(Hay, q + s.rare) = s.rareByte /\ At(Hay, q + s.confirm) = s.confirmByte
    BY <1>1, <2>1, LiteralFacts
  <2>4. At(Hay, p) = s.rareByte /\ At(Hay, p + s.confirm - s.rare) = s.confirmByte
    BY <2>2, <2>3
  <2> HIDE DEF p
  <2>5. p \in RareInRest
    BY <2>2, <2>4 DEF RareInRest
  <2> QED
    BY <2>2, <2>5
<1> HIDE DEF e, starts
<1>7. starts \in SUBSET (0 .. N - s.len)
  BY <1>5
<1>8. reads' \in SUBSET (0 .. N - 1)
  <2>1. CompareReads(starts) \in SUBSET (0 .. N - 1)
    BY <1>2, <1>7, CompareInside
  <2>2. pos .. LiteralEnd \subseteq 0 .. N - 1
    BY <1>2, <1>3, <1>4
  <2> QED
    BY <1>1, <2>1, <2>2
<1>9. \A h \in Hits : h < e - s.rare
  BY <1>2, <1>4
<1>10. ask.op = "all" \/ (\A h \in Hits : h >= e - s.rare) => LoopAt("tail", pos)
  <2>1. (\A h \in Hits : h >= e - s.rare) => Hits = {}
    <3>1. \A h \in Hits : h \in Int /\ e - s.rare \in Int
      BY <1>2, <1>4
    <3>2. \A h \in Hits : ~ (h >= e - s.rare)
      BY <1>9, <3>1
    <3> QED
      BY <3>2
  <2> QED
    BY <1>1, <2>1, LoopCases
<1>11. \A acc : Greedy(acc, e - s.rare) => CollectAt("tail", pos, acc)
  <2> SUFFICES ASSUME NEW acc, Greedy(acc, e - s.rare)
               PROVE  Greedy(acc, N + 1)
    BY DEF CollectAt
  <2>1. \A q \in Hits : q >= e - s.rare => q >= N + 1
    BY <1>2, <1>4, <1>9
  <2> QED
    BY <2>1, GreedyWeaker
<1>12. "tail" \in {"chunks", "tail"}
  OBVIOUS
<1> QED
  BY <1>1, <1>4, <1>5, <1>6, <1>7, <1>8, <1>10, <1>11, <1>12, HandleKeeps

LEMMA LiteralDoneKeeps ==
  ASSUME Going, LiteralDone
  PROVE  Kept(pc', pos', found', matches', reads')
<1>1. pc = "tail" /\ Is({"literal"}) /\ Return(None) /\ reads' = {} /\ matches' = matches
  BY DEF LiteralDone
<1>2. ask.op # "all" => Hits = {}
  BY <1>1, LoopCases DEF Going
<1>3. CollectAt("returned", pos', matches')
  BY <1>1 DEF Going, CollectAt
<1> QED
  BY <1>1, <1>2, <1>3, NoneKeeps

-----------------------------------------------------------------------------
(* The reverse searches, from RevEnd down.                                 *)
LEMMA RevGoing ==
  ASSUME Going, Is({"revliteral", "revteddy"})
  PROVE  /\ N \in Nat \ {0} /\ N \in Nat /\ RevEnd \in Int /\ RevEnd <= N - 1
         /\ s.len \in Nat \ {0} /\ Lanes \in Nat \ {0}
         /\ ~ Onward /\ ask.op # "all" /\ Hits \in SUBSET (0 .. N)
         /\ \A h \in Hits : h \in s.len - 1 .. RevEnd
         /\ Hits = {p \in s.len - 1 .. RevEnd : RowEndsAt(Hay, RevRow, p)}
<1> AskInv /\ SearcherRuns
  BY DEF Going
<1>1. /\ RevRuns
      /\ s.len \in Nat \ {0} /\ N \in Nat \ {0} /\ RevEnd \in Int /\ RevEnd <= N - 1
      /\ Hits = {p \in s.len - 1 .. RevEnd : RowEndsAt(Hay, RevRow, p)}
  BY RevFacts
<1>2. ~ Onward /\ ask.op # "all"
  BY <1>1 DEF RevRuns, Onward, Reverse
<1>3. \A h \in Hits : h \in s.len - 1 .. RevEnd
  BY <1>1
<1>4. \A h \in s.len - 1 .. RevEnd : h \in 0 .. N
  BY <1>1
<1>5. Hits \subseteq 0 .. N
  BY <1>3, <1>4
<1> QED
  BY <1>1, <1>2, <1>3, <1>5, LanesNat

LEMMA CallTooEarlyKeeps ==
  ASSUME Going, CallTooEarly
  PROVE  Kept(pc', pos', found', matches', reads')
<1>1. Is({"revliteral", "revteddy"}) /\ RevEnd < 0 /\ Return(None) /\ reads' = {}
  BY DEF CallTooEarly
<1>2. /\ s.len \in Nat \ {0} /\ RevEnd \in Int /\ ask.op # "all"
      /\ \A h \in Hits : h \in s.len - 1 .. RevEnd
  BY <1>1, RevGoing
<1>3. Hits = {}
  BY <1>1, <1>2
<1>4. CollectAt("returned", pos', matches')
  BY <1>2 DEF CollectAt
<1> QED
  BY <1>1, <1>3, <1>4, NoneKeeps

LEMMA CallRevLiteralKeeps ==
  ASSUME Going, CallRevLiteral
  PROVE  Kept(pc', pos', found', matches', reads')
<1> DEFINE p == RevEnd - (s.len - 1) + s.rare
<1>1. /\ Is({"revliteral"}) /\ Is({"revliteral", "revteddy"}) /\ reads' = {}
      /\ IF RevEnd + 1 < s.len THEN Return(None) ELSE pc' = "chunks" /\ pos' = p
  BY DEF CallRevLiteral, Go, Is
<1>2. /\ s.len \in Nat \ {0} /\ RevEnd \in Int /\ ask.op # "all"
      /\ \A h \in Hits : h \in s.len - 1 .. RevEnd
  BY <1>1, RevGoing
<1>3. s.rare \in 0 .. s.len - 1
  BY <1>1, RevLiteralFacts DEF Going
<1>4. \A x, acc : CollectAt(x, p, acc) /\ CollectAt(x, pos', acc)
  BY <1>2 DEF CollectAt
<1>5. CASE RevEnd + 1 < s.len
  <2>1. Hits = {}
    BY <1>2, <1>5
  <2>2. Return(None)
    BY <1>1, <1>5
  <2> QED
    BY <1>1, <1>4, <2>1, <2>2, NoneKeeps
<1>6. CASE ~ (RevEnd + 1 < s.len)
  <2>1. pc' = "chunks" /\ pos' = p
    BY <1>1, <1>6
  <2>2. p \in Int /\ p <= RevEnd - (s.len - 1) + s.rare /\ \A h \in Hits : h - (s.len - 1) + s.rare <= p
    BY <1>2, <1>3
  <2> HIDE DEF p
  <2>3. LoopAt("chunks", p)
    BY <1>1, <2>2, LoopCases
  <2> QED
    BY <1>1, <1>4, <2>1, <2>3 DEF Kept
<1> QED
  BY <1>5, <1>6

LEMMA EndsAre ==
  ASSUME Going, Is({"revliteral"}), NEW e \in Int, NEW starts \in SUBSET (0 .. N - s.len),
         \A c \in starts : e <= c + (s.len - 1) /\ c + (s.len - 1) <= RevEnd,
         \A h \in Hits : h >= e => h - (s.len - 1) \in starts
  PROVE  /\ Ends(starts) = {h \in Hits : h >= e}
         /\ CompareReads(starts) \in SUBSET (0 .. N - 1)
<1> Is({"revliteral", "revteddy"}) /\ AskInv /\ SearcherRuns
  BY DEF Going, Is
<1>1. /\ N \in Nat /\ s.len \in Nat \ {0} /\ RevEnd \in Int /\ RevEnd <= N - 1
      /\ \A h \in Hits : h \in s.len - 1 .. RevEnd
      /\ Hits = {p \in s.len - 1 .. RevEnd : RowEndsAt(Hay, RevRow, p)}
  BY RevGoing
<1>2. \A p \in 0 .. N - s.len : Verify(s, Hay, p) <=> RowEndsAt(Hay, RevRow, p + s.len - 1)
  BY RevLiteralFacts
<1>3. ASSUME NEW h \in Ends(starts)
      PROVE  h \in Hits /\ h >= e
  <2>1. PICK c \in starts : Verify(s, Hay, c) /\ h = c + s.len - 1
    BY DEF Ends
  <2>2. c \in 0 .. N - s.len
    OBVIOUS
  <2>3. h = c + (s.len - 1) /\ h \in s.len - 1 .. RevEnd /\ h >= e
    BY <1>1, <2>1, <2>2
  <2> QED
    BY <1>1, <1>2, <2>1, <2>2, <2>3
<1>4. ASSUME NEW h \in Hits, h >= e
      PROVE  h \in Ends(starts)
  <2> DEFINE c == h - (s.len - 1)
  <2>1. c \in starts /\ c \in 0 .. N - s.len
    BY <1>4
  <2>2. h = c + s.len - 1
    BY <1>1
  <2> HIDE DEF c
  <2>3. Verify(s, Hay, c)
    BY <1>1, <1>2, <2>1, <2>2
  <2> QED
    BY <2>1, <2>2, <2>3 DEF Ends
<1> QED
  BY <1>1, <1>3, <1>4, CompareInside

LEMMA RevLiteralChunkKeeps ==
  ASSUME Going, RevLiteralChunk
  PROVE  Kept(pc', pos', found', matches', reads')
<1> AskInv /\ SearcherRuns
  BY DEF Going
<1> DEFINE T == Ends(RevLiteralStarts)
           p == pos - Lanes
           e == RevBase - s.rare + (s.len - 1)
<1>1. /\ pc = "chunks" /\ Is({"revliteral"}) /\ Is({"revliteral", "revteddy"}) /\ pos >= s.rare + Lanes
      /\ LastOr(T, "chunks", p)
      /\ reads' = LaneReads(RevBase, Lanes) \cup CompareReads(RevLiteralStarts)
  BY DEF RevLiteralChunk, Is
<1>2. /\ N \in Nat /\ s.len \in Nat \ {0} /\ Lanes \in Nat \ {0} /\ RevEnd \in Int /\ RevEnd <= N - 1
      /\ ~ Onward /\ ask.op # "all" /\ Hits \in SUBSET (0 .. N)
      /\ \A h \in Hits : h \in s.len - 1 .. RevEnd
      /\ Hits = {h \in s.len - 1 .. RevEnd : RowEndsAt(Hay, RevRow, h)}
  BY <1>1, RevGoing
<1>3. s.rare \in 0 .. s.len - 1 /\ s.confirm \in 0 .. s.len - 1
  BY <1>1, RevLiteralFacts
<1>4. pos \in Int /\ pos <= RevEnd - (s.len - 1) + s.rare /\ \A h \in Hits : h - (s.len - 1) + s.rare <= pos
  BY <1>1, LoopCases DEF Going
<1>5. RevBase = pos - (Lanes - 1) /\ RevBase \in Int /\ e \in Int
  BY <1>2, <1>3, <1>4 DEF RevBase
<1> DEFINE starts == RevLiteralStarts
<1>6. \A c \in starts : c \in 0 .. N - s.len /\ e <= c + (s.len - 1) /\ c + (s.len - 1) <= RevEnd
  <2> SUFFICES ASSUME NEW c \in starts
               PROVE  c \in 0 .. N - s.len /\ e <= c + (s.len - 1) /\ c + (s.len - 1) <= RevEnd
    OBVIOUS
  <2>1. PICK i \in 0 .. Lanes - 1 : c = RevBase + i - s.rare
    BY DEF RevLiteralStarts, LiteralLanes
  <2> HIDE DEF starts
  <2> QED
    BY <1>1, <1>2, <1>3, <1>4, <1>5, <2>1
<1>7. ASSUME NEW h \in Hits, h >= e
      PROVE  h - (s.len - 1) \in starts
  <2> DEFINE c == h - (s.len - 1)
             i == c + s.rare - RevBase
  <2>1. h \in s.len - 1 .. RevEnd /\ RowEndsAt(Hay, RevRow, h)
    BY <1>2
  <2>2. /\ c \in 0 .. N - s.len /\ c + s.len - 1 = h
        /\ i \in 0 .. Lanes - 1 /\ RevBase + i - s.rare = c /\ RevBase + i = c + s.rare
        /\ RevBase + i + s.confirm - s.rare = c + s.confirm
    BY <1>1, <1>2, <1>3, <1>4, <1>5, <1>7, <2>1
  <2>3. At(Hay, c + s.rare) = s.rareByte /\ At(Hay, c + s.confirm) = s.confirmByte
    BY <1>1, <2>1, <2>2, RevLiteralFacts
  <2> HIDE DEF c, i
  <2>4. i \in LiteralLanes(s, Hay, RevBase, Lanes)
    BY <2>2, <2>3 DEF LiteralLanes
  <2>5. c \in starts
    BY <2>2, <2>4 DEF RevLiteralStarts
  <2> QED
    BY <2>5 DEF c
<1>8. LaneReads(RevBase, Lanes) \in SUBSET (0 .. N - 1)
  <2>1. /\ RevBase \in Nat /\ RevBase + Lanes - 1 <= N - 1 /\ RevBase + s.confirm - s.rare \in Nat
        /\ RevBase + s.confirm - s.rare + Lanes - 1 <= N - 1
    BY <1>1, <1>2, <1>3, <1>4, <1>5
  <2> QED
    BY <1>2, <1>3, <1>5, <2>1 DEF LaneReads, Span
<1> HIDE DEF starts, e
<1>9. starts \in SUBSET (0 .. N - s.len)
  BY <1>6
<1>10. Ends(starts) = {h \in Hits : h >= e} /\ CompareReads(starts) \in SUBSET (0 .. N - 1)
  BY <1>1, <1>5, <1>6, <1>7, <1>9, EndsAre
<1>11. T = {h \in Hits : h >= e} /\ reads' \in SUBSET (0 .. N - 1)
  BY <1>1, <1>8, <1>10 DEF starts
<1>12. (\A h \in Hits : h < e) => LoopAt("chunks", p)
  <2>1. p \in Int /\ p <= RevEnd - (s.len - 1) + s.rare
    BY <1>2, <1>3, <1>4
  <2>2. (\A h \in Hits : h < e) => \A h \in Hits : h - (s.len - 1) + s.rare <= p
    BY <1>2, <1>3, <1>4, <1>5 DEF e
  <2> HIDE DEF p
  <2> QED
    BY <1>1, <2>1, <2>2, LoopCases
<1>13. "chunks" \in {"chunks", "tail"}
  OBVIOUS
<1> HIDE DEF T, p
<1> QED
  BY <1>1, <1>2, <1>5, <1>11, <1>12, <1>13, LastOrKeeps

LEMMA RevLiteralRestKeeps ==
  ASSUME Going, RevLiteralRest
  PROVE  Kept(pc', pos', found', matches', reads')
<1> AskInv /\ SearcherRuns
  BY DEF Going
<1> DEFINE starts == RevRestStarts
           T == Ends(starts)
<1>1. /\ pc = "chunks" /\ Is({"revliteral"}) /\ Is({"revliteral", "revteddy"})
      /\ Return(Last(T)) /\ reads' = (s.rare .. pos) \cup CompareReads(starts)
  BY DEF RevLiteralRest, Is
<1>2. /\ N \in Nat /\ s.len \in Nat \ {0} /\ RevEnd \in Int /\ RevEnd <= N - 1
      /\ ~ Onward /\ ask.op # "all" /\ Hits \in SUBSET (0 .. N)
      /\ \A h \in Hits : h \in s.len - 1 .. RevEnd
      /\ Hits = {h \in s.len - 1 .. RevEnd : RowEndsAt(Hay, RevRow, h)}
  BY <1>1, RevGoing
<1>3. s.rare \in 0 .. s.len - 1 /\ s.confirm \in 0 .. s.len - 1
  BY <1>1, RevLiteralFacts
<1>4. pos \in Int /\ pos <= RevEnd - (s.len - 1) + s.rare /\ \A h \in Hits : h - (s.len - 1) + s.rare <= pos
  BY <1>1, LoopCases DEF Going
<1>5. 0 \in Int /\ \A h \in Hits : h >= 0
  BY <1>2
<1>6. \A c \in starts : c \in 0 .. N - s.len /\ 0 <= c + (s.len - 1) /\ c + (s.len - 1) <= RevEnd
  <2> SUFFICES ASSUME NEW c \in starts
               PROVE  c \in 0 .. N - s.len /\ 0 <= c + (s.len - 1) /\ c + (s.len - 1) <= RevEnd
    OBVIOUS
  <2>1. PICK q \in s.rare .. pos : c = q - s.rare
    BY DEF RevRestStarts
  <2> HIDE DEF starts
  <2> QED
    BY <1>2, <1>3, <1>4, <2>1
<1>7. ASSUME NEW h \in Hits
      PROVE  h - (s.len - 1) \in starts
  <2> DEFINE c == h - (s.len - 1)
             q == c + s.rare
  <2>1. h \in s.len - 1 .. RevEnd /\ RowEndsAt(Hay, RevRow, h)
    BY <1>2
  <2>2. /\ c \in 0 .. N - s.len /\ c + s.len - 1 = h
        /\ q \in s.rare .. pos /\ q - s.rare = c /\ q - s.rare + s.confirm = c + s.confirm
    BY <1>2, <1>3, <1>4, <2>1
  <2>3. At(Hay, c + s.rare) = s.rareByte /\ At(Hay, c + s.confirm) = s.confirmByte
    BY <1>1, <2>1, <2>2, RevLiteralFacts
  <2>4. At(Hay, q) = s.rareByte /\ At(Hay, q - s.rare + s.confirm) = s.confirmByte
    BY <2>2, <2>3
  <2> HIDE DEF c, q
  <2>5. c \in starts
    BY <2>2, <2>4 DEF RevRestStarts
  <2> QED
    BY <2>5 DEF c
<1>8. s.rare .. pos \subseteq 0 .. N - 1
  BY <1>2, <1>3, <1>4
<1> HIDE DEF starts
<1>9. starts \in SUBSET (0 .. N - s.len)
  BY <1>6
<1>10. Ends(starts) = {h \in Hits : h >= 0} /\ CompareReads(starts) \in SUBSET (0 .. N - 1)
  BY <1>1, <1>5, <1>6, <1>7, <1>9, EndsAre
<1>11. T = Hits /\ reads' \in SUBSET (0 .. N - 1)
  BY <1>1, <1>5, <1>8, <1>10
<1> HIDE DEF T
<1> QED
  BY <1>1, <1>2, <1>11, ReturnLastKeeps

-----------------------------------------------------------------------------
(* The candidates of a reverse Teddy: a place is where its row ends.       *)
LEMMA VerifiedRevAre ==
  ASSUME Going, Is({"revteddy"}), NEW e \in Int,
         NEW cands \in SUBSET (0 .. RevEnd), \A c \in cands : c >= e,
         \A h \in Hits : h >= e => h \in cands
  PROVE  /\ VerifiedRev(cands) = {h \in Hits : h >= e}
         /\ RevRowReads(cands) \in SUBSET (0 .. N - 1)
<1> Is({"revliteral", "revteddy"}) /\ AskInv /\ SearcherRuns
  BY DEF Going, Is
<1>1. /\ N \in Nat /\ s.len \in Nat \ {0} /\ RevEnd \in Int /\ RevEnd <= N - 1
      /\ \A h \in Hits : h \in s.len - 1 .. RevEnd
      /\ Hits = {p \in s.len - 1 .. RevEnd : RowEndsAt(Hay, RevRow, p)}
  BY RevGoing
<1>2. /\ \A p \in Nat : p < s.len - 1 => ~ VerifyRev(s, Hay, p)
      /\ \A p \in s.len - 1 .. N - 1 : VerifyRev(s, Hay, p) <=> RowEndsAt(Hay, RevRow, p)
  BY RevTeddyFacts
<1>3. \A c \in cands : c \in 0 .. RevEnd /\ c \in Nat
  OBVIOUS
<1>4. ASSUME NEW h \in VerifiedRev(cands)
      PROVE  h \in Hits /\ h >= e
  <2>1. h \in cands /\ VerifyRev(s, Hay, h)
    BY DEF VerifiedRev
  <2>2. h \in s.len - 1 .. RevEnd /\ h \in s.len - 1 .. N - 1
    BY <1>1, <1>2, <1>3, <2>1
  <2> QED
    BY <1>1, <1>2, <2>1, <2>2
<1>5. ASSUME NEW h \in Hits, h >= e
      PROVE  h \in VerifiedRev(cands)
  <2>1. h \in cands /\ h \in s.len - 1 .. N - 1 /\ RowEndsAt(Hay, RevRow, h)
    BY <1>1, <1>5
  <2> QED
    BY <1>2, <2>1 DEF VerifiedRev
<1>6. ASSUME NEW r \in RevRowReads(cands)
      PROVE  r \in 0 .. N - 1
  <2>1. PICK p \in cands : p >= MinPos /\ r \in Span(p - MinPos, s.len)
    BY DEF RevRowReads
  <2>2. p \in 0 .. RevEnd /\ MinPos = s.len - 1 /\ r \in p - MinPos .. p - MinPos + s.len - 1
    BY <1>3, <2>1 DEF Span, MinPos
  <2> QED
    BY <1>1, <2>1, <2>2
<1> QED
  BY <1>4, <1>5, <1>6

LEMMA RevCandsFind ==
  ASSUME Going, Is({"revteddy"}), NEW p \in Nat, p >= MinPos, p + Lanes - 1 <= RevEnd
  PROVE  /\ \A c \in RevCands(p) : c \in 0 .. RevEnd /\ p <= c /\ c < p + Lanes
         /\ \A h \in Hits : p <= h /\ h < p + Lanes => h \in RevCands(p)
         /\ UNION {Span(p - (m - 1), Lanes) : m \in DOMAIN s.masks} \in SUBSET (0 .. N - 1)
<1> Is({"revliteral", "revteddy"}) /\ AskInv /\ SearcherRuns
  BY DEF Going, Is
<1>1. /\ N \in Nat /\ s.len \in Nat \ {0} /\ RevEnd \in Int /\ RevEnd <= N - 1 /\ Lanes \in Nat \ {0}
      /\ \A h \in Hits : h \in s.len - 1 .. RevEnd
      /\ Hits = {q \in s.len - 1 .. RevEnd : RowEndsAt(Hay, RevRow, q)}
  BY RevGoing
<1>2. /\ DOMAIN s.masks = 1 .. NumSimd(s.len) /\ NumSimd(s.len) \in 1 .. s.len
      /\ \A q \in s.len - 1 .. N - 1 :
            RowEndsAt(Hay, RevRow, q) => \A m \in DOMAIN s.masks : Passes(s.masks[m], At(Hay, q - (m - 1)))
  BY RevTeddyFacts
<1>3. ASSUME NEW c \in RevCands(p)
      PROVE  c \in 0 .. RevEnd /\ p <= c /\ c < p + Lanes
  <2>1. PICK i \in 0 .. Lanes - 1 : c = p + i
    BY DEF RevCands, FilterRev
  <2> QED
    BY <1>1, <2>1
<1>4. ASSUME NEW h \in Hits, p <= h, h < p + Lanes
      PROVE  h \in RevCands(p)
  <2>1. h \in s.len - 1 .. RevEnd /\ h \in s.len - 1 .. N - 1 /\ RowEndsAt(Hay, RevRow, h)
    BY <1>1
  <2>2. h - p \in 0 .. Lanes - 1 /\ p + (h - p) = h
    BY <1>1, <1>4, <2>1
  <2> DEFINE i == h - p
  <2>3. \A m \in DOMAIN s.masks : Passes(s.masks[m], At(Hay, p + i - (m - 1)))
    <3> SUFFICES ASSUME NEW m \in DOMAIN s.masks
                 PROVE  Passes(s.masks[m], At(Hay, p + i - (m - 1)))
      OBVIOUS
    <3>1. m \in Nat
      BY <1>2
    <3>2. p + i - (m - 1) = h - (m - 1)
      BY <1>1, <2>1, <3>1
    <3> QED
      BY <1>2, <2>1, <3>2
  <2> HIDE DEF i
  <2>4. i \in FilterRev(s, Hay, p)
    BY <2>2, <2>3 DEF FilterRev, i
  <2> QED
    BY <2>2, <2>4 DEF RevCands, i
<1>5. ASSUME NEW m \in DOMAIN s.masks, NEW r \in Span(p - (m - 1), Lanes)
      PROVE  r \in 0 .. N - 1
  <2>1. m \in 1 .. s.len /\ MinPos = s.len - 1 /\ r \in p - (m - 1) .. p - (m - 1) + Lanes - 1
    BY <1>1, <1>2 DEF Span, MinPos
  <2> QED
    BY <1>1, <2>1
<1> QED
  BY <1>3, <1>4, <1>5

LEMMA CallRevTeddyKeeps ==
  ASSUME Going, CallRevTeddy
  PROVE  Kept(pc', pos', found', matches', reads')
<1> DEFINE p == RevEnd - (Lanes - 1)
<1>1. /\ Is({"revteddy"}) /\ Is({"revliteral", "revteddy"}) /\ reads' = {}
      /\ IF RevEnd < Lanes - 1 + MinPos THEN pc' = "tail" /\ pos' = RevEnd ELSE pc' = "chunks" /\ pos' = p
  BY DEF CallRevTeddy, Go, Is
<1>2. /\ s.len \in Nat \ {0} /\ RevEnd \in Int /\ ask.op # "all" /\ Lanes \in Nat \ {0}
      /\ \A h \in Hits : h \in s.len - 1 .. RevEnd
  BY <1>1, RevGoing
<1>3. \A x, y, acc : CollectAt(x, y, acc)
  BY <1>2 DEF CollectAt
<1>4. MinPos = s.len - 1
  BY DEF MinPos
<1>5. CASE RevEnd < Lanes - 1 + MinPos
  <2>1. RevEnd \in Int /\ RevEnd <= RevEnd /\ \A h \in Hits : h <= RevEnd
    BY <1>2
  <2>2. LoopAt("tail", RevEnd)
    BY <1>1, <2>1, LoopCases
  <2> QED
    BY <1>1, <1>3, <1>5, <2>2 DEF Kept
<1>6. CASE ~ (RevEnd < Lanes - 1 + MinPos)
  <2>1. p \in Nat /\ p >= MinPos /\ p + Lanes - 1 <= RevEnd /\ \A h \in Hits : h <= p + Lanes - 1
    BY <1>2, <1>4, <1>6
  <2> HIDE DEF p
  <2>2. LoopAt("chunks", p)
    BY <1>1, <2>1, LoopCases
  <2>3. pc' = "chunks" /\ pos' = p
    BY <1>1, <1>6
  <2> QED
    BY <1>1, <1>3, <2>2, <2>3 DEF Kept
<1> QED
  BY <1>5, <1>6

LEMMA RevTeddyReadsAre ==
  ASSUME NEW p, NEW cands, RevCands(p) \subseteq cands,
         UNION {Span(p - (m - 1), Lanes) : m \in DOMAIN s.masks} \in SUBSET (0 .. N - 1),
         RevRowReads(cands) \in SUBSET (0 .. N - 1)
  PROVE  RevTeddyReads(p) \in SUBSET (0 .. N - 1)
<1> DEFINE U == UNION {Span(p - (m - 1), Lanes) : m \in DOMAIN s.masks}
           A == RevCands(p)
<1>1. RevTeddyReads(p) = U \cup RevRowReads(A)
  BY DEF RevTeddyReads
<1>2. U \in SUBSET (0 .. N - 1) /\ A \subseteq cands
  OBVIOUS
<1> HIDE DEF U, A
<1>3. RevRowReads(A) \subseteq RevRowReads(cands)
  BY <1>2 DEF RevRowReads
<1> QED
  BY <1>1, <1>2, <1>3

LEMMA RevTeddyPairKeeps ==
  ASSUME Going, RevTeddyPair
  PROVE  Kept(pc', pos', found', matches', reads')
<1> DEFINE e == pos - Lanes
           p == pos - 2 * Lanes
           A == RevCands(pos)
           B == RevCands(pos - Lanes)
           T == VerifiedRev(A \cup B)
<1>1. /\ Is({"revteddy"}) /\ Is({"revliteral", "revteddy"}) /\ pc = "chunks" /\ pos >= 2 * Lanes + MinPos
      /\ LastOr(T, "chunks", p) /\ reads' = RevTeddyReads(pos) \cup RevTeddyReads(pos - Lanes)
  BY DEF RevTeddyPair, RevPairs, Is
<1>2. /\ N \in Nat /\ RevEnd \in Int /\ s.len \in Nat \ {0} /\ Lanes \in Nat \ {0}
      /\ ~ Onward /\ ask.op # "all" /\ Hits \in SUBSET (0 .. N)
      /\ \A h \in Hits : h \in s.len - 1 .. RevEnd
  BY <1>1, RevGoing
<1>3. pos \in Nat /\ pos >= MinPos /\ pos + Lanes - 1 <= RevEnd /\ \A h \in Hits : h <= pos + Lanes - 1
  BY <1>1, LoopCases DEF Going
<1>4. MinPos = s.len - 1
  BY DEF MinPos
<1>5. /\ e \in Nat /\ e \in Int /\ e >= MinPos /\ e + Lanes - 1 <= RevEnd /\ e + Lanes = pos
      /\ p \in Nat /\ p >= MinPos /\ p + Lanes - 1 <= RevEnd
  BY <1>1, <1>2, <1>3, <1>4
<1>6. /\ \A c \in A : c \in 0 .. RevEnd /\ pos <= c /\ c < pos + Lanes
      /\ \A h \in Hits : pos <= h /\ h < pos + Lanes => h \in A
      /\ UNION {Span(pos - (m - 1), Lanes) : m \in DOMAIN s.masks} \in SUBSET (0 .. N - 1)
  BY <1>1, <1>3, RevCandsFind
<1>7. /\ \A c \in B : c \in 0 .. RevEnd /\ e <= c /\ c < e + Lanes
      /\ \A h \in Hits : e <= h /\ h < e + Lanes => h \in B
      /\ UNION {Span(pos - Lanes - (m - 1), Lanes) : m \in DOMAIN s.masks} \in SUBSET (0 .. N - 1)
  BY <1>1, <1>5, RevCandsFind
<1>8. \A c \in A \cup B : c \in 0 .. RevEnd /\ c >= e
  BY <1>2, <1>5, <1>6, <1>7
<1>9. \A h \in Hits : h >= e => h \in A \cup B
  <2>1. ASSUME NEW h \in Hits, h >= e
        PROVE  h \in A \cup B
    <3>1. h \in Nat /\ e <= h /\ h < pos + Lanes
      BY <1>2, <1>3, <2>1
    <3>2. CASE h < pos
      BY <1>5, <1>7, <3>1, <3>2
    <3>3. CASE ~ (h < pos)
      <4>1. pos <= h
        BY <1>3, <3>1, <3>3
      <4> QED
        BY <1>6, <3>1, <4>1
    <3> QED
      BY <3>2, <3>3
  <2> QED
    BY <2>1
<1> HIDE DEF e
<1>10. A \cup B \in SUBSET (0 .. RevEnd)
  <2> HIDE DEF A, B
  <2> QED
    BY <1>8
<1>11. T = {h \in Hits : h >= e} /\ RevRowReads(A \cup B) \in SUBSET (0 .. N - 1)
  <2> HIDE DEF A, B
  <2> QED
    BY <1>1, <1>5, <1>8, <1>9, <1>10, VerifiedRevAre
<1>12. reads' \in SUBSET (0 .. N - 1)
  <2>1. RevTeddyReads(pos) \in SUBSET (0 .. N - 1)
    <3>1. RevCands(pos) \subseteq A \cup B
      OBVIOUS
    <3> QED
      BY <1>6, <1>11, <3>1, RevTeddyReadsAre
  <2>2. RevTeddyReads(pos - Lanes) \in SUBSET (0 .. N - 1)
    <3>1. RevCands(pos - Lanes) \subseteq A \cup B
      OBVIOUS
    <3> QED
      BY <1>7, <1>11, <3>1, RevTeddyReadsAre
  <2> QED
    BY <1>1, <2>1, <2>2
<1>13. (\A h \in Hits : h < e) => LoopAt("chunks", p)
  <2>1. (\A h \in Hits : h < e) => \A h \in Hits : h <= p + Lanes - 1
    BY <1>2, <1>3, <1>5 DEF e
  <2> HIDE DEF p
  <2> QED
    BY <1>1, <1>5, <2>1, LoopCases
<1>14. "chunks" \in {"chunks", "tail"}
  OBVIOUS
<1> HIDE DEF T, p
<1> QED
  BY <1>1, <1>2, <1>5, <1>11, <1>12, <1>13, <1>14, LastOrKeeps

LEMMA RevTeddyChunkKeeps ==
  ASSUME Going, RevTeddyChunk
  PROVE  Kept(pc', pos', found', matches', reads')
<1> DEFINE e == pos
           low == pos < Lanes + MinPos
           p == IF low THEN Lesser(Less(pos, 1), RevEnd) ELSE pos - Lanes
           to == IF low THEN "tail" ELSE "chunks"
           A == RevCands(pos)
           T == VerifiedRev(A)
<1>1. /\ Is({"revteddy"}) /\ Is({"revliteral", "revteddy"}) /\ pc = "chunks"
      /\ LastOr(T, to, p) /\ reads' = RevTeddyReads(pos) /\ to \in {"chunks", "tail"}
  BY DEF RevTeddyChunk, RestFrom, Is
<1>2. /\ N \in Nat /\ RevEnd \in Int /\ s.len \in Nat \ {0} /\ Lanes \in Nat \ {0}
      /\ ~ Onward /\ ask.op # "all" /\ Hits \in SUBSET (0 .. N)
      /\ \A h \in Hits : h \in s.len - 1 .. RevEnd
  BY <1>1, RevGoing
<1>3. pos \in Nat /\ pos >= MinPos /\ pos + Lanes - 1 <= RevEnd /\ \A h \in Hits : h <= pos + Lanes - 1
  BY <1>1, LoopCases DEF Going
<1>4. MinPos = s.len - 1 /\ e \in Int
  BY <1>3 DEF MinPos
<1>5. /\ \A c \in A : c \in 0 .. RevEnd /\ pos <= c /\ c < pos + Lanes
      /\ \A h \in Hits : pos <= h /\ h < pos + Lanes => h \in A
      /\ UNION {Span(pos - (m - 1), Lanes) : m \in DOMAIN s.masks} \in SUBSET (0 .. N - 1)
  BY <1>1, <1>3, RevCandsFind
<1>6. (\A c \in A : c >= e) /\ \A h \in Hits : h >= e => h \in A
  <2> HIDE DEF A
  <2>1. ASSUME NEW c \in A
        PROVE  c >= e
    <3>1. c \in 0 .. RevEnd /\ pos <= c
      BY <1>5
    <3> QED
      BY <1>2, <1>3, <3>1
  <2>2. ASSUME NEW h \in Hits, h >= e
        PROVE  h \in A
    <3>1. h \in Int /\ h <= pos + Lanes - 1
      BY <1>2, <1>3
    <3>2. pos <= h /\ h < pos + Lanes
      BY <1>2, <1>3, <2>2, <3>1
    <3> QED
      BY <1>5, <3>2
  <2> QED
    BY <2>1, <2>2
<1>7. A \in SUBSET (0 .. RevEnd)
  BY <1>5
<1>8. T = {h \in Hits : h >= e} /\ RevRowReads(A) \in SUBSET (0 .. N - 1)
  <2> HIDE DEF A, e
  <2> QED
    BY <1>1, <1>4, <1>6, <1>7, VerifiedRevAre
<1>9. reads' \in SUBSET (0 .. N - 1)
  <2>1. RevCands(pos) \subseteq A
    OBVIOUS
  <2> QED
    BY <1>1, <1>5, <1>8, <2>1, RevTeddyReadsAre
<1>10. ASSUME \A h \in Hits : h < e
       PROVE  LoopAt(to, p)
  <2>1. CASE low
    <3>1. p \in Int /\ p <= RevEnd /\ \A h \in Hits : h <= p
      BY <1>2, <1>3, <1>10, <2>1 DEF Lesser, Less
    <3> HIDE DEF p, low
    <3> QED
      BY <1>1, <2>1, <3>1, LoopCases
  <2>2. CASE ~ low
    <3>1. p = pos - Lanes
      BY <2>2
    <3>2. p \in Nat /\ p >= MinPos /\ p + Lanes - 1 <= RevEnd /\ \A h \in Hits : h <= p + Lanes - 1
      BY <1>2, <1>3, <1>4, <1>10, <2>2
    <3> HIDE DEF p, low
    <3> QED
      BY <1>1, <2>2, <3>2, LoopCases
  <2> QED
    BY <2>1, <2>2
<1> HIDE DEF T, p, to, e
<1> QED
  BY <1>1, <1>2, <1>4, <1>8, <1>9, <1>10, LastOrKeeps

LEMMA RevTeddyTailKeeps ==
  ASSUME Going, RevTeddyTail
  PROVE  Kept(pc', pos', found', matches', reads')
<1> DEFINE A == MinPos .. pos
           T == VerifiedRev(A)
<1>1. /\ Is({"revteddy"}) /\ Is({"revliteral", "revteddy"}) /\ pc = "tail"
      /\ Return(Last(T)) /\ reads' = RevRowReads(A)
  BY DEF RevTeddyTail, Is
<1>2. /\ N \in Nat /\ RevEnd \in Int /\ s.len \in Nat \ {0}
      /\ ~ Onward /\ ask.op # "all" /\ Hits \in SUBSET (0 .. N)
      /\ \A h \in Hits : h \in s.len - 1 .. RevEnd
  BY <1>1, RevGoing
<1>3. pos \in Int /\ pos <= RevEnd /\ \A h \in Hits : h <= pos
  BY <1>1, LoopCases DEF Going
<1>4. MinPos = s.len - 1 /\ 0 \in Int
  BY DEF MinPos
<1>5. A \in SUBSET (0 .. RevEnd) /\ \A c \in A : c >= 0
  BY <1>2, <1>3, <1>4
<1>6. (\A h \in Hits : h >= 0) /\ \A h \in Hits : h >= 0 => h \in A
  BY <1>2, <1>3, <1>4
<1> HIDE DEF A
<1>7. T = {h \in Hits : h >= 0} /\ RevRowReads(A) \in SUBSET (0 .. N - 1)
  BY <1>1, <1>4, <1>5, <1>6, VerifiedRevAre
<1>8. T = Hits /\ reads' \in SUBSET (0 .. N - 1)
  BY <1>1, <1>6, <1>7
<1> HIDE DEF T
<1> QED
  BY <1>1, <1>2, <1>8, ReturnLastKeeps

-----------------------------------------------------------------------------
(* A step of a loop changes neither what is asked for nor what runs.       *)
LEMMA LoopsUnchanged ==
  ASSUME Loops
  PROVE  /\ AskInv' <=> AskInv
         /\ SearcherRuns' <=> SearcherRuns
         /\ N' = N /\ Hits' = Hits /\ result' = result
<1>1. ask' = ask /\ s' = s /\ run' = run /\ result' = result
  BY DEF Loops
<1>2. Sets' = Sets /\ HayLen' = HayLen /\ Hay' = Hay /\ N' = N
  BY <1>1 DEF Sets, HayLen, Hay, N
<1>3. AskInv' <=> AskInv
  BY <1>1 DEF AskInv
<1>4. LiteralRuns' <=> LiteralRuns
  BY <1>1, <1>2 DEF LiteralRuns
<1>5. RowRuns' <=> RowRuns
  BY <1>1, <1>2 DEF RowRuns
<1>6. SetRuns' <=> SetRuns
  BY <1>1, <1>2 DEF SetRuns
<1>7. RevRuns' <=> RevRuns
  BY <1>1, <1>2 DEF RevRuns
<1>11. TheSet' = TheSet /\ RevRow' = RevRow /\ RevEnd' = RevEnd
  BY <1>1, <1>2 DEF TheSet, RevRow, RevEnd, LastByte
<1>12. Hits' = Hits
  BY <1>1, <1>2, <1>11 DEF Hits, Is
<1> QED
  BY <1>1, <1>2, <1>3, <1>4, <1>5, <1>6, <1>7, <1>12 DEF SearcherRuns

LEMMA LoopKeepsInv ==
  ASSUME IInv, pc \in Running, Loops, Kept(pc', pos', found', matches', reads')
  PROVE  IInv'
<1>1. ask' = ask /\ s' = s /\ run' = run
  BY DEF Loops
<1>2. N' = N /\ Hits' = Hits /\ result' = result
  BY LoopsUnchanged
<1>3. AskInv' /\ SearcherRuns' /\ result' = None
  BY LoopsUnchanged DEF IInv, RunInv
<1>4. pc' \in {"chunks", "tail", "returned"}
  BY DEF Kept
<1>5. LoopAt(pc, pos)'
  <2>1. LoopAt(pc', pos')
    BY DEF Kept
  <2>2. RevEnd' = RevEnd /\ Gap' = Gap /\ MinPos' = MinPos
    BY <1>1, <1>2 DEF RevEnd, LastByte, Gap, MinPos
  <2> QED
    BY <1>1, <1>2, <2>1, <2>2 DEF LoopAt, SetIs, Is
<1>6. CollectAt(pc, pos, matches)'
  <2>1. CollectAt(pc', pos', matches')
    BY DEF Kept
  <2>2. \A acc, b : Greedy(acc, b)' <=> Greedy(acc, b)
    BY <1>1, <1>2 DEF Greedy
  <2> QED
    BY <1>1, <1>2, <2>1, <2>2 DEF CollectAt, Greedy
<1>7. (pc = "returned" => Answer(found))'
  <2>1. pc' = "returned" => Answer(found')
    BY DEF Kept
  <2> QED
    BY <1>1, <1>2, <2>1 DEF Answer, Onward
<1>8. RunInv'
  BY <1>3, <1>4, <1>5, <1>6, <1>7 DEF RunInv, Running
<1>9. NothingSkipped' /\ FoundThere' /\ AllFound'
  BY <1>4 DEF NothingSkipped, FoundThere, AllFound
<1>10. ReadsInside'
  BY <1>2 DEF ReadsInside, Kept
<1> QED
  BY <1>3, <1>8, <1>9, <1>10 DEF IInv

-----------------------------------------------------------------------------
(* A searcher is built.                                                    *)
LEMMA LiteralLengthIs ==
  ASSUME NEW row \in Row
  PROVE  LiteralLength(row) \in 0 .. Len(row) /\ \A i \in 1 .. LiteralLength(row) : IsByte(row[i])
<1> DEFINE T == {n \in 0 .. Len(row) : \A i \in 1 .. n : IsByte(row[i])}
<1>1. Len(row) \in Nat
  BY DEF Row
<1>2. T \in SUBSET (0 .. Len(row)) /\ 0 \in T /\ T # {} /\ 0 \in Int /\ Len(row) \in Int
  BY <1>1
<1>3. LiteralLength(row) = Greatest(T)
  BY DEF LiteralLength
<1>4. Greatest(T) \in T
  <2> HIDE DEF T
  <2> QED
    BY <1>2, GreatestOf
<1> QED
  BY <1>3, <1>4

LEMMA BuildStrictRuns ==
  ASSUME AskInv, BuildStrict, s' # NoSearcher
  PROVE  LiteralRuns'
<1>1. /\ ask.op \in {"strict", "all"} /\ s' = StrictLiteral(Sets) /\ run' = Called(s') /\ ask' = ask
  BY DEF BuildStrict, Build, Sets
<1>2. Sets \in Row /\ Len(Sets) \in Nat \ {0} /\ DOMAIN Sets = 1 .. Len(Sets)
  BY AskFacts DEF Row
<1>3. /\ \A i \in 1 .. Len(Sets) : IsByte(Sets[i])
      /\ s' = LiteralSearch("literal", Needle(Sets, Len(Sets)), 0)
  BY <1>1, <1>2 DEF StrictLiteral
<1>4. s'.k = "literal"
  BY <1>3 DEF LiteralSearch
<1>5. run' = Frame(SubSeq(ask.hay, ask.from + 1, HayLen), 0, ask.from)
  BY <1>1, <1>4 DEF Called, HayLen
<1>6. Sets' = Sets /\ HayLen' = HayLen
  BY <1>1 DEF Sets, HayLen
<1>7. Len(Sets) \in 1 .. Len(Sets)
  BY <1>2
<1> QED
  BY <1>1, <1>3, <1>5, <1>6, <1>7 DEF LiteralRuns

LEMMA BuildFwdRuns ==
  ASSUME AskInv, BuildFwd, s' # NoSearcher
  PROVE  LiteralRuns' \/ RowRuns'
<1>1. /\ ask.op = "fwd" /\ s' = FwdSearch(Sets, ask.common) /\ run' = Called(s') /\ ask' = ask
  BY DEF BuildFwd, Build, Sets
<1>2. Sets \in Row /\ Len(Sets) \in Nat \ {0}
  BY AskFacts
<1>3. Sets' = Sets /\ HayLen' = HayLen
  BY <1>1 DEF Sets, HayLen
<1> DEFINE n == LiteralLength(Sets)
           rarest == FreqOrder(Sets)[1]
<1>4. n \in 0 .. Len(Sets) /\ \A i \in 1 .. n : IsByte(Sets[i])
  BY <1>2, LiteralLengthIs
<1>5. rarest \in Places(Sets)
  <2>1. FreqOrder(Sets) \in [1 .. Len(Sets) -> Places(Sets)]
    BY <1>2, FreqOrderCovers
  <2>2. 1 \in 1 .. Len(Sets)
    BY <1>2
  <2> QED
    BY <2>1, <2>2
<1>6. \/ n >= 3 /\ s' = LiteralSearch("literal", Needle(Sets, n), 0)
      \/ s' = PlaceSearch(Sets, rarest, ask.common)
  BY <1>1 DEF FwdSearch
<1> HIDE DEF n, rarest
<1>7. CASE n >= 3 /\ s' = LiteralSearch("literal", Needle(Sets, n), 0)
  <2>1. s'.k = "literal"
    BY <1>7 DEF LiteralSearch
  <2>2. run' = Frame(SubSeq(ask.hay, ask.from + 1, HayLen), 0, ask.from)
    BY <1>1, <2>1 DEF Called, HayLen
  <2>3. n \in 1 .. Len(Sets)
    BY <1>4, <1>7
  <2> QED
    BY <1>1, <1>3, <1>4, <1>7, <2>2, <2>3 DEF LiteralRuns
<1>8. CASE s' = PlaceSearch(Sets, rarest, ask.common)
  <2>1. \/ s' = FwdTeddy(Sets)
        \/ \E common \in {ask.common, FALSE} : s' = RangePrefix(Sets, rarest, common)
    BY <1>8 DEF PlaceSearch
  <2>2. s'.k # "literal"
    BY <2>1 DEF FwdTeddy, RangePrefix, NoSearcher
  <2>3. run' = Frame(ask.hay, ask.from, 0)
    BY <1>1, <2>2 DEF Called
  <2> QED
    BY <1>1, <1>3, <1>5, <2>1, <2>3 DEF RowRuns
<1> QED
  BY <1>6, <1>7, <1>8

LEMMA BuildSetRuns ==
  ASSUME AskInv, BuildSet, s' # NoSearcher
  PROVE  SetRuns'
<1>1. /\ ask.op \in {"setfwd", "setrev"} /\ s' = SetSearch(Sets[1]) /\ run' = Called(s') /\ ask' = ask
  BY DEF BuildSet, Build, Sets
<1>2. s'.k # "literal"
  BY <1>1 DEF SetSearch, RangeSkip, NoSearcher
<1>3. run' = Frame(ask.hay, ask.from, 0) /\ Sets' = Sets
  BY <1>1, <1>2 DEF Called, Sets
<1> QED
  BY <1>1, <1>3 DEF SetRuns

LEMMA BuildRevRuns ==
  ASSUME AskInv, BuildRev, s' # NoSearcher
  PROVE  RevRuns'
<1>1. /\ ask.op = "rev" /\ s' = RevPrefixSearch(Sets) /\ run' = Called(s') /\ ask' = ask
  BY DEF BuildRev, Build, Sets
<1>2. s' = RevSearch(RevWindow(Sets), TailOffset(Sets))
  BY <1>1 DEF RevPrefixSearch
<1>3. s'.k # "literal"
  BY <1>2 DEF RevSearch, LiteralSearch, RevTeddy
<1>4. run' = Frame(ask.hay, ask.from, 0) /\ Sets' = Sets
  BY <1>1, <1>3 DEF Called, Sets
<1> QED
  BY <1>1, <1>2, <1>4 DEF RevRuns

LEMMA BuildKeepsInv ==
  ASSUME IInv, BuildStrict \/ BuildFwd \/ BuildRev \/ BuildSet
  PROVE  IInv'
<1> AskInv /\ RunInv
  BY DEF IInv
<1>1. /\ pc = "build"
      /\ UNCHANGED <<ask, pos, found, result, matches, reads>>
      /\ pc' = IF s' = NoSearcher THEN "unsearched" ELSE "call"
  BY DEF BuildStrict, BuildFwd, BuildRev, BuildSet, Build
<1>2. result = None /\ matches = <<>> /\ reads = {}
  BY <1>1 DEF RunInv
<1>3. AskInv'
  BY <1>1 DEF AskInv
<1>4. s' # NoSearcher => SearcherRuns'
  BY BuildStrictRuns, BuildFwdRuns, BuildSetRuns, BuildRevRuns DEF SearcherRuns
<1>6. LoopAt("call", pos)' /\ CollectAt("call", pos, matches)'
  BY <1>1, <1>2 DEF LoopAt, CollectAt
<1>7. RunInv'
  <2>1. CASE s' = NoSearcher
    BY <1>1, <2>1 DEF RunInv, Running
  <2>2. CASE s' # NoSearcher
    BY <1>1, <1>2, <1>4, <1>6, <2>2 DEF RunInv, Running, LoopAt, CollectAt
  <2> QED
    BY <2>1, <2>2
<1>8. NothingSkipped' /\ FoundThere' /\ AllFound'
  BY <1>1 DEF NothingSkipped, FoundThere, AllFound
<1>9. ReadsInside'
  BY <1>1, <1>2 DEF ReadsInside
<1> QED
  BY <1>3, <1>7, <1>8, <1>9 DEF IInv

-----------------------------------------------------------------------------
(* What is asked for, in the words of the lemmas about rows.               *)
LEMMA FitsIs ==
  ASSUME AskInv, NEW p \in Nat
  PROVE  FitsAt(p) <=> p + Len(Sets) <= HayLen /\ RowAt(ask.hay, Sets, p)
<1>1. /\ ask.hay \in Seq(Bytes) /\ HayLen \in Nat /\ HayLen = Len(ask.hay)
      /\ Len(Sets) \in Nat \ {0} /\ Places(Sets) = 0 .. Len(Sets) - 1
  BY AskFacts DEF HayLen, Places
<1>2. SUFFICES ASSUME p + Len(Sets) <= HayLen
               PROVE  (\A i \in Places(Sets) : At(ask.hay, p + i) \in At(Sets, i)) <=> RowAt(ask.hay, Sets, p)
  BY DEF FitsAt
<1>3. ASSUME NEW i \in 0 .. Len(Sets) - 1
      PROVE  /\ At(ask.hay, p + i) = ask.hay[p + (i + 1)] /\ At(Sets, i) = Sets[i + 1]
             /\ i + 1 \in 1 .. Len(Sets)
  <2>1. p + i \in 0 .. Len(ask.hay) - 1 /\ p + i + 1 = p + (i + 1)
    BY <1>1, <1>2, <1>3
  <2> QED
    BY <1>1, <1>3, <2>1 DEF At
<1>4. \A k \in 1 .. Len(Sets) : k - 1 \in 0 .. Len(Sets) - 1 /\ k - 1 + 1 = k
  BY <1>1
<1>5. ASSUME \A i \in Places(Sets) : At(ask.hay, p + i) \in At(Sets, i), NEW k \in 1 .. Len(Sets)
      PROVE  ask.hay[p + k] \in Sets[k]
  <2> DEFINE i == k - 1
  <2>1. i \in 0 .. Len(Sets) - 1 /\ i + 1 = k
    BY <1>4
  <2> HIDE DEF i
  <2>2. At(ask.hay, p + i) \in At(Sets, i)
    BY <1>1, <1>5, <2>1
  <2>3. At(ask.hay, p + i) = ask.hay[p + (i + 1)] /\ At(Sets, i) = Sets[i + 1]
    BY <1>3, <2>1
  <2> QED
    BY <2>1, <2>2, <2>3
<1>6. ASSUME RowAt(ask.hay, Sets, p), NEW i \in Places(Sets)
      PROVE  At(ask.hay, p + i) \in At(Sets, i)
  <2>1. i \in 0 .. Len(Sets) - 1
    BY <1>1
  <2>2. i + 1 \in 1 .. Len(Sets) /\ At(ask.hay, p + i) = ask.hay[p + (i + 1)] /\ At(Sets, i) = Sets[i + 1]
    BY <1>3, <2>1
  <2>3. ask.hay[p + (i + 1)] \in Sets[i + 1]
    BY <1>6, <2>2 DEF RowAt
  <2> QED
    BY <2>2, <2>3
<1> QED
  BY <1>5, <1>6 DEF RowAt

LEMMA EndsIs ==
  ASSUME AskInv, NEW p \in 0 .. HayLen - 1
  PROVE  EndsAt(p) <=> p + 1 >= Len(Sets) /\ RowEndsAt(ask.hay, Sets, p)
<1>1. /\ ask.hay \in Seq(Bytes) /\ HayLen \in Nat /\ HayLen = Len(ask.hay) /\ p \in Nat /\ p < HayLen
      /\ Len(Sets) \in Nat \ {0} /\ Places(Sets) = 0 .. Len(Sets) - 1
  BY AskFacts DEF HayLen, Places
<1>2. SUFFICES ASSUME p + 1 >= Len(Sets)
               PROVE  (\A i \in Places(Sets) : At(ask.hay, p - i) \in At(Sets, i)) <=> RowEndsAt(ask.hay, Sets, p)
  BY <1>1 DEF EndsAt
<1>3. ASSUME NEW i \in 0 .. Len(Sets) - 1
      PROVE  /\ At(ask.hay, p - i) = ask.hay[p + 2 - (i + 1)] /\ At(Sets, i) = Sets[i + 1]
             /\ i + 1 \in 1 .. Len(Sets)
  <2>1. p - i \in 0 .. Len(ask.hay) - 1 /\ p - i + 1 = p + 2 - (i + 1)
    BY <1>1, <1>2, <1>3
  <2>2. At(ask.hay, p - i) = ask.hay[p - i + 1]
    BY <2>1 DEF At
  <2> QED
    BY <1>1, <1>3, <2>1, <2>2 DEF At
<1>4. \A k \in 1 .. Len(Sets) : k - 1 \in 0 .. Len(Sets) - 1 /\ k - 1 + 1 = k
  BY <1>1
<1>5. ASSUME \A i \in Places(Sets) : At(ask.hay, p - i) \in At(Sets, i), NEW k \in 1 .. Len(Sets)
      PROVE  ask.hay[p + 2 - k] \in Sets[k]
  <2> DEFINE i == k - 1
  <2>1. i \in 0 .. Len(Sets) - 1 /\ i + 1 = k
    BY <1>4
  <2> HIDE DEF i
  <2>2. At(ask.hay, p - i) \in At(Sets, i)
    BY <1>1, <1>5, <2>1
  <2>3. At(ask.hay, p - i) = ask.hay[p + 2 - (i + 1)] /\ At(Sets, i) = Sets[i + 1]
    BY <1>3, <2>1
  <2> QED
    BY <2>1, <2>2, <2>3
<1>6. ASSUME RowEndsAt(ask.hay, Sets, p), NEW i \in Places(Sets)
      PROVE  At(ask.hay, p - i) \in At(Sets, i)
  <2>1. i \in 0 .. Len(Sets) - 1
    BY <1>1
  <2>2. /\ i + 1 \in 1 .. Len(Sets)
        /\ At(ask.hay, p - i) = ask.hay[p + 2 - (i + 1)] /\ At(Sets, i) = Sets[i + 1]
    BY <1>3, <2>1
  <2>3. ask.hay[p + 2 - (i + 1)] \in Sets[i + 1]
    BY <1>6, <2>2 DEF RowEndsAt
  <2> QED
    BY <2>2, <2>3
<1> QED
  BY <1>5, <1>6 DEF RowEndsAt

-----------------------------------------------------------------------------
(* What a search returns.                                                  *)
Fits(p) ==
  IF Forward THEN \A i \in Part : At(ask.hay, p + i - 1) \in Sets[i]
  ELSE \A i \in Part : At(ask.hay, p - (i - 1)) \in Sets[i]

(* Every spot is a match of the run, and every match of the run a spot for *)
(* the part of the row that the run looks for.                             *)
HitsAre(d) ==
  /\ d = s.tail + run.base /\ d \in Nat /\ s.tail \in Nat /\ run.base \in Nat /\ Hits \in SUBSET Nat
  /\ \A p \in Spots : p \in Nat /\ p - d \in Hits
  /\ \A h \in Hits : Fits(h + d)

LEMMA LiteralHits ==
  ASSUME AskInv, SearcherRuns, LiteralRuns, ask.op # "all"
  PROVE  HitsAre(ask.from)
<1> Is({"literal"})
  BY KindsOfRuns DEF Is
<1>1. /\ s.tail = 0 /\ s.len \in 1 .. Len(Sets)
      /\ Hits = {p \in 0 .. N - s.len : \A i \in 1 .. s.len : Hay[p + i] \in Sets[i]}
  BY LiteralFacts
<1>2. Forward /\ run.base = ask.from /\ Part = 1 .. s.len
  BY DEF LiteralRuns, Frame, Forward, Part, Is
<1>3. /\ ask.hay \in Seq(Bytes) /\ HayLen \in Nat /\ HayLen = Len(ask.hay) /\ ask.from \in 0 .. HayLen
      /\ Len(Sets) \in Nat \ {0}
  BY AskFacts DEF HayLen
<1> DEFINE d == ask.from
           L == Len(Sets)
           n == s.len
<1>4. /\ d \in Nat /\ d <= HayLen /\ HayLen \in Nat /\ N = HayLen - d /\ L \in Nat \ {0} /\ n \in 1 .. L
      /\ \A i \in 1 .. N : Hay[i] = ask.hay[i + d]
  BY <1>1, <1>2, <1>3, RunFrame
<1>5. Hits = {p \in 0 .. N - n : \A i \in 1 .. n : Hay[p + i] \in Sets[i]}
  BY <1>1
<1>6. Spots = {p \in d .. HayLen : FitsAt(p)}
  BY <1>2 DEF Spots
<1>7. d = s.tail + run.base /\ s.tail \in Nat /\ run.base \in Nat
  BY <1>1, <1>2, <1>4
<1>8. ASSUME NEW p \in Spots
      PROVE  p \in Nat /\ p - d \in Hits
  <2>1. p \in Nat /\ p >= d /\ p <= HayLen
    <3> HIDE DEF d
    <3> QED
      BY <1>4, <1>6
  <2>2. p + L <= HayLen /\ RowAt(ask.hay, Sets, p)
    BY <1>6, <2>1, FitsIs
  <2> HIDE DEF d, L, n
  <2>3. p - d \in 0 .. N - n
    BY <1>4, <2>1, <2>2
  <2>4. ASSUME NEW i \in 1 .. n
        PROVE  Hay[p - d + i] \in Sets[i]
    <3>1. p - d + i \in 1 .. N /\ p - d + i + d = p + i /\ i \in 1 .. L
      BY <1>4, <2>1, <2>2
    <3>2. ask.hay[p + i] \in Sets[i]
      BY <2>2, <3>1 DEF RowAt, L
    <3> QED
      BY <1>4, <3>1, <3>2
  <2> QED
    BY <1>5, <2>1, <2>3, <2>4
<1>9. ASSUME NEW h \in Hits
      PROVE  h \in Nat /\ Fits(h + d)
  <2> HIDE DEF d, L, n
  <2>1. h \in 0 .. N - n /\ \A i \in 1 .. n : Hay[h + i] \in Sets[i]
    BY <1>5
  <2>2. h \in Nat
    BY <2>1
  <2>3. ASSUME NEW i \in 1 .. n
        PROVE  At(ask.hay, h + d + i - 1) \in Sets[i]
    <3>1. h + i \in 1 .. N /\ h + i + d = h + d + i
      BY <1>4, <2>1
    <3>2. h + d + i - 1 \in 0 .. HayLen - 1 /\ h + d + i - 1 + 1 = h + d + i
      BY <1>4, <2>1
    <3> QED
      BY <1>3, <1>4, <2>1, <3>1, <3>2 DEF At
  <2> QED
    BY <1>2, <2>2, <2>3 DEF Fits, n
<1> QED
  BY <1>4, <1>7, <1>8, <1>9 DEF HitsAre

LEMMA RowHits ==
  ASSUME AskInv, SearcherRuns, RowRuns
  PROVE  HitsAre(0)
<1> Is({"teddy", "range"})
  BY KindsOfRuns DEF Is
<1>1. /\ s.tail = 0 /\ s.len = Len(Sets) /\ ask.op = "fwd"
      /\ Hits = {p \in run.from .. N - s.len : RowAt(Hay, Sets, p)}
  BY RowFacts
<1>2. /\ Forward /\ run.base = 0 /\ run.from = ask.from /\ Hay = ask.hay /\ N = HayLen
      /\ Part = 1 .. Len(Sets)
  BY <1>1 DEF RowRuns, Frame, Forward, Part, Is, Hay, N, HayLen
<1>3. /\ ask.hay \in Seq(Bytes) /\ HayLen \in Nat /\ HayLen = Len(ask.hay) /\ ask.from \in 0 .. HayLen
      /\ Len(Sets) \in Nat \ {0}
  BY AskFacts DEF HayLen
<1>4. Hits = {p \in ask.from .. HayLen - Len(Sets) : RowAt(ask.hay, Sets, p)}
  BY <1>1, <1>2
<1>5. Spots = {p \in ask.from .. HayLen : FitsAt(p)}
  BY <1>2 DEF Spots
<1>6. ASSUME NEW p \in Spots
      PROVE  p \in Nat /\ p - 0 \in Hits
  <2>1. p \in Nat /\ p >= ask.from
    BY <1>3, <1>5
  <2>2. p + Len(Sets) <= HayLen /\ RowAt(ask.hay, Sets, p)
    BY <1>5, <2>1, FitsIs
  <2>3. p \in ask.from .. HayLen - Len(Sets) /\ p - 0 = p
    BY <1>3, <2>1, <2>2
  <2> QED
    BY <1>4, <2>1, <2>2, <2>3
<1>7. ASSUME NEW h \in Hits
      PROVE  h \in Nat /\ Fits(h + 0)
  <2>1. h \in ask.from .. HayLen - Len(Sets) /\ RowAt(ask.hay, Sets, h)
    BY <1>4
  <2>2. h \in Nat /\ h + 0 = h
    BY <1>3, <2>1
  <2>3. ASSUME NEW i \in 1 .. Len(Sets)
        PROVE  At(ask.hay, h + i - 1) \in Sets[i]
    <3>1. h + i - 1 \in 0 .. Len(ask.hay) - 1 /\ h + i - 1 + 1 = h + i
      BY <1>3, <2>1, <2>2
    <3>2. ask.hay[h + i] \in Sets[i]
      BY <2>1 DEF RowAt
    <3> QED
      BY <3>1, <3>2 DEF At
  <2> QED
    BY <1>2, <2>2, <2>3 DEF Fits
<1>8. 0 = s.tail + run.base /\ s.tail \in Nat /\ run.base \in Nat
  BY <1>1, <1>2
<1> QED
  BY <1>6, <1>7, <1>8 DEF HitsAre

LEMMA SetHits ==
  ASSUME AskInv, SearcherRuns, SetRuns
  PROVE  HitsAre(0)
<1> Is({"bytes", "ranges"})
  BY KindsOfRuns DEF Is
<1>1. /\ ask.op \in {"setfwd", "setrev"} /\ s.tail = 0
      /\ Hits = {p \in 0 .. N - 1 : At(Hay, p) \in Sets[1]}
  BY SetFacts DEF SetRuns, TheSet
<1>2. run.base = 0 /\ Hay = ask.hay /\ N = HayLen /\ Len(Sets) = 1
  BY <1>1 DEF SetRuns, Frame, Hay, N, HayLen, AskInv, Sets
<1>3. Part = 1 .. 1
  BY <1>1, <1>2 DEF Part, Is
<1>4. ask.hay \in Seq(Bytes) /\ HayLen \in Nat /\ HayLen = Len(ask.hay) /\ ask.from \in 0 .. HayLen
  BY AskFacts DEF HayLen
<1>5. Hits = {p \in 0 .. HayLen - 1 : At(ask.hay, p) \in Sets[1]}
  BY <1>1, <1>2
<1>6. ASSUME NEW p \in Spots
      PROVE  p \in Nat /\ p - 0 \in Hits
  <2>1. p \in 0 .. HayLen - 1 /\ ask.hay[p + 1] \in Sets[1]
    <3>1. CASE Forward
      <4>1. p \in ask.from .. HayLen /\ FitsAt(p)
        BY <3>1 DEF Spots
      <4>2. p \in Nat
        BY <1>4, <4>1
      <4>3. p + 1 <= HayLen /\ RowAt(ask.hay, Sets, p)
        BY <1>2, <4>1, <4>2, FitsIs
      <4> QED
        BY <1>2, <1>4, <4>2, <4>3 DEF RowAt
    <3>2. CASE ~ Forward
      <4>1. p \in 0 .. Lesser(ask.from, HayLen - 1) /\ EndsAt(p)
        BY <1>1, <3>2 DEF Spots
      <4>2. p \in 0 .. HayLen - 1
        BY <1>4, <4>1 DEF Lesser
      <4>3. RowEndsAt(ask.hay, Sets, p)
        BY <4>1, <4>2, EndsIs
      <4>4. ask.hay[p + 2 - 1] \in Sets[1] /\ p + 2 - 1 = p + 1
        BY <1>2, <4>2, <4>3 DEF RowEndsAt
      <4> QED
        BY <4>2, <4>4
    <3> QED
      BY <3>1, <3>2
  <2>2. p - 0 = p /\ p \in Nat /\ At(ask.hay, p) = ask.hay[p + 1]
    BY <1>4, <2>1 DEF At
  <2> QED
    BY <1>5, <2>1, <2>2
<1>7. ASSUME NEW h \in Hits
      PROVE  h \in Nat /\ Fits(h + 0)
  <2>1. h \in Nat /\ At(ask.hay, h) \in Sets[1]
    BY <1>5
  <2>2. ASSUME NEW i \in 1 .. 1
        PROVE  i = 1 /\ h + 0 + i - 1 = h /\ h + 0 - (i - 1) = h
    BY <2>1
  <2> QED
    BY <1>3, <2>1, <2>2 DEF Fits
<1>8. 0 = s.tail + run.base /\ s.tail \in Nat /\ run.base \in Nat
  BY <1>1, <1>2
<1> QED
  BY <1>6, <1>7, <1>8 DEF HitsAre

LEMMA RevHits ==
  ASSUME AskInv, SearcherRuns, RevRuns
  PROVE  HitsAre(s.tail)
<1> Is({"revliteral", "revteddy"})
  BY KindsOfRuns DEF Is
<1> DEFINE d == s.tail
           n == s.len
           L == Len(Sets)
           last == Lesser(ask.from, HayLen - 1)
<1>1. /\ ask.op = "rev" /\ run.base = 0 /\ run.from = ask.from /\ Hay = ask.hay /\ N = HayLen
      /\ RevRow = RevWindow(Sets) /\ s = RevSearch(RevWindow(Sets), TailOffset(Sets))
  BY DEF RevRuns, Frame, RevRow, Hay, N, HayLen
<1>2. /\ s.tail \in Nat /\ s.len = Len(RevRow) /\ s.len \in Nat \ {0} /\ N \in Nat \ {0}
      /\ LastByte = Lesser(run.from, N - 1) /\ LastByte \in 0 .. N - 1 /\ RevEnd = LastByte - s.tail
      /\ Hits = {p \in s.len - 1 .. RevEnd : RowEndsAt(Hay, RevRow, p)}
  BY RevFacts
<1>3. /\ ask.hay \in Seq(Bytes) /\ HayLen \in Nat /\ HayLen = Len(ask.hay) /\ ask.from \in 0 .. HayLen
      /\ Sets \in Row /\ Len(Sets) \in Nat \ {0}
  BY AskFacts DEF HayLen
<1>4. s.tail = TailOffset(Sets)
  BY <1>1 DEF RevSearch, LiteralSearch, RevTeddy
<1>5. /\ TailOffset(Sets) \in 0 .. Len(Sets) - NumSimd(Len(Sets)) /\ NumSimd(Len(Sets)) \in 1 .. Len(Sets)
      /\ Len(RevWindow(Sets)) = NumSimd(Len(Sets))
      /\ \A i \in 1 .. NumSimd(Len(Sets)) : RevWindow(Sets)[i] = Sets[TailOffset(Sets) + i]
  BY <1>3, RevWindowInside
<1>6. /\ d \in Nat /\ n \in Nat \ {0} /\ L \in Nat \ {0} /\ d + n <= L /\ HayLen \in Nat \ {0}
      /\ last \in 0 .. HayLen - 1
      /\ \A i \in 1 .. n : RevRow[i] = Sets[d + i]
  BY <1>1, <1>2, <1>3, <1>4, <1>5
<1>7. Hits = {p \in n - 1 .. last - d : RowEndsAt(ask.hay, RevRow, p)}
  BY <1>1, <1>2
<1>8. /\ Len(RevRow) = n /\ HayLen = Len(ask.hay)
      /\ d = s.tail + run.base /\ s.tail \in Nat /\ run.base \in Nat
  BY <1>1, <1>2, <1>3
<1>9. ~ Forward /\ Spots = {p \in 0 .. last : EndsAt(p)}
  BY <1>1 DEF Spots, Forward
<1>10. Part = d + 1 .. d + n
  BY <1>1 DEF Part, Is
<1> HIDE DEF d, n, L, last
<1>11. ASSUME NEW p \in Spots
       PROVE  p \in Nat /\ p - d \in Hits
  <2>1. p \in 0 .. last /\ EndsAt(p) /\ p \in 0 .. HayLen - 1 /\ p \in Nat
    BY <1>6, <1>9
  <2>2. p + 1 >= L /\ RowEndsAt(ask.hay, Sets, p)
    BY <2>1, EndsIs DEF L
  <2>3. p - d \in n - 1 .. last - d
    BY <1>6, <2>1, <2>2
  <2>4. ASSUME NEW i \in 1 .. n
        PROVE  ask.hay[p - d + 2 - i] \in RevRow[i]
    <3>1. d + i \in 1 .. L /\ p + 2 - (d + i) = p - d + 2 - i
      BY <1>6, <2>1
    <3>2. ask.hay[p + 2 - (d + i)] \in Sets[d + i]
      BY <2>2, <3>1 DEF RowEndsAt, L
    <3> QED
      BY <1>6, <3>1, <3>2
  <2>5. RowEndsAt(ask.hay, RevRow, p - d)
    BY <1>8, <2>4 DEF RowEndsAt
  <2> QED
    BY <1>7, <2>1, <2>3, <2>5
<1>12. ASSUME NEW h \in Hits
       PROVE  h \in Nat /\ Fits(h + d)
  <2>1. h \in n - 1 .. last - d /\ RowEndsAt(ask.hay, RevRow, h)
    BY <1>7
  <2>2. h \in Nat /\ h + d <= HayLen - 1
    BY <1>6, <2>1
  <2>3. ASSUME NEW k \in d + 1 .. d + n
        PROVE  At(ask.hay, (h + d) - (k - 1)) \in Sets[k]
    <3> DEFINE i == k - d
    <3>1. i \in 1 .. n /\ d + i = k
      BY <1>6
    <3> HIDE DEF i
    <3>a. i \in Int /\ h \in Int /\ d \in Int /\ h >= n - 1 /\ i <= n /\ i >= 1 /\ k = d + i /\ n \in Int
      BY <1>6, <2>1, <2>2, <3>1
    <3>2. /\ (h + d) - (k - 1) \in 0 .. Len(ask.hay) - 1
          /\ (h + d) - (k - 1) + 1 = h + 2 - i
      <4>1. (h + d) - (k - 1) = h + 1 - i /\ h + 1 - i + 1 = h + 2 - i
        BY <3>a
      <4>2. h + 1 - i \in 0 .. HayLen - 1
        BY <1>6, <2>2, <3>a
      <4> QED
        BY <1>8, <4>1, <4>2
    <3>3. ask.hay[h + 2 - i] \in RevRow[i]
      BY <1>8, <2>1, <3>1 DEF RowEndsAt
    <3>4. RevRow[i] = Sets[k]
      BY <1>6, <3>1
    <3>5. At(ask.hay, (h + d) - (k - 1)) = ask.hay[(h + d) - (k - 1) + 1]
      BY <3>2 DEF At
    <3> QED
      BY <3>2, <3>3, <3>4, <3>5
  <2> QED
    BY <1>9, <1>10, <2>2, <2>3 DEF Fits
<1> QED
  BY <1>6, <1>8, <1>11, <1>12 DEF HitsAre, d

(* So the answer of the run is the answer of the search.                   *)
LEMMA AnswerIs ==
  ASSUME NEW d, HitsAre(d), Answer(found), ask.op # "all", Onward <=> Forward
  PROVE  /\ \A p \in Spots : found # None /\ IF Forward THEN found <= p ELSE p <= found
         /\ found # None => Fits(found)
<1>1. /\ d = s.tail + run.base /\ d \in Nat /\ s.tail \in Nat /\ run.base \in Nat
      /\ \A h \in Hits : h \in Nat /\ Fits(h + d)
      /\ \A p \in Spots : p \in Nat /\ p - d \in Hits
  BY DEF HitsAre
<1>2. CASE Hits = {}
  <2>1. found = None
    BY <1>2 DEF Answer
  <2> QED
    BY <1>1, <1>2, <2>1
<1>3. CASE Hits # {}
  <2>1. PICK h \in Hits : found = h + s.tail + run.base /\ \A k \in Hits : IF Onward THEN h <= k ELSE k <= h
    BY <1>3 DEF Answer
  <2>2. h \in Nat /\ Fits(h + d) /\ s.tail + run.base = d
    BY <1>1, <2>1
  <2>3. found = h + d
    <3>1. h + s.tail + run.base = h + (s.tail + run.base)
      BY <1>1, <2>2
    <3> QED
      BY <2>1, <2>2, <3>1
  <2>4. found \in Nat /\ found # None
    BY <1>1, <2>2, <2>3 DEF None
  <2>5. ASSUME NEW p \in Spots
        PROVE  IF Forward THEN found <= p ELSE p <= found
    <3>1. p \in Nat /\ p - d \in Hits
      BY <1>1
    <3>2. IF Forward THEN h <= p - d ELSE p - d <= h
      BY <2>1, <3>1
    <3>3. /\ h <= p - d => found <= p
          /\ p - d <= h => p <= found
      BY <1>1, <2>2, <2>3, <3>1
    <3> QED
      BY <3>2, <3>3
  <2> QED
    BY <2>2, <2>3, <2>4, <2>5
<1> QED
  BY <1>2, <1>3

LEMMA FinishFinds ==
  ASSUME AskInv, SearcherRuns, Answer(found), ask.op # "all"
  PROVE  /\ \A p \in Spots : found # None /\ IF Forward THEN found <= p ELSE p <= found
         /\ found # None => Fits(found)
         /\ ~ Forward => ask.op \in {"rev", "setrev"}
<1>1. LiteralRuns \/ RowRuns \/ SetRuns \/ RevRuns
  BY DEF SearcherRuns
<1>2. ask.op \in {"strict", "fwd", "setfwd", "rev", "setrev"}
  BY <1>1 DEF LiteralRuns, RowRuns, SetRuns, RevRuns
<1>3. Onward <=> Forward
  BY <1>2 DEF Onward, Forward, Reverse
<1>4. \E d : HitsAre(d)
  BY <1>1, LiteralHits, RowHits, SetHits, RevHits
<1> QED
  BY <1>2, <1>3, <1>4, AnswerIs DEF Forward

(* What a search for all has collected is what there is to find.           *)
LEMMA FinishFindsAll ==
  ASSUME AskInv, SearcherRuns, ask.op = "all", Greedy(matches, N + 1)
  PROVE  /\ \A k \in DOMAIN matches :
              /\ matches[k][1] \in {q \in EndOf(matches, k - 1) .. HayLen : FitsAt(q)}
              /\ \A q \in {q \in EndOf(matches, k - 1) .. HayLen : FitsAt(q)} : matches[k][1] <= q
              /\ matches[k][2] = matches[k][1] + Len(Sets)
         /\ {q \in EndOf(matches, Len(matches)) .. HayLen : FitsAt(q)} = {}
<1> DEFINE E(k) == EndOf(matches, k)
           L == Len(Sets)
<1>1. LiteralRuns /\ ask.from = 0 /\ run.base = 0
  BY DEF SearcherRuns, LiteralRuns, RowRuns, SetRuns, RevRuns, AskInv, Frame
<1> Is({"literal"})
  BY <1>1, KindsOfRuns DEF Is
<1>2. /\ s.len = L /\ Hits = {p \in 0 .. N - s.len : \A i \in 1 .. s.len : Hay[p + i] \in Sets[i]}
  BY LiteralFacts
<1>3. /\ N \in Nat /\ N = HayLen - run.base /\ HayLen \in Nat /\ L \in Nat \ {0}
      /\ \A i \in 1 .. N : Hay[i] = ask.hay[i + run.base]
  BY RunFrame, AskFacts
<1>4. N = HayLen /\ \A i \in 1 .. N : Hay[i] = ask.hay[i]
  BY <1>1, <1>3
<1>5. ASSUME NEW q \in Nat
      PROVE  q \in Hits <=> FitsAt(q)
  <2>1. FitsAt(q) <=> q + L <= HayLen /\ RowAt(ask.hay, Sets, q)
    BY FitsIs
  <2>2. q \in Hits <=> q + L <= HayLen /\ \A i \in 1 .. L : Hay[q + i] \in Sets[i]
    <3> HIDE DEF L
    <3> QED
      BY <1>2, <1>3, <1>4
  <2>3. ASSUME q + L <= HayLen, NEW i \in 1 .. L
        PROVE  Hay[q + i] = ask.hay[q + i]
    <3> HIDE DEF L
    <3>1. q + i \in 1 .. N
      BY <1>3, <1>4, <2>3
    <3> QED
      BY <1>4, <3>1
  <2> QED
    BY <2>1, <2>2, <2>3 DEF RowAt
<1>6. Hits \in SUBSET (0 .. HayLen)
  <2> HIDE DEF L
  <2> QED
    BY <1>2, <1>3, <1>4
<1>7. /\ matches \in Lists /\ DOMAIN matches = 1 .. Len(matches) /\ Len(matches) \in Nat
      /\ \A k \in 1 .. Len(matches) :
           /\ matches[k][1] \in Hits /\ matches[k][1] >= E(k - 1) /\ matches[k][2] = matches[k][1] + L
           /\ \A q \in Hits : q >= E(k - 1) => matches[k][1] <= q
      /\ \A q \in Hits : q >= E(Len(matches)) => q >= N + 1
  BY <1>2 DEF Greedy, Lists
<1>8. \A k \in 0 .. Len(matches) : E(k) \in Nat
  BY <1>7, EndOfNat
<1> HIDE DEF E, L
<1>9. ASSUME NEW k \in 0 .. Len(matches), NEW q
      PROVE  q \in {x \in E(k) .. HayLen : FitsAt(x)} <=> q \in Hits /\ q >= E(k)
  <2>1. q \in E(k) .. HayLen => q \in Nat /\ q >= E(k)
    BY <1>3, <1>8
  <2>2. q \in Hits /\ q >= E(k) => q \in E(k) .. HayLen /\ q \in Nat
    BY <1>3, <1>6, <1>8
  <2> QED
    BY <1>5, <2>1, <2>2
<1>10. ASSUME NEW k \in DOMAIN matches
       PROVE  /\ matches[k][1] \in {q \in E(k - 1) .. HayLen : FitsAt(q)}
              /\ \A q \in {q \in E(k - 1) .. HayLen : FitsAt(q)} : matches[k][1] <= q
              /\ matches[k][2] = matches[k][1] + L
  <2>1. k \in 1 .. Len(matches) /\ k - 1 \in 0 .. Len(matches)
    BY <1>7
  <2> QED
    BY <1>7, <1>9, <2>1
<1>11. {q \in E(Len(matches)) .. HayLen : FitsAt(q)} = {}
  <2>1. Len(matches) \in 0 .. Len(matches)
    BY <1>7
  <2>2. \A q \in Hits : ~ (q >= N + 1)
    BY <1>3, <1>4, <1>6
  <2> QED
    BY <1>7, <1>9, <2>1, <2>2
<1> QED
  BY <1>10, <1>11 DEF E, L

LEMMA FinishKeepsInv ==
  ASSUME IInv, Finish
  PROVE  IInv'
<1>1. /\ pc = "returned" /\ pc' = "done" /\ result' = found /\ reads' = {}
      /\ ask' = ask /\ s' = s /\ matches' = matches
  BY DEF Finish
<1>2. AskInv /\ SearcherRuns /\ Answer(found) /\ CollectAt(pc, pos, matches)
  BY <1>1 DEF IInv, RunInv, Running
<1>3. AskInv' /\ RunInv' /\ ReadsInside'
  BY <1>1, <1>2 DEF AskInv, RunInv, Running, ReadsInside
<1>4. Sets' = Sets /\ HayLen' = HayLen /\ Spots' = Spots
  BY <1>1 DEF Spots, Forward, FitsAt, EndsAt, Sets, HayLen
<1>5. NothingSkipped' /\ FoundThere'
  <2>1. CASE ask.op = "all"
    BY <1>1, <1>2, <2>1 DEF NothingSkipped, FoundThere, Answer, Forward
  <2>2. CASE ask.op # "all"
    <3>1. /\ \A p \in Spots : found # None /\ IF Forward THEN found <= p ELSE p <= found
          /\ found # None => Fits(found)
          /\ ~ Forward => ask.op \in {"rev", "setrev"}
      BY <1>1, <1>2, <2>2, FinishFinds
    <3>2. NothingSkipped'
      BY <1>1, <1>4, <3>1 DEF NothingSkipped, Forward
    <3>3. Part' = Part
      BY <1>1, <1>4 DEF Part
    <3>4. FoundThere'
      BY <1>1, <1>4, <3>1, <3>3 DEF FoundThere, Fits, Forward
    <3> QED
      BY <3>2, <3>4
  <2> QED
    BY <2>1, <2>2
<1>6. AllFound'
  <2>1. CASE ask.op # "all"
    BY <1>1, <2>1 DEF AllFound
  <2>2. CASE ask.op = "all"
    <3>1. Greedy(matches, N + 1)
      BY <1>1, <1>2, <2>2 DEF CollectAt
    <3>2. AllFound' <=>
            /\ \A k \in DOMAIN matches :
                 /\ matches[k][1] \in {q \in EndOf(matches, k - 1) .. HayLen : FitsAt(q)}
                 /\ \A q \in {q \in EndOf(matches, k - 1) .. HayLen : FitsAt(q)} : matches[k][1] <= q
                 /\ matches[k][2] = matches[k][1] + Len(Sets)
            /\ {q \in EndOf(matches, Len(matches)) .. HayLen : FitsAt(q)} = {}
      BY <1>1, <2>2 DEF AllFound, EndOf, FitsAt, Sets, HayLen
    <3> QED
      BY <1>2, <2>2, <3>1, <3>2, FinishFindsAll
  <2> QED
    BY <2>1, <2>2
<1> QED
  BY <1>3, <1>5, <1>6 DEF IInv

-----------------------------------------------------------------------------
(* Every step of a loop keeps the invariant.                               *)
LEMMA GoingIs ==
  ASSUME IInv, pc \in {"call", "chunks", "tail"}
  PROVE  Going /\ pc \in Running
BY DEF IInv, RunInv, Going, Running

SetStep == CallSetFwd \/ SetFwdChunk \/ SetFwdTail \/ CallSetRev \/ SetRevChunk \/ SetRevTail
LEMMA SetStepKeepsInv ==
  ASSUME IInv, SetStep
  PROVE  IInv'
<1>1. CASE CallSetFwd
  <2>1. pc \in {"call", "chunks", "tail"} /\ Loops
    BY <1>1 DEF CallSetFwd
  <2> QED
    BY <1>1, <2>1, GoingIs, CallSetFwdKeeps, LoopKeepsInv
<1>2. CASE SetFwdChunk
  <2>1. pc \in {"call", "chunks", "tail"} /\ Loops
    BY <1>2 DEF SetFwdChunk
  <2> QED
    BY <1>2, <2>1, GoingIs, SetFwdChunkKeeps, LoopKeepsInv
<1>3. CASE SetFwdTail
  <2>1. pc \in {"call", "chunks", "tail"} /\ Loops
    BY <1>3 DEF SetFwdTail
  <2> QED
    BY <1>3, <2>1, GoingIs, SetFwdTailKeeps, LoopKeepsInv
<1>4. CASE CallSetRev
  <2>1. pc \in {"call", "chunks", "tail"} /\ Loops
    BY <1>4 DEF CallSetRev
  <2> QED
    BY <1>4, <2>1, GoingIs, CallSetRevKeeps, LoopKeepsInv
<1>5. CASE SetRevChunk
  <2>1. pc \in {"call", "chunks", "tail"} /\ Loops
    BY <1>5 DEF SetRevChunk
  <2> QED
    BY <1>5, <2>1, GoingIs, SetRevChunkKeeps, LoopKeepsInv
<1>6. CASE SetRevTail
  <2>1. pc \in {"call", "chunks", "tail"} /\ Loops
    BY <1>6 DEF SetRevTail
  <2> QED
    BY <1>6, <2>1, GoingIs, SetRevTailKeeps, LoopKeepsInv
<1> QED
  BY <1>1, <1>2, <1>3, <1>4, <1>5, <1>6 DEF SetStep

LiteralStep == CallLiteral \/ LiteralPair \/ LiteralChunk \/ LiteralRest \/ LiteralDone
LEMMA LiteralStepKeepsInv ==
  ASSUME IInv, LiteralStep
  PROVE  IInv'
<1>1. CASE CallLiteral
  <2>1. pc \in {"call", "chunks", "tail"} /\ Loops
    BY <1>1 DEF CallLiteral
  <2> QED
    BY <1>1, <2>1, GoingIs, CallLiteralKeeps, LoopKeepsInv
<1>2. CASE LiteralPair
  <2>1. pc \in {"call", "chunks", "tail"} /\ Loops
    BY <1>2 DEF LiteralPair
  <2> QED
    BY <1>2, <2>1, GoingIs, LiteralPairKeeps, LoopKeepsInv
<1>3. CASE LiteralChunk
  <2>1. pc \in {"call", "chunks", "tail"} /\ Loops
    BY <1>3 DEF LiteralChunk
  <2> QED
    BY <1>3, <2>1, GoingIs, LiteralChunkKeeps, LoopKeepsInv
<1>4. CASE LiteralRest
  <2>1. pc \in {"call", "chunks", "tail"} /\ Loops
    BY <1>4 DEF LiteralRest
  <2> QED
    BY <1>4, <2>1, GoingIs, LiteralRestKeeps, LoopKeepsInv
<1>5. CASE LiteralDone
  <2>1. pc \in {"call", "chunks", "tail"} /\ Loops
    BY <1>5 DEF LiteralDone
  <2> QED
    BY <1>5, <2>1, GoingIs, LiteralDoneKeeps, LoopKeepsInv
<1> QED
  BY <1>1, <1>2, <1>3, <1>4, <1>5 DEF LiteralStep

RowStep == CallRow \/ TeddyPair \/ TeddyChunk \/ RangeChunk \/ RowRest
LEMMA RowStepKeepsInv ==
  ASSUME IInv, RowStep
  PROVE  IInv'
<1>1. CASE CallRow
  <2>1. pc \in {"call", "chunks", "tail"} /\ Loops
    BY <1>1 DEF CallRow
  <2> QED
    BY <1>1, <2>1, GoingIs, CallRowKeeps, LoopKeepsInv
<1>2. CASE TeddyPair
  <2>1. pc \in {"call", "chunks", "tail"} /\ Loops
    BY <1>2 DEF TeddyPair
  <2> QED
    BY <1>2, <2>1, GoingIs, TeddyPairKeeps, LoopKeepsInv
<1>3. CASE TeddyChunk
  <2>1. pc \in {"call", "chunks", "tail"} /\ Loops
    BY <1>3 DEF TeddyChunk
  <2> QED
    BY <1>3, <2>1, GoingIs, TeddyChunkKeeps, LoopKeepsInv
<1>4. CASE RangeChunk
  <2>1. pc \in {"call", "chunks", "tail"} /\ Loops
    BY <1>4 DEF RangeChunk
  <2> QED
    BY <1>4, <2>1, GoingIs, RangeChunkKeeps, LoopKeepsInv
<1>5. CASE RowRest
  <2>1. pc \in {"call", "chunks", "tail"} /\ Loops
    BY <1>5 DEF RowRest
  <2> QED
    BY <1>5, <2>1, GoingIs, RowRestKeeps, LoopKeepsInv
<1> QED
  BY <1>1, <1>2, <1>3, <1>4, <1>5 DEF RowStep

RevLiteralStep == CallTooEarly \/ CallRevLiteral \/ RevLiteralChunk \/ RevLiteralRest
LEMMA RevLiteralStepKeepsInv ==
  ASSUME IInv, RevLiteralStep
  PROVE  IInv'
<1>1. CASE CallTooEarly
  <2>1. pc \in {"call", "chunks", "tail"} /\ Loops
    BY <1>1 DEF CallTooEarly
  <2> QED
    BY <1>1, <2>1, GoingIs, CallTooEarlyKeeps, LoopKeepsInv
<1>2. CASE CallRevLiteral
  <2>1. pc \in {"call", "chunks", "tail"} /\ Loops
    BY <1>2 DEF CallRevLiteral
  <2> QED
    BY <1>2, <2>1, GoingIs, CallRevLiteralKeeps, LoopKeepsInv
<1>3. CASE RevLiteralChunk
  <2>1. pc \in {"call", "chunks", "tail"} /\ Loops
    BY <1>3 DEF RevLiteralChunk
  <2> QED
    BY <1>3, <2>1, GoingIs, RevLiteralChunkKeeps, LoopKeepsInv
<1>4. CASE RevLiteralRest
  <2>1. pc \in {"call", "chunks", "tail"} /\ Loops
    BY <1>4 DEF RevLiteralRest
  <2> QED
    BY <1>4, <2>1, GoingIs, RevLiteralRestKeeps, LoopKeepsInv
<1> QED
  BY <1>1, <1>2, <1>3, <1>4 DEF RevLiteralStep

RevTeddyStep == CallRevTeddy \/ RevTeddyPair \/ RevTeddyChunk \/ RevTeddyTail
LEMMA RevTeddyStepKeepsInv ==
  ASSUME IInv, RevTeddyStep
  PROVE  IInv'
<1>1. CASE CallRevTeddy
  <2>1. pc \in {"call", "chunks", "tail"} /\ Loops
    BY <1>1 DEF CallRevTeddy
  <2> QED
    BY <1>1, <2>1, GoingIs, CallRevTeddyKeeps, LoopKeepsInv
<1>2. CASE RevTeddyPair
  <2>1. pc \in {"call", "chunks", "tail"} /\ Loops
    BY <1>2 DEF RevTeddyPair
  <2> QED
    BY <1>2, <2>1, GoingIs, RevTeddyPairKeeps, LoopKeepsInv
<1>3. CASE RevTeddyChunk
  <2>1. pc \in {"call", "chunks", "tail"} /\ Loops
    BY <1>3 DEF RevTeddyChunk
  <2> QED
    BY <1>3, <2>1, GoingIs, RevTeddyChunkKeeps, LoopKeepsInv
<1>4. CASE RevTeddyTail
  <2>1. pc \in {"call", "chunks", "tail"} /\ Loops
    BY <1>4 DEF RevTeddyTail
  <2> QED
    BY <1>4, <2>1, GoingIs, RevTeddyTailKeeps, LoopKeepsInv
<1> QED
  BY <1>1, <1>2, <1>3, <1>4 DEF RevTeddyStep

-----------------------------------------------------------------------------
LEMMA InitInv == Init => IInv
<1> SUFFICES ASSUME Init
             PROVE  IInv
  OBVIOUS
<1>1. PICK q \in Requests : \E op \in q.ops, arch \in q.archs, h \in q.hays, skip \in q.skips :
          /\ skip <= Len(h) /\ (op \in {"all", "setfwd", "setrev"} => skip = 0)
          /\ ask = [op |-> op, arch |-> arch, sets |-> q.sets, common |-> q.common, hay |-> h,
                    from |-> IF op \in Reverse THEN Len(h) - skip ELSE skip]
          /\ op = "rev" => h # <<>>
  BY DEF Init
<1>2. PICK op \in q.ops, arch \in q.archs, h \in q.hays, skip \in q.skips :
          /\ skip <= Len(h) /\ (op \in {"all", "setfwd", "setrev"} => skip = 0)
          /\ ask = [op |-> op, arch |-> arch, sets |-> q.sets, common |-> q.common, hay |-> h,
                    from |-> IF op \in Reverse THEN Len(h) - skip ELSE skip]
          /\ op = "rev" => h # <<>>
  BY <1>1
<1>3. /\ op \in {"strict", "all", "fwd", "rev", "setfwd", "setrev"}
      /\ q.sets \in Seq(SUBSET Bytes) /\ q.sets # <<>>
      /\ op \in {"setfwd", "setrev"} => Len(q.sets) = 1
      /\ skip \in Nat /\ h \in Seq(Bytes)
  BY <1>2, SearchRequests
<1>4. /\ ask.op = op /\ ask.sets = q.sets /\ ask.hay = h
      /\ ask.from = IF op \in Reverse THEN Len(h) - skip ELSE skip
  BY <1>2
<1>5. Len(h) \in Nat /\ skip \in 0 .. Len(h) /\ Len(h) - skip \in 0 .. Len(h)
  BY <1>2, <1>3
<1>6. AskInv
  <2>1. ask.from \in 0 .. Len(ask.hay)
    BY <1>4, <1>5
  <2>2. ask.op = "all" => ask.from = 0
    BY <1>2, <1>4, <1>5 DEF Reverse
  <2>3. ask.sets \in Row
    BY <1>3, <1>4 DEF Row
  <2> QED
    BY <1>2, <1>3, <1>4, <2>1, <2>2, <2>3 DEF AskInv
<1>7. /\ pc = "build" /\ result = None /\ matches = <<>> /\ reads = {}
  BY DEF Init
<1>8. RunInv
  BY <1>7 DEF RunInv, Running
<1> QED
  BY <1>6, <1>7, <1>8 DEF IInv, NothingSkipped, FoundThere, AllFound, ReadsInside

LEMMA StutterKeepsInv ==
  ASSUME IInv, UNCHANGED vars
  PROVE  IInv'
<1>1. /\ ask' = ask /\ s' = s /\ run' = run /\ pc' = pc /\ pos' = pos /\ found' = found /\ result' = result
      /\ matches' = matches /\ reads' = reads
  BY DEF vars
<1>2. Loops
  BY <1>1 DEF Loops
<1>3. /\ AskInv' <=> AskInv
      /\ SearcherRuns' <=> SearcherRuns
      /\ N' = N /\ Hits' = Hits
  BY <1>2, LoopsUnchanged
<1>4. LoopAt(pc, pos)' <=> LoopAt(pc, pos)
  <2>1. RevEnd' = RevEnd /\ Gap' = Gap /\ MinPos' = MinPos
    BY <1>1, <1>3 DEF RevEnd, LastByte, Gap, MinPos
  <2> QED
    BY <1>1, <1>3, <2>1 DEF LoopAt, SetIs, Is
<1>5. CollectAt(pc, pos, matches)' <=> CollectAt(pc, pos, matches)
  BY <1>1, <1>3 DEF CollectAt, Greedy
<1>6. Answer(found)' <=> Answer(found)
  BY <1>1, <1>3 DEF Answer, Onward
<1>7. RunInv'
  BY <1>1, <1>3, <1>4, <1>5, <1>6 DEF IInv, RunInv
<1>8. NothingSkipped' /\ FoundThere' /\ AllFound' /\ ReadsInside'
  <2>1. Sets' = Sets /\ HayLen' = HayLen /\ Forward' = Forward /\ Spots' = Spots /\ Part' = Part
    BY <1>1 DEF Spots, Forward, FitsAt, EndsAt, Sets, HayLen, Part
  <2>2. NothingSkipped' <=> NothingSkipped
    BY <1>1, <2>1 DEF NothingSkipped
  <2>3. FoundThere' <=> FoundThere
    BY <1>1, <2>1 DEF FoundThere
  <2>4. AllFound' <=> AllFound
    BY <1>1, <2>1 DEF AllFound, FitsAt
  <2>5. ReadsInside' <=> ReadsInside
    BY <1>1, <1>3 DEF ReadsInside
  <2> QED
    BY <2>2, <2>3, <2>4, <2>5 DEF IInv
<1> QED
  BY <1>3, <1>7, <1>8 DEF IInv

LEMMA StepKeepsInv == IInv /\ [Next]_vars => IInv'
<1> SUFFICES ASSUME IInv, [Next]_vars
             PROVE  IInv'
  OBVIOUS
<1>1. CASE BuildStrict \/ BuildFwd \/ BuildRev \/ BuildSet
  BY <1>1, BuildKeepsInv
<1>2. CASE SetStep
  BY <1>2, SetStepKeepsInv
<1>3. CASE LiteralStep
  BY <1>3, LiteralStepKeepsInv
<1>4. CASE RowStep
  BY <1>4, RowStepKeepsInv
<1>5. CASE RevLiteralStep
  BY <1>5, RevLiteralStepKeepsInv
<1>6. CASE RevTeddyStep
  BY <1>6, RevTeddyStepKeepsInv
<1>7. CASE Finish
  BY <1>7, FinishKeepsInv
<1>8. CASE UNCHANGED vars
  BY <1>8, StutterKeepsInv
<1> QED
  BY <1>1, <1>2, <1>3, <1>4, <1>5, <1>6, <1>7, <1>8
     DEF Next, SetStep, LiteralStep, RowStep, RevLiteralStep, RevTeddyStep

LEMMA AlwaysIInv == Spec => []IInv
<1> QED
  BY InitInv, StepKeepsInv, PTL DEF Spec

(* A search never passes over a place where all the sets of its request    *)
(* match, whatever the row, the haystack and the searcher that was built   *)
(* for it, and however the loop cuts the haystack into vectors.            *)
THEOREM NothingSkippedHolds == Spec => []NothingSkipped
<1>1. IInv => NothingSkipped
  BY DEF IInv
<1> QED
  BY <1>1, AlwaysIInv, PTL

(* What a search returns is a place where the part of the row that it      *)
(* searches for stands: no vector filter and no coarse range lets another  *)
(* place through.                                                          *)
THEOREM FoundThereHolds == Spec => []FoundThere
<1>1. IInv => FoundThere
  BY DEF IInv
<1> QED
  BY <1>1, AlwaysIInv, PTL

(* A search for all collects every match that begins where the last one    *)
(* ended or later, and no other, although its candidates come a vector at  *)
(* a time.                                                                 *)
THEOREM AllFoundHolds == Spec => []AllFound
<1>1. IInv => AllFound
  BY DEF IInv
<1> QED
  BY <1>1, AlwaysIInv, PTL

(* No step reads outside the haystack of its run: neither a vector that is *)
(* loaded from a pointer nor the bytes that a candidate is compared with.  *)
THEOREM ReadsInsideHolds == Spec => []ReadsInside
<1>1. IInv => ReadsInside
  BY DEF IInv
<1> QED
  BY <1>1, AlwaysIInv, PTL
=============================================================================
