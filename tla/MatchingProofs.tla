--------------------------- MODULE MatchingProofs ---------------------------
(***************************************************************************)
(* Lemmas about runs and the ends they report.                             *)
(***************************************************************************)
EXTENDS Matching, WellFoundedInduction, TLAPS

(* A set of positions that is not empty has a first one: induction along   *)
(* the input is done by looking at the first position where it fails.      *)
LEMMA FirstPosition ==
  ASSUME NEW T \in SUBSET Nat, T # {}
  PROVE  \E m \in T : \A n \in T : m <= n
<1> DEFINE Less == {ss \in Nat \X Nat : ss[1] < ss[2]}
<1>1. IsWellFoundedOn(Less, Nat)
  BY NatLessThanWellFounded DEF OpToRel
<1>2. PICK m \in T : \A n \in T : ~ (<<n, m>> \in Less)
  <2> HIDE DEF Less
  <2> QED
    BY <1>1, WFMin
<1>3. \A n \in T : ~ (n < m)
  BY <1>2
<1> QED
  BY <1>3

-----------------------------------------------------------------------------
(* Runs.                                                                   *)
LEMMA RunSteps ==
  ASSUME NEW a, WellFormed(a), NEW x, IsInput(x), NEW i \in 0 .. Len(x),
         NEW s, NEW r \in RunsFrom(a, x, i, s)
  PROVE  /\ Len(a.delta) \in Nat /\ DOMAIN a.delta = 1 .. Len(a.delta)
         /\ r \in [i .. Len(x) -> 1 .. Len(a.delta)]
         /\ r[i] = s
         /\ i = 0 => r[1] = a.begin[Byte(x, 0)]
         /\ \A p \in i .. Len(x) - 1 : p # 0 => r[p + 1] = a.delta[r[p]][Byte(x, p)]
<1>1. Len(x) \in Nat \ {0}
  BY DEF IsInput
<1>2. a.delta \in [1 .. Len(a.delta) -> [Minterm -> 1 .. Len(a.delta)]]
  BY DEF WellFormed, AutomatonType
<1>3. Len(a.delta) \in Nat
  BY DEF WellFormed, AutomatonType
<1> QED
  BY <1>1, <1>2, <1>3 DEF RunsFrom

(* There is at most one run from a position.                               *)
LEMMA RunUnique ==
  ASSUME NEW a, WellFormed(a), NEW x, IsInput(x), NEW i \in 0 .. Len(x),
         NEW s, NEW r \in RunsFrom(a, x, i, s), NEW t \in RunsFrom(a, x, i, s)
  PROVE  r = t
<1> DEFINE Apart == {p \in i .. Len(x) : r[p] # t[p]}
<1>1. Len(x) \in Nat
  BY DEF IsInput
<1>2. SUFFICES ASSUME Apart # {} PROVE FALSE
  <2>1. r \in [i .. Len(x) -> 1 .. Len(a.delta)] /\ t \in [i .. Len(x) -> 1 .. Len(a.delta)]
    BY RunSteps
  <2> QED
    BY <1>2, <2>1
<1>3. PICK m \in Apart : \A n \in Apart : m <= n
  <2>1. Apart \in SUBSET Nat
    BY <1>1
  <2> HIDE DEF Apart
  <2> QED
    BY <1>2, <2>1, FirstPosition
<1>4. m # i
  BY <1>3, RunSteps
<1>5. m - 1 \in i .. Len(x) - 1 /\ r[m - 1] = t[m - 1]
  BY <1>1, <1>3, <1>4
<1>6. CASE m - 1 = 0
  BY <1>1, <1>3, <1>5, <1>6, RunSteps
<1>7. CASE m - 1 # 0
  BY <1>1, <1>3, <1>5, <1>7, RunSteps
<1> QED
  BY <1>6, <1>7

(* A run stays in a state that loops on all bytes up to position q.        *)
LEMMA RunLoops ==
  ASSUME NEW a, WellFormed(a), NEW x, IsInput(x), NEW i \in 0 .. Len(x),
         NEW s, NEW r \in RunsFrom(a, x, i, s), NEW p \in i .. Len(x), NEW q \in p .. Len(x),
         p > 0, \A k \in p .. q - 1 : a.delta[r[p]][Byte(x, k)] = r[p]
  PROVE  \A k \in p .. q : r[k] = r[p]
<1> DEFINE Left == {k \in p .. q : r[k] # r[p]}
<1>1. Len(x) \in Nat
  BY DEF IsInput
<1>2. SUFFICES ASSUME Left # {} PROVE FALSE
  OBVIOUS
<1>3. PICK m \in Left : \A n \in Left : m <= n
  <2>1. Left \in SUBSET Nat
    BY <1>1
  <2> HIDE DEF Left
  <2> QED
    BY <1>2, <2>1, FirstPosition
<1>4. m - 1 \in p .. q - 1 /\ r[m - 1] = r[p]
  BY <1>1, <1>3
<1>5. m - 1 \in i .. Len(x) - 1 /\ m - 1 # 0 /\ (m - 1) + 1 = m
  BY <1>1, <1>3, <1>4
<1>6. r[m] = a.delta[r[m - 1]][Byte(x, m - 1)]
  BY <1>5, RunSteps
<1> QED
  BY <1>3, <1>4, <1>6

LEMMA RunDead ==
  ASSUME NEW a, WellFormed(a), NEW x, IsInput(x), NEW i \in 0 .. Len(x),
         NEW s, NEW r \in RunsFrom(a, x, i, s), NEW p \in i .. Len(x), p > 0, r[p] = DEAD
  PROVE  \A k \in p .. Len(x) : r[k] = DEAD
<1>1. Len(x) \in Nat
  BY DEF IsInput
<1>2. \A k \in p .. Len(x) - 1 : Byte(x, k) \in Minterm
  BY <1>1 DEF IsInput, Byte
<1>3. \A k \in p .. Len(x) - 1 : a.delta[DEAD][Byte(x, k)] = DEAD
  BY <1>2 DEF WellFormed
<1> QED
  BY <1>1, <1>3, RunLoops

-----------------------------------------------------------------------------
(* Ends.                                                                   *)
(* No end lies before the start of the match.                              *)
EndAt(a, x, r, p, b) ==
  IF RelAt(a, x, r, p) = NoRel THEN b ELSE MaxOf(b, p - RelAt(a, x, r, p))

IsLongest(e, a, x, r, p0, p1) ==
  /\ e \in Ends(a, x, r, p0, p1) \cup {NoMatch}
  /\ \A f \in Ends(a, x, r, p0, p1) : f <= e

LEMMA RelType ==
  ASSUME NEW a, WellFormed(a), NEW x, IsInput(x), NEW i \in 0 .. Len(x),
         NEW s, NEW r \in RunsFrom(a, x, i, s), NEW p \in i .. Len(x)
  PROVE  RelAt(a, x, r, p) \in Nat \cup {NoRel}
<1>1. r[p] \in 1 .. Len(a.delta)
  BY RunSteps DEF IsInput
<1>2. /\ a.center \in [1 .. Len(a.delta) -> Nat \cup {NoRel}]
      /\ a.end \in [1 .. Len(a.delta) -> Nat \cup {NoRel}]
  BY DEF WellFormed, AutomatonType
<1> QED
  BY <1>1, <1>2 DEF RelAt

LEMMA EndsInside ==
  ASSUME NEW a, WellFormed(a), NEW x, IsInput(x), EndsFollowStarts(a, x),
         NEW i \in 0 .. Len(x), NEW r \in Runs(a, x, i),
         NEW p0 \in i .. Len(x), NEW p1 \in Int, p1 <= Len(x)
  PROVE  /\ Ends(a, x, r, p0, p1) \subseteq i .. Len(x)
         /\ \A f \in Ends(a, x, r, p0, p1) : f <= p1
<1>1. Len(x) \in Nat
  BY DEF IsInput
<1>2. ASSUME NEW p \in p0 .. p1, RelAt(a, x, r, p) # NoRel
      PROVE  p - RelAt(a, x, r, p) \in i .. Len(x) /\ p - RelAt(a, x, r, p) <= p1
  BY <1>1, <1>2, RelType DEF Runs, EndsFollowStarts, NoRel
<1> QED
  BY <1>2 DEF Ends

LEMMA LongestDefined ==
  ASSUME NEW a, WellFormed(a), NEW x, IsInput(x), EndsFollowStarts(a, x),
         NEW i \in 0 .. Len(x), NEW r \in Runs(a, x, i),
         NEW p0 \in i .. Len(x), NEW p1 \in Int, p1 <= Len(x),
         NEW e, IsLongest(e, a, x, r, p0, p1)
  PROVE  LongestUpTo(a, x, r, p0, p1) = e /\ e \in i .. Len(x) \cup {NoMatch}
<1> DEFINE E == Ends(a, x, r, p0, p1)
<1>1. E \subseteq Nat /\ E \subseteq i .. Len(x)
  BY EndsInside DEF IsInput
<1>2. \A f, g \in E \cup {NoMatch} :
        (\A h \in E : h <= f) /\ (\A h \in E : h <= g) => f = g
  BY <1>1 DEF NoMatch
<1>3. e \in E \cup {NoMatch} /\ \A f \in E : f <= e
  BY DEF IsLongest
<1>4. LongestUpTo(a, x, r, p0, p1) = CHOOSE g \in E \cup {NoMatch} : \A f \in E : f <= g
  BY DEF LongestUpTo
<1> HIDE DEF E
<1> QED
  BY <1>1, <1>2, <1>3, <1>4

LEMMA LongestEmpty ==
  ASSUME NEW a, NEW x, NEW r, NEW p0 \in Nat
  PROVE  IsLongest(NoMatch, a, x, r, p0, p0 - 1)
  BY DEF IsLongest, Ends

(* There is a largest end, if there is one at all.                         *)
LEMMA LongestExists ==
  ASSUME NEW a, WellFormed(a), NEW x, IsInput(x), EndsFollowStarts(a, x),
         NEW i \in 0 .. Len(x), NEW r \in Runs(a, x, i),
         NEW p0 \in i .. Len(x), NEW p1 \in Int, p1 <= Len(x)
  PROVE  IsLongest(LongestUpTo(a, x, r, p0, p1), a, x, r, p0, p1)
<1> DEFINE n == Len(x)
           E == Ends(a, x, r, p0, p1)
           D == {k \in Nat : k <= n /\ n - k \in E}
<1>1. n \in Nat /\ E \subseteq i .. n /\ i \in Nat
  BY EndsInside DEF IsInput
<1>2. LongestUpTo(a, x, r, p0, p1) = CHOOSE m \in E \cup {NoMatch} : \A f \in E : f <= m
  BY DEF LongestUpTo
<1>3. \E m \in E \cup {NoMatch} : \A f \in E : f <= m
  <2>1. CASE E = {}
    BY <2>1
  <2>2. CASE E # {}
    <3>1. \A f \in E : n - f \in D /\ f \in Int
      <4> TAKE f \in E
      <4>1. f \in i .. n
        BY <1>1
      <4>2. f \in Int /\ n - f \in Nat /\ n - f <= n /\ n - (n - f) = f
        BY <1>1, <4>1
      <4> HIDE DEF E, n
      <4> QED
        BY <4>2
    <3>2. D \in SUBSET Nat /\ D # {}
      <4>1. D \in SUBSET Nat
        OBVIOUS
      <4> HIDE DEF D, E
      <4> QED
        BY <2>2, <3>1, <4>1
    <3>3. PICK m \in D : \A k \in D : m <= k
      <4> HIDE DEF D
      <4> QED
        BY <3>2, FirstPosition
    <3>4. m \in Nat /\ n - m \in E
      BY <3>3
    <3>5. \A f \in E : f <= n - m
      <4> TAKE f \in E
      <4>1. m <= n - f /\ f \in Int
        BY <3>1, <3>3
      <4> QED
        BY <1>1, <3>4, <4>1
    <3> HIDE DEF E, n
    <3> QED
      BY <3>4, <3>5
  <2> QED
    BY <2>1, <2>2
<1> HIDE DEF E
<1>4. /\ LongestUpTo(a, x, r, p0, p1) \in E \cup {NoMatch}
      /\ \A f \in E : f <= LongestUpTo(a, x, r, p0, p1)
  BY <1>2, <1>3
<1> QED
  BY <1>4 DEF IsLongest, E

(* The ends up to one position more.                                       *)
LEMMA EndsStep ==
  ASSUME NEW a, NEW x, NEW r, NEW p0 \in Nat, NEW p \in Nat, p0 <= p
  PROVE  Ends(a, x, r, p0, p) =
           Ends(a, x, r, p0, p - 1)
             \cup IF RelAt(a, x, r, p) = NoRel THEN {} ELSE {p - RelAt(a, x, r, p)}
<1>1. p0 .. p = (p0 .. p - 1) \cup {p}
  OBVIOUS
<1> QED
  BY <1>1 DEF Ends

(* Looking at the position that follows those looked at, or again at the   *)
(* last of them.                                                           *)
LEMMA LongestStep ==
  ASSUME NEW a, WellFormed(a), NEW x, IsInput(x), EndsFollowStarts(a, x),
         NEW i \in 0 .. Len(x), NEW r \in Runs(a, x, i),
         NEW p0 \in i .. Len(x), NEW p \in p0 .. Len(x), NEW b,
         IsLongest(b, a, x, r, p0, p - 1) \/ IsLongest(b, a, x, r, p0, p)
  PROVE  IsLongest(EndAt(a, x, r, p, b), a, x, r, p0, p)
<1>1. Len(x) \in Nat
  BY DEF IsInput
<1> DEFINE E == Ends(a, x, r, p0, p - 1)
           F == Ends(a, x, r, p0, p)
           rel == RelAt(a, x, r, p)
<1>2. rel \in Nat \cup {NoRel}
  BY <1>1, RelType DEF Runs
<1>3. E \subseteq Nat /\ F \subseteq Nat
  BY <1>1, EndsInside
<1>6. p0 \in Nat /\ p \in Nat /\ p0 <= p
  BY <1>1
<1>4. F = E \cup (IF rel = NoRel THEN {} ELSE {p - rel})
  BY <1>6, EndsStep
<1>5. \/ b \in E \cup {NoMatch} /\ \A f \in E : f <= b
      \/ b \in F \cup {NoMatch} /\ \A f \in F : f <= b
  BY DEF IsLongest
<1> SUFFICES /\ EndAt(a, x, r, p, b) \in F \cup {NoMatch}
             /\ \A f \in F : f <= EndAt(a, x, r, p, b)
  BY DEF IsLongest
<1>7. EndAt(a, x, r, p, b) = IF rel = NoRel THEN b ELSE MaxOf(b, p - rel)
  BY DEF EndAt
<1> HIDE DEF E, F, rel
<1>8. CASE rel = NoRel
  BY <1>4, <1>5, <1>7, <1>8
<1>9. CASE rel # NoRel
  <2>1. rel \in Nat /\ p - rel \in F
    BY <1>2, <1>4, <1>9 DEF NoRel
  <2>2. b \in E \cup {NoMatch, p - rel} /\ \A f \in E : f <= b
    BY <1>4, <1>5, <1>9
  <2>3. b \in Int /\ p - rel \in Int /\ b \in F \cup {NoMatch}
    BY <1>3, <1>4, <1>6, <2>1, <2>2 DEF NoMatch
  <2>4. \A f \in F : f \in E \/ f = p - rel
    BY <1>4
  <2>5. \A f \in F : f \in Int
    BY <1>3
  <2> QED
    BY <1>7, <1>9, <2>1, <2>2, <2>3, <2>4, <2>5 DEF MaxOf
<1> QED
  BY <1>8, <1>9

(* Positions that report nothing add no end.                               *)
LEMMA LongestQuiet ==
  ASSUME NEW a, NEW x, NEW r, NEW p0 \in Nat, NEW p \in Nat, NEW q \in Nat,
         p0 <= p + 1, p <= q, NEW b, IsLongest(b, a, x, r, p0, p),
         \A k \in p + 1 .. q : RelAt(a, x, r, k) = NoRel
  PROVE  IsLongest(b, a, x, r, p0, q)
<1>1. {k \in p0 .. q : RelAt(a, x, r, k) # NoRel} = {k \in p0 .. p : RelAt(a, x, r, k) # NoRel}
  OBVIOUS
<1>2. Ends(a, x, r, p0, q) = Ends(a, x, r, p0, p)
  BY <1>1 DEF Ends
<1> QED
  BY <1>2 DEF IsLongest

(* Nor does a dead state.                                                  *)
LEMMA LongestDead ==
  ASSUME NEW a, WellFormed(a), NEW x, IsInput(x),
         NEW i \in 0 .. Len(x), NEW s, NEW r \in RunsFrom(a, x, i, s),
         NEW p0 \in i .. Len(x), NEW p \in p0 .. Len(x), p > 0, r[p] = DEAD, NEW b,
         IsLongest(b, a, x, r, p0, p - 1) \/ IsLongest(b, a, x, r, p0, p)
  PROVE  IsLongest(b, a, x, r, p0, Len(x))
<1>1. Len(x) \in Nat
  BY DEF IsInput
<1>2. \A k \in p .. Len(x) : r[k] = DEAD
  BY RunDead
<1>3. \A k \in p .. Len(x) : RelAt(a, x, r, k) = NoRel
  BY <1>1, <1>2 DEF RelAt, WellFormed
<1>4. CASE IsLongest(b, a, x, r, p0, p - 1)
  BY <1>1, <1>3, <1>4, LongestQuiet
<1>5. CASE IsLongest(b, a, x, r, p0, p)
  BY <1>1, <1>3, <1>5, LongestQuiet
<1> QED
  BY <1>4, <1>5

(* Where a run stays in one state in the middle of the input, the last     *)
(* position reports the largest end.                                       *)
LEMMA LongestLoop ==
  ASSUME NEW a, WellFormed(a), NEW x, IsInput(x), EndsFollowStarts(a, x),
         NEW i \in 0 .. Len(x), NEW r \in Runs(a, x, i),
         NEW p0 \in i .. Len(x), NEW p \in p0 .. Len(x), p > 0,
         NEW q \in p .. Len(x) - 1, \A k \in p .. q : r[k] = r[p], NEW b,
         IsLongest(b, a, x, r, p0, p - 1) \/ IsLongest(b, a, x, r, p0, p)
  PROVE  IsLongest(EndAt(a, x, r, q, b), a, x, r, p0, q)
<1> DEFINE c == a.center[r[p]]
           D == Ends(a, x, r, p0, p - 1)
           E == Ends(a, x, r, p0, p)
           F == Ends(a, x, r, p0, q)
<1>1. Len(x) \in Nat
  BY DEF IsInput
<1>2. \A k \in p .. q : RelAt(a, x, r, k) = c
  BY <1>1 DEF RelAt
<1>3. c \in Nat \cup {NoRel}
  BY <1>1, <1>2, RelType DEF Runs
<1>4. F = D \cup (IF c = NoRel THEN {} ELSE {k - c : k \in p .. q})
  BY <1>1, <1>2 DEF Ends
<1>5. E = D \cup (IF c = NoRel THEN {} ELSE {p - c})
  BY <1>1, <1>2, EndsStep
<1>6. D \subseteq Nat /\ E \subseteq Nat /\ F \subseteq Nat
  BY <1>1, EndsInside
<1>7. \/ b \in D \cup {NoMatch} /\ \A f \in D : f <= b
      \/ b \in E \cup {NoMatch} /\ \A f \in E : f <= b
  BY DEF IsLongest
<1>8. EndAt(a, x, r, q, b) = IF c = NoRel THEN b ELSE MaxOf(b, q - c)
  BY <1>1, <1>2 DEF EndAt
<1> SUFFICES /\ EndAt(a, x, r, q, b) \in F \cup {NoMatch}
             /\ \A f \in F : f <= EndAt(a, x, r, q, b)
  BY DEF IsLongest
<1>9. p \in Nat /\ q \in Nat /\ p <= q
  BY <1>1
<1> HIDE DEF c, D, E, F
<1>10. CASE c = NoRel
  BY <1>4, <1>5, <1>7, <1>8, <1>10
<1>11. CASE c # NoRel
  <2>1. c \in Nat
    BY <1>3, <1>11
  <2>2. b \in D \cup {NoMatch, p - c} /\ \A f \in D : f <= b
    BY <1>5, <1>7, <1>11
  <2>3. b \in Int /\ q - c \in F /\ \A f \in F : f \in D \/ f <= q - c
    BY <1>4, <1>6, <1>9, <1>11, <2>1, <2>2 DEF NoMatch
  <2>4. b \in F \cup {NoMatch}
    BY <1>4, <1>9, <1>11, <2>1, <2>2
  <2> QED
    BY <1>6, <1>8, <1>9, <1>11, <2>1, <2>2, <2>3, <2>4 DEF MaxOf, NoMatch
<1> QED
  BY <1>10, <1>11
-----------------------------------------------------------------------------
(* Runs that begin later.                                                  *)
LEMMA RunTail ==
  ASSUME NEW a, WellFormed(a), NEW x, IsInput(x), NEW i \in 0 .. Len(x),
         NEW s, NEW r \in RunsFrom(a, x, i, s), NEW p \in i .. Len(x)
  PROVE  [k \in p .. Len(x) |-> r[k]] \in RunsFrom(a, x, p, r[p])
<1> DEFINE t == [k \in p .. Len(x) |-> r[k]]
<1>1. Len(x) \in Nat
  BY DEF IsInput
<1>2. r \in [i .. Len(x) -> DOMAIN a.delta]
  BY DEF RunsFrom
<1>3. t \in [p .. Len(x) -> DOMAIN a.delta] /\ t[p] = r[p]
  BY <1>1, <1>2
<1>4. ASSUME NEW k \in p .. Len(x) - 1
      PROVE  t[k + 1] = IF k = 0 THEN a.begin[Byte(x, 0)] ELSE a.delta[t[k]][Byte(x, k)]
  <2>1. k \in i .. Len(x) - 1 /\ t[k] = r[k] /\ t[k + 1] = r[k + 1]
    BY <1>1
  <2> QED
    BY <2>1 DEF RunsFrom
<1> QED
  BY <1>3, <1>4 DEF RunsFrom

(* A run with one position more before it.                                 *)
LEMMA RunBefore ==
  ASSUME NEW a, WellFormed(a), NEW x, IsInput(x), NEW i \in 0 .. Len(x) - 1,
         NEW s \in DOMAIN a.delta, NEW t,
         t = IF i = 0 THEN a.begin[Byte(x, 0)] ELSE a.delta[s][Byte(x, i)],
         NEW r \in RunsFrom(a, x, i + 1, t)
  PROVE  [k \in i .. Len(x) |-> IF k = i THEN s ELSE r[k]] \in RunsFrom(a, x, i, s)
<1> DEFINE u == [k \in i .. Len(x) |-> IF k = i THEN s ELSE r[k]]
<1>1. Len(x) \in Nat
  BY DEF IsInput
<1>2. r \in [i + 1 .. Len(x) -> DOMAIN a.delta] /\ r[i + 1] = t
  BY DEF RunsFrom
<1>3. u \in [i .. Len(x) -> DOMAIN a.delta] /\ u[i] = s
  BY <1>1, <1>2
<1>4. ASSUME NEW k \in i .. Len(x) - 1
      PROVE  u[k + 1] = IF k = 0 THEN a.begin[Byte(x, 0)] ELSE a.delta[u[k]][Byte(x, k)]
  <2>1. CASE k = i
    <3>1. u[k + 1] = r[i + 1] /\ u[k] = s
      BY <1>1, <2>1
    <3> QED
      BY <1>2, <2>1, <3>1
  <2>2. CASE k # i
    <3>1. k \in i + 1 .. Len(x) - 1 /\ u[k] = r[k] /\ u[k + 1] = r[k + 1]
      BY <1>1, <2>2
    <3> QED
      BY <3>1 DEF RunsFrom
  <2> QED
    BY <2>1, <2>2
<1> QED
  BY <1>3, <1>4 DEF RunsFrom

(* The automaton is complete: there is a run from every state.             *)
LEMMA RunExists ==
  ASSUME NEW a, WellFormed(a), NEW x, IsInput(x), NEW i \in 0 .. Len(x),
         NEW s \in DOMAIN a.delta
  PROVE  RunsFrom(a, x, i, s) # {}
<1>1. Len(x) \in Nat
  BY DEF IsInput
<1>2. /\ a.delta \in [1 .. Len(a.delta) -> [Minterm -> 1 .. Len(a.delta)]]
      /\ a.begin \in [Minterm -> 1 .. Len(a.delta)]
  BY DEF WellFormed, AutomatonType
<1>3. DOMAIN a.delta = 1 .. Len(a.delta)
  BY <1>2
<1> DEFINE Stuck == {n \in 0 .. Len(x) : \E u \in DOMAIN a.delta : RunsFrom(a, x, Len(x) - n, u) = {}}
<1>4. SUFFICES Stuck = {}
  <2>1. Len(x) - i \in 0 .. Len(x) /\ Len(x) - (Len(x) - i) = i
    BY <1>1
  <2> QED
    BY <1>4, <2>1
<1>5. SUFFICES ASSUME Stuck # {} PROVE FALSE
  OBVIOUS
<1>6. PICK m \in Stuck : \A n \in Stuck : m <= n
  <2>1. Stuck \in SUBSET Nat
    BY <1>1
  <2> HIDE DEF Stuck
  <2> QED
    BY <1>5, <2>1, FirstPosition
<1>7. PICK u \in DOMAIN a.delta : RunsFrom(a, x, Len(x) - m, u) = {}
  BY <1>6
<1>8. CASE m = 0
  <2>1. [k \in Len(x) .. Len(x) |-> u] \in RunsFrom(a, x, Len(x), u)
    BY <1>1 DEF RunsFrom
  <2> QED
    BY <1>1, <1>7, <1>8, <2>1
<1>9. CASE m # 0
  <2> DEFINE q == Len(x) - m
             t == IF q = 0 THEN a.begin[Byte(x, 0)] ELSE a.delta[u][Byte(x, q)]
  <2>1. q \in 0 .. Len(x) - 1 /\ m - 1 \in 0 .. Len(x) /\ Len(x) - (m - 1) = q + 1
    BY <1>1, <1>6, <1>9
  <2>2. Byte(x, q) \in Minterm
    BY <1>1, <2>1 DEF Byte, IsInput
  <2>3. t \in DOMAIN a.delta
    <3>1. q = 0 => Byte(x, 0) \in Minterm
      BY <2>2
    <3>2. u \in DOMAIN a.delta
      BY <1>7
    <3>3. a.delta[u][Byte(x, q)] \in DOMAIN a.delta /\ (q = 0 => a.begin[Byte(x, 0)] \in DOMAIN a.delta)
      BY <1>2, <1>3, <2>2, <3>1, <3>2
    <3> QED
      BY <3>3
  <2>4. m - 1 \notin Stuck
    BY <1>1, <1>6, <1>9
  <2>5. PICK r \in RunsFrom(a, x, q + 1, t) : TRUE
    BY <2>1, <2>3, <2>4
  <2>6. t = IF q = 0 THEN a.begin[Byte(x, 0)] ELSE a.delta[u][Byte(x, q)]
    OBVIOUS
  <2> HIDE DEF q, t
  <2>7. RunsFrom(a, x, q, u) # {}
    BY <1>7, <2>1, <2>5, <2>6, RunBefore
  <2> QED
    BY <1>7, <2>7 DEF q
<1> QED
  BY <1>8, <1>9

-----------------------------------------------------------------------------
(* Whether an end is reported at a position or after it.                   *)
EndAhead(a, x, s, q) ==
  \E r \in RunsFrom(a, x, q, s) : Ends(a, x, r, q, Len(x)) # {}

LEMMA EndsAnywhere ==
  ASSUME NEW a, NEW x, NEW r, NEW p0, NEW p1
  PROVE  Ends(a, x, r, p0, p1) # {} <=> \E p \in p0 .. p1 : RelAt(a, x, r, p) # NoRel
  BY DEF Ends

(* The run from a position sees what a run through it sees from there on.  *)
LEMMA EndAheadOnRun ==
  ASSUME NEW a, WellFormed(a), NEW x, IsInput(x), NEW i \in 0 .. Len(x),
         NEW s, NEW r \in RunsFrom(a, x, i, s), NEW q \in i .. Len(x)
  PROVE  EndAhead(a, x, r[q], q) <=> \E p \in q .. Len(x) : RelAt(a, x, r, p) # NoRel
<1> DEFINE t == [k \in q .. Len(x) |-> r[k]]
<1>1. Len(x) \in Nat
  BY DEF IsInput
<1>2. t \in RunsFrom(a, x, q, r[q])
  BY RunTail
<1>3. \A u \in RunsFrom(a, x, q, r[q]) : u = t
  BY <1>1, <1>2, RunUnique
<1>4. EndAhead(a, x, r[q], q) <=> Ends(a, x, t, q, Len(x)) # {}
  BY <1>2, <1>3 DEF EndAhead
<1>5. \A p \in q .. Len(x) : RelAt(a, x, t, p) = RelAt(a, x, r, p)
  BY DEF RelAt
<1>6. Ends(a, x, t, q, Len(x)) # {} <=> \E p \in q .. Len(x) : RelAt(a, x, t, p) # NoRel
  BY EndsAnywhere
<1> HIDE DEF t
<1> QED
  BY <1>4, <1>5, <1>6

LEMMA EndAheadLast ==
  ASSUME NEW a, WellFormed(a), NEW x, IsInput(x), NEW s \in DOMAIN a.delta
  PROVE  EndAhead(a, x, s, Len(x)) <=> a.end[s] # NoRel
<1>1. Len(x) \in Nat
  BY DEF IsInput
<1>2. PICK r \in RunsFrom(a, x, Len(x), s) : TRUE
  BY <1>1, RunExists
<1>3. r[Len(x)] = s /\ Len(x) .. Len(x) = {Len(x)}
  BY <1>1, <1>2 DEF RunsFrom
<1>4. EndAhead(a, x, r[Len(x)], Len(x)) <=> \E p \in Len(x) .. Len(x) : RelAt(a, x, r, p) # NoRel
  BY <1>1, <1>2, EndAheadOnRun
<1> QED
  BY <1>3, <1>4 DEF RelAt

LEMMA EndAheadStep ==
  ASSUME NEW a, WellFormed(a), NEW x, IsInput(x), NEW s \in DOMAIN a.delta,
         NEW q \in 1 .. Len(x) - 1
  PROVE  EndAhead(a, x, s, q) <=>
           \/ a.center[s] # NoRel
           \/ EndAhead(a, x, a.delta[s][Byte(x, q)], q + 1)
<1>1. Len(x) \in Nat
  BY DEF IsInput
<1>2. PICK r \in RunsFrom(a, x, q, s) : TRUE
  BY <1>1, RunExists
<1>3. r[q] = s /\ r[q + 1] = a.delta[s][Byte(x, q)] /\ q \in 0 .. Len(x) /\ q + 1 \in q .. Len(x)
  BY <1>1, <1>2, RunSteps
<1>4. EndAhead(a, x, s, q) <=> \E p \in q .. Len(x) : RelAt(a, x, r, p) # NoRel
  BY <1>1, <1>2, <1>3, EndAheadOnRun
<1>5. EndAhead(a, x, r[q + 1], q + 1) <=> \E p \in q + 1 .. Len(x) : RelAt(a, x, r, p) # NoRel
  BY <1>1, <1>2, <1>3, EndAheadOnRun
<1>6. RelAt(a, x, r, q) = a.center[s]
  BY <1>1, <1>3 DEF RelAt
<1>7. q .. Len(x) = {q} \cup (q + 1 .. Len(x))
  BY <1>1
<1> QED
  BY <1>3, <1>4, <1>5, <1>6, <1>7

LEMMA EndAheadDead ==
  ASSUME NEW a, WellFormed(a), NEW x, IsInput(x), NEW q \in 1 .. Len(x)
  PROVE  ~ EndAhead(a, x, DEAD, q)
<1>1. Len(x) \in Nat /\ q \in 0 .. Len(x)
  BY DEF IsInput
<1>2. DEAD \in DOMAIN a.delta
  BY DEF WellFormed, AutomatonType, DEAD
<1>3. PICK r \in RunsFrom(a, x, q, DEAD) : TRUE
  BY <1>1, <1>2, RunExists
<1>4. r[q] = DEAD /\ q \in q .. Len(x)
  BY <1>1, <1>3 DEF RunsFrom
<1>5. \A k \in q .. Len(x) : r[k] = DEAD
  BY <1>1, <1>3, <1>4, RunDead
<1>6. \A k \in q .. Len(x) : RelAt(a, x, r, k) = NoRel
  BY <1>1, <1>5 DEF RelAt, WellFormed
<1> QED
  BY <1>1, <1>3, <1>4, <1>6, EndAheadOnRun
-----------------------------------------------------------------------------
(* Matches that are the leftmost-longest ones as far as they go.           *)
Matched(a, x, ms) ==
  \A k \in 1 .. Len(ms) :
    /\ ms[k][1] \in Nulls(a, x)
    /\ ms[k][1] >= StartsAfter(ms, k - 1)
    /\ \A i \in Nulls(a, x) : i >= StartsAfter(ms, k - 1) => ms[k][1] <= i
    /\ \A r \in Runs(a, x, ms[k][1]) : ms[k][2] = Longest(a, x, r, ms[k][1])

(* The match of start i that ends at e is the one after the matches ms.    *)
Follows(a, x, ms, i, e) ==
  /\ i \in Nulls(a, x) /\ i >= StartsAfter(ms, Len(ms))
  /\ \A j \in Nulls(a, x) : j >= StartsAfter(ms, Len(ms)) => i <= j
  /\ \A r \in Runs(a, x, i) : e = Longest(a, x, r, i)

LEMMA MatchedNext ==
  ASSUME NEW a, NEW x, NEW S, NEW ms \in Seq(S \X S), Matched(a, x, ms),
         NEW i \in S, NEW e \in S, Follows(a, x, ms, i, e),
         NEW after, after = Append(ms, <<i, e>>)
  PROVE  Matched(a, x, after)
<1> DEFINE n == Len(ms)
<1>1. /\ n \in Nat /\ Len(after) = n + 1
      /\ \A k \in 1 .. n : after[k] = ms[k]
      /\ after[n + 1] = <<i, e>>
      /\ after \in Seq(S \X S)
  OBVIOUS
<1>2. \A k \in 0 .. n : StartsAfter(after, k) = StartsAfter(ms, k)
  BY <1>1 DEF StartsAfter
<1>3. /\ i >= StartsAfter(ms, n)
      /\ \A j \in Nulls(a, x) : j >= StartsAfter(ms, n) => i <= j
      /\ i \in Nulls(a, x) /\ \A r \in Runs(a, x, i) : e = Longest(a, x, r, i)
  BY DEF Follows
<1> DEFINE InPlace(k) ==
             /\ after[k][1] \in Nulls(a, x)
             /\ after[k][1] >= StartsAfter(after, k - 1)
             /\ \A j \in Nulls(a, x) : j >= StartsAfter(after, k - 1) => after[k][1] <= j
             /\ \A r \in Runs(a, x, after[k][1]) : after[k][2] = Longest(a, x, r, after[k][1])
<1>4. ASSUME NEW k \in 1 .. n PROVE InPlace(k)
  <2>1. k - 1 \in 0 .. n /\ after[k] = ms[k]
    BY <1>1
  <2>2. StartsAfter(after, k - 1) = StartsAfter(ms, k - 1)
    BY <1>2, <2>1
  <2> QED
    BY <2>1, <2>2 DEF Matched
<1> HIDE DEF n
<1>5. InPlace(n + 1)
  <2>1. after[n + 1][1] = i /\ after[n + 1][2] = e /\ (n + 1) - 1 = n /\ n \in 0 .. n
    BY <1>1
  <2>2. StartsAfter(after, n) = StartsAfter(ms, n)
    BY <1>2, <2>1
  <2> QED
    BY <1>3, <2>1, <2>2
<1>6. \A k \in 1 .. n + 1 : InPlace(k)
  <2> HIDE DEF InPlace
  <2>1. \A k \in 1 .. n + 1 : k \in 1 .. n \/ k = n + 1
    BY <1>1
  <2> QED
    BY <1>4, <1>5, <2>1
<1>7. Matched(a, x, after)
  <2>1. \A k \in 1 .. Len(after) : InPlace(k)
    BY <1>1, <1>6
  <2> QED
    BY <2>1, Zenon DEF Matched
<1> QED
  BY <1>7
=============================================================================
