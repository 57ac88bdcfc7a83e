------------------------------ MODULE Matching ------------------------------
(***************************************************************************)
(* What a forward scan of the engine has to find, on an automaton that is  *)
(* complete.  The automaton stands for the regex: its transitions by class *)
(* of bytes and, for each state, whether and where a match ends when the   *)
(* state is reached in the middle (CENTER) or at the end (END) of the      *)
(* input.  The lookaheads of a regex make a match end some bytes before    *)
(* the position that reports it (`rel` of a NullState), its anchors make   *)
(* CENTER and END differ.                                                  *)
(***************************************************************************)
EXTENDS Integers, Sequences, FiniteSets

CONSTANT Minterms   \* the number of byte classes

Minterm == 0 .. Minterms - 1

NoRel == -1
NoMatch == -1       \* the code's usize::MAX, below every position here
DEAD == 1
INITIAL == 2

(* pruned is the state at which scans start away from position 0, begin    *)
(* the row of the first byte of the input, initial where the regex accepts *)
(* the empty string, skips the states a searcher can be built for.         *)
AutomatonType(n) ==
  [delta : [1 .. n -> [Minterm -> 1 .. n]], begin : [Minterm -> 1 .. n],
   pruned : 2 .. n, center : [1 .. n -> Nat \cup {NoRel}],
   end : [1 .. n -> Nat \cup {NoRel}], initial : SUBSET {"begin", "center", "end"},
   skips : SUBSET (2 .. n)]

(* INITIAL and pruned are one regex with and without its \A: they differ   *)
(* at position 0 only.                                                     *)
WellFormed(a) ==
  /\ Len(a.delta) >= 2
  /\ a \in AutomatonType(Len(a.delta))
  /\ a.center[DEAD] = NoRel /\ a.end[DEAD] = NoRel
  /\ \A m \in Minterm : a.delta[DEAD][m] = DEAD
  /\ a.delta[a.pruned] = a.delta[INITIAL]
  /\ a.center[INITIAL] = IF "center" \in a.initial THEN 0 ELSE NoRel
  /\ a.end[INITIAL] = IF "end" \in a.initial THEN 0 ELSE NoRel
  /\ \A s \in a.skips : \E m \in Minterm : a.delta[s][m] = s

IsInput(x) == x \in Seq(Minterm) /\ x # <<>>

MaxOf(a, b) == IF a >= b THEN a ELSE b

Byte(x, p) == x[p + 1]

(* The runs of automaton a over input x from state s at position i (there  *)
(* is one), and those of a match that starts there.                        *)
RunsFrom(a, x, i, s) ==
  {r \in [i .. Len(x) -> DOMAIN a.delta] :
     /\ r[i] = s
     /\ \A p \in i .. Len(x) - 1 :
          r[p + 1] = IF p = 0 THEN a.begin[Byte(x, 0)] ELSE a.delta[r[p]][Byte(x, p)]}

Runs(a, x, i) == RunsFrom(a, x, i, INITIAL)

(* How far before position p the match ends that run r reports there.      *)
RelAt(a, x, r, p) ==
  IF p = Len(x) THEN a.end[r[p]]
  ELSE IF p = 0 THEN IF "begin" \in a.initial THEN 0 ELSE NoRel
  ELSE a.center[r[p]]

(* A match ends where it starts or later: a state looks back no further    *)
(* than the bytes its lookahead has read, and those follow the match.      *)
EndsFollowStarts(a, x) ==
  \A i \in 0 .. Len(x) : \A r \in Runs(a, x, i) : \A p \in i .. Len(x) :
    RelAt(a, x, r, p) <= p - i

(* The ends reported at positions p0 to p1, and the largest of them.       *)
Ends(a, x, r, p0, p1) ==
  {p - RelAt(a, x, r, p) : p \in {q \in p0 .. p1 : RelAt(a, x, r, q) # NoRel}}

LongestUpTo(a, x, r, p0, p1) ==
  CHOOSE e \in Ends(a, x, r, p0, p1) \cup {NoMatch} :
    \A f \in Ends(a, x, r, p0, p1) : f <= e

Longest(a, x, r, p0) == LongestUpTo(a, x, r, p0, Len(x))

(* The positions at which some match starts: what the reverse scan reports.*)
Nulls(a, x) == {i \in 0 .. Len(x) : \E r \in Runs(a, x, i) : Longest(a, x, r, i) # NoMatch}

(* The leftmost-longest matches that do not overlap: each starts at the    *)
(* first possible position not before the end of the match before, and not *)
(* where that one started, and is the longest there.                       *)
StartsAfter(ms, k) == IF k = 0 THEN 0 ELSE MaxOf(ms[k][1] + 1, ms[k][2])

LeftmostLongest(a, x, ms) ==
  LET starts == Nulls(a, x)
  IN /\ \A k \in 1 .. Len(ms) :
          /\ ms[k][1] \in starts
          /\ ms[k][1] >= StartsAfter(ms, k - 1)
          /\ \A i \in starts : i >= StartsAfter(ms, k - 1) => ms[k][1] <= i
          /\ \A r \in Runs(a, x, ms[k][1]) : ms[k][2] = Longest(a, x, r, ms[k][1])
     /\ \A i \in starts : i < StartsAfter(ms, Len(ms))
=============================================================================
