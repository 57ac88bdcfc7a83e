------------------------------ MODULE StartSet ------------------------------
(***************************************************************************)
(* What the engine's StartPositions promises: a set of input positions.    *)
(* The reverse pass reports match starts one by one or as ranges, in       *)
(* whatever order the lookaheads resolve them; the forward pass wants each *)
(* of them once.  A call is recorded in `call`, so that an implementation  *)
(* can be held to the set that this very sequence of calls denotes.        *)
(***************************************************************************)
EXTENDS Integers

CONSTANT MaxPos     \* the largest position of the input, a natural number

VARIABLES
  positions,        \* the positions reported since the last clear
  call              \* the last call: its name and its arguments

Position == 0 .. MaxPos

(* The set of positions of the half-open range [lo, hi).                   *)
Span(lo, hi) == lo .. (hi - 1)

Call == [op : {"clear", "add", "add_range"}, lo : 0 .. MaxPos + 1, hi : 0 .. MaxPos + 1]

Init ==
  /\ positions = {}
  /\ call = [op |-> "clear", lo |-> 0, hi |-> 0]

Clear ==
  /\ call' = [op |-> "clear", lo |-> 0, hi |-> 0]
  /\ positions' = {}

Add(p) ==
  /\ call' = [op |-> "add", lo |-> p, hi |-> p + 1]
  /\ positions' = positions \cup {p}

AddRange(lo, hi) ==
  /\ call' = [op |-> "add_range", lo |-> lo, hi |-> hi]
  /\ positions' = positions \cup Span(lo, hi)

Next ==
  \/ Clear
  \/ \E p \in Position : Add(p)
  \/ \E lo, hi \in 0 .. MaxPos + 1 : AddRange(lo, hi)

Spec == Init /\ [][Next]_<<positions, call>>
=============================================================================
