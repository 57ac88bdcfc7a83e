--------------------------- MODULE StartPositions ---------------------------
(***************************************************************************)
(* The start positions of matches, as the engine stores them: half-open    *)
(* runs [lo, hi) in descending order (resharp-algebra, nulls.rs).  The     *)
(* reverse scan walks the input from right to left, so a new position is   *)
(* nearly always at or below the last run; a lookahead with an offset      *)
(* reports pos + rel, which may land anywhere above it, and takes the slow *)
(* path insert_general.                                                    *)
(*                                                                         *)
(* The fallback loop of add_range adds one position per step here.  The    *)
(* caller cannot interleave with it: `todo` holds the positions still to   *)
(* be added and every call waits until it is empty.                        *)
(***************************************************************************)
EXTENDS Integers, Sequences, SequencesExt

CONSTANT MaxPos     \* the largest position of the input

ASSUME PosAssumption == MaxPos \in Nat

VARIABLES
  runs,             \* runs: Vec<(usize, usize)>, the lowest run last
  todo,             \* the part [lo, hi) of an add_range not yet added
  call              \* the last call, see StartSet

vars == <<runs, todo, call>>

Position == 0 .. MaxPos
Bound    == 0 .. MaxPos + 1

Run(lo, hi) == [lo |-> lo, hi |-> hi]
Runs        == [lo : Bound, hi : Bound]
NoRun       == Run(0, 0)

Span(r)    == r.lo .. (r.hi - 1)
Denoted(r) == UNION {Span(r[i]) : i \in 1 .. Len(r)}
Lowest     == runs[Len(runs)]

-----------------------------------------------------------------------------
Init ==
  /\ runs = <<>>
  /\ todo = NoRun
  /\ call = [op |-> "clear", lo |-> 0, hi |-> 0]

Idle == todo.lo >= todo.hi

(* As a bug would have it: a run starting at p is passed over.             *)
InsertIndexLate(r, p) ==
  CHOOSE i \in 1 .. Len(r) + 1 :
    /\ \A j \in 1 .. i - 1 : r[j].lo >= p
    /\ i <= Len(r) => r[i].lo < p

(* The index at which insert_general stops: the first run starting at or   *)
(* below p, or the end of the vector.                                      *)
InsertIndex(r, p) ==
  CHOOSE i \in 1 .. Len(r) + 1 :
    /\ \A j \in 1 .. i - 1 : r[j].lo > p
    /\ i <= Len(r) => r[i].lo <= p

InsertGeneral(p) ==
  LET i == InsertIndex(runs, p) IN
  \/ /\ i <= Len(runs) /\ p < runs[i].hi
     /\ UNCHANGED runs
  \/ /\ ~(i <= Len(runs) /\ p < runs[i].hi)
     /\ runs' = InsertAt(runs, i, Run(p, p + 1))

(* StartPositions::add: below the lowest run it starts a new one or grows  *)
(* it downwards, inside it there is nothing to do, above it the position   *)
(* is inserted where it belongs.                                           *)
AddPos(p) ==
  \/ /\ runs = <<>>
     /\ runs' = <<Run(p, p + 1)>>
  \/ /\ runs # <<>> /\ p + 1 = Lowest.lo
     /\ runs' = [runs EXCEPT ![Len(runs)] = Run(p, Lowest.hi)]
  \/ /\ runs # <<>> /\ p + 1 < Lowest.lo
     /\ runs' = Append(runs, Run(p, p + 1))
  \/ /\ runs # <<>> /\ p \in Span(Lowest)
     /\ UNCHANGED runs
  \/ /\ runs # <<>> /\ p >= Lowest.lo /\ p >= Lowest.hi
     /\ InsertGeneral(p)

Clear ==
  /\ Idle
  /\ call' = [op |-> "clear", lo |-> 0, hi |-> 0]
  /\ runs' = <<>>
  /\ UNCHANGED todo

Add(p) ==
  /\ Idle
  /\ call' = [op |-> "add", lo |-> p, hi |-> p + 1]
  /\ AddPos(p)
  /\ UNCHANGED todo

(* StartPositions::add_range: a range at or below the lowest run is one    *)
(* push; any other one is added position by position, from the top.        *)
AddRange(lo, hi) ==
  /\ Idle
  /\ call' = [op |-> "add_range", lo |-> lo, hi |-> hi]
  /\ \/ /\ lo >= hi
        /\ UNCHANGED <<runs, todo>>
     \/ /\ lo < hi /\ runs = <<>>
        /\ runs' = <<Run(lo, hi)>>
        /\ UNCHANGED todo
     \/ /\ lo < hi /\ runs # <<>> /\ hi = Lowest.lo
        /\ runs' = [runs EXCEPT ![Len(runs)] = Run(lo, Lowest.hi)]
        /\ UNCHANGED todo
     \/ /\ lo < hi /\ runs # <<>> /\ hi < Lowest.lo
        /\ runs' = Append(runs, Run(lo, hi))
        /\ UNCHANGED todo
     \/ /\ lo < hi /\ runs # <<>> /\ hi > Lowest.lo
        /\ todo' = Run(lo, hi)
        /\ UNCHANGED runs

(* As a bug would have it: the loop leaves out the low end.                *)
AddRangeLoopShort ==
  /\ ~Idle
  /\ IF todo.hi - 1 = todo.lo THEN UNCHANGED runs ELSE AddPos(todo.hi - 1)
  /\ todo' = Run(todo.lo, todo.hi - 1)
  /\ UNCHANGED call

AddRangeLoop ==
  /\ ~Idle
  /\ AddPos(todo.hi - 1)
  /\ todo' = Run(todo.lo, todo.hi - 1)
  /\ UNCHANGED call

Next ==
  \/ Clear
  \/ \E p \in Position : Add(p)
  \/ \E lo, hi \in Bound : AddRange(lo, hi)
  \/ AddRangeLoop

Spec == Init /\ [][Next]_vars

-----------------------------------------------------------------------------
(* Every bound of a run lies on the input, whatever is added or inserted.  *)
TypeOK ==
  /\ runs \in Seq(Runs)
  /\ todo \in Runs
  /\ call \in [op : {"clear", "add", "add_range"}, lo : Bound, hi : Bound]

(* The invariant `add` promises to preserve, "descending non-overlapping": *)
(* no run is empty and every run ends at or below the start of the run     *)
(* before it.  Adjacent runs may stay unmerged, as insert_general leaves   *)
(* them.                                                                   *)
Descending ==
  /\ \A i \in 1 .. Len(runs) : runs[i].lo < runs[i].hi
  /\ \A i, j \in 1 .. Len(runs) : i < j => runs[j].hi <= runs[i].lo

(* The runs implement the set of positions: whatever the order, overlap or *)
(* repetition of the calls, no position is lost and none is invented.  The *)
(* positions of a pending fallback loop count as added.                    *)
Abstract == INSTANCE StartSet WITH positions <- Denoted(runs) \cup Span(todo)

ImplementsStartSet == Abstract!Spec
=============================================================================
