--------------------------- MODULE SampleAutomata ---------------------------
(***************************************************************************)
(* The automata the scans are checked on, over two byte classes: every     *)
(* table of transitions on three states, with acceptance at CENTER and at  *)
(* END alike or, as \A, \z and complements of them make possible, not; and *)
(* a few of a form of their own.                                           *)
(***************************************************************************)
EXTENDS Matching

None == NoRel

Row2(s, t) == [m \in Minterm |-> IF m = 0 THEN s ELSE t]
DeadRow == Row2(DEAD, DEAD)

Loops(delta) == {s \in 2 .. Len(delta) : \E m \in Minterm : delta[s][m] = s}

Automaton(delta, begin, center, end, initial) ==
  [delta |-> delta, begin |-> begin, pruned |-> INITIAL, center |-> center,
   end |-> end, initial |-> initial, skips |-> Loops(delta)]

(* The third state is reached from INITIAL, tables that differ in the      *)
(* names of the classes only are taken once; begin differs from the row of *)
(* INITIAL where flip holds.                                               *)
Small(flip, c3, e3, initial) ==
  {Automaton(<<DeadRow, r2, r3>>, IF flip THEN Row2(r2[1], r2[0]) ELSE r2,
             <<None, IF "center" \in initial THEN 0 ELSE None, c3>>,
             <<None, IF "end" \in initial THEN 0 ELSE None, e3>>, initial) :
     r2 \in {Row2(3, DEAD), Row2(3, 2), Row2(3, 3)}, r3 \in [Minterm -> 1 .. 3]}

(* a(?=b), a+(?=b|\z): the second byte, or none, is looked at only.        *)
Lookaheads ==
  {Automaton(<<DeadRow, Row2(3, DEAD), Row2(DEAD, 4), DeadRow>>, Row2(3, DEAD),
             <<None, None, None, 1>>, <<None, None, None, 1>>, {}),
   Automaton(<<DeadRow, Row2(3, DEAD), Row2(3, 4), DeadRow>>, Row2(3, DEAD),
             <<None, None, None, 1>>, <<None, None, 0, 1>>, {})}

(* (\Aa|b)b*: away from position 0 the scan starts in a state of its own.  *)
Anchored ==
  [Automaton(<<DeadRow, Row2(DEAD, 3), Row2(DEAD, 3), Row2(DEAD, 3)>>, Row2(3, 3),
             <<None, None, 0, None>>, <<None, None, 0, None>>, {}) EXCEPT !.pruned = 4]

Full == {"begin", "center", "end"}

(* Where CENTER and END differ, the third state loops.                     *)
Differing ==
  {a \in Small(FALSE, 0, None, {}) \cup Small(FALSE, None, 0, {})
         \cup Small(FALSE, None, 0, {"end"}) \cup Small(FALSE, None, 0, {"begin"}) :
     3 \in Loops(a.delta)}

AllAutomata ==
  Lookaheads \cup {Anchored} \cup Differing \cup
  Small(FALSE, 0, 0, {}) \cup Small(TRUE, 0, 0, {}) \cup Small(FALSE, 0, 0, Full)

(* b(a*b)+: the state after a b has an end ahead, or not.                  *)
Relapsing ==
  Automaton(<<DeadRow, Row2(DEAD, 3), Row2(3, 4), Row2(3, 4)>>, Row2(DEAD, 3),
            <<None, None, None, 0>>, <<None, None, None, 0>>, {})

(* a, a*, (a|b)*b and those of a form of their own.                        *)
Few ==
  Lookaheads \cup {Anchored, Relapsing} \cup
  {a \in Small(FALSE, 0, 0, {}) \cup Small(FALSE, 0, 0, Full) :
     /\ a.delta[3] \in {DeadRow, Row2(3, DEAD), Row2(2, 3)}
     /\ a.delta[2] \in {Row2(3, DEAD), Row2(3, 2)}}

(* Inputs of at most n bytes.                                              *)
InputsUpTo(n) == UNION {[1 .. k -> Minterm] : k \in 1 .. n}
=============================================================================
