---------------------------- MODULE MCEmptiness ----------------------------
(***************************************************************************)
(* Emptiness on many graphs of derivatives of three nodes, and on some     *)
(* with unions, lookarounds, an anchor, or an empty node without an        *)
(* intersection.                                                           *)
(***************************************************************************)
EXTENDS Emptiness

Three == Node \ {Bot}

Graph(d) == [n \in Node |-> IF n = Bot THEN {} ELSE d[n]]
Table(d, b, l, e, accept, inter) ==
  [der |-> Graph(d), begin |-> Graph(b), lefts |-> [n \in Node |-> l[n]],
   elim |-> [n \in Node |-> e[n]], nullable |-> accept, any |-> accept, inter |-> inter]

Same  == [n \in Node |-> n]
Alone == [n \in Node |-> {}]

(* Node 1 leads on, and node 3 at most to itself.                          *)
Graphs == {d \in [Three -> SUBSET Three] : d[1] # {} /\ d[3] \in {{}, {3}}}

(* Node 3 may accept, or may have no intersection.                         *)
Regular ==
  {Table(d, d, Alone, Same, accept, inter) :
     d \in Graphs, accept \in {{}, {3}}, inter \in {Three, {1, 2}}}

(* Node 1 is a union with node 2 in it, or has a lookaround and stands for *)
(* node 2, or is another at the beginning.                                 *)
Unions  == {Table(d, d, [Alone EXCEPT ![1] = {2}], Same, {3}, Three) : d \in Graphs}
Looking ==
  {Table(d, d, Alone, [Same EXCEPT ![1] = e], {3}, Three) : d \in Graphs, e \in {2, NoNode}}
Anchors ==
  {Table(d, [d EXCEPT ![1] = b], Alone, Same, {3}, Three) : d \in Graphs, b \in {{}, {3}}}

MCAlgebras == {a \in Regular \cup Unions \cup Looking \cup Anchors : WellFormed(a)}
=============================================================================
