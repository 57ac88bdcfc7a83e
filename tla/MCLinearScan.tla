---------------------------- MODULE MCLinearScan ----------------------------
(***************************************************************************)
(* LinearScan on a few automata, with room for all sets and without.       *)
(***************************************************************************)
EXTENDS LinearScan, SampleAutomata

MCInputs == InputsUpTo(3) \cup {<<1, 1, 0, 0>>}

(* How many pair sets and live sets fit.                                   *)
Scarce == {<<3, 9>>, <<9, 3>>, <<9, 9>>}
=============================================================================
