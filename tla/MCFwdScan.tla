----------------------------- MODULE MCFwdScan -----------------------------
(***************************************************************************)
(* FwdScan on sample automata and the inputs of up to three bytes.         *)
(***************************************************************************)
EXTENDS FwdScan, SampleAutomata

MCInputs == InputsUpTo(3)

(* None reads both classes alike in INITIAL; of those that stay in INITIAL *)
(* on one of them, the ones whose third state stays as well or goes back.  *)
Sampled ==
  {a \in AllAutomata :
     /\ a.delta[2] # Row2(3, 3)
     /\ a.delta[2] = Row2(3, 2) => a.delta[3] \in {Row2(3, DEAD), Row2(2, 3)}}
=============================================================================
