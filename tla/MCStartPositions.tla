-------------------------- MODULE MCStartPositions --------------------------
(* StartPositions on an input of five positions: every set of positions,   *)
(* every way of splitting it into runs, and every next call.               *)
EXTENDS StartPositions
=============================================================================
