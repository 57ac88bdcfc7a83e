---------------------------- MODULE MCRegexShared ----------------------------
(* Two threads and two inputs of two positions, and two calls: one that    *)
(* fails, panics or is overtaken half way, and one that uses what it left. *)
(* No symmetry, for the run checks that every call returns.                *)
EXTENDS RegexShared
=============================================================================
