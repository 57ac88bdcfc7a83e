------------------------------- MODULE SpanSets -------------------------------
(***************************************************************************)
(* Sets of spans <<i, j>> of a word w, from position i to position j: what *)
(* a regular expression matches in it.                                     *)
(***************************************************************************)
EXTENDS Integers, Sequences, FiniteSets

Join(A, B) == {<<x[1][1], x[2][2]>> : x \in {y \in A \X B : y[1][2] = y[2][1]}}
Here(w) == {<<i, i>> : i \in 0 .. Len(w)}
AllSpans(w) == {s \in (0 .. Len(w)) \X (0 .. Len(w)) : s[1] <= s[2]}
RECURSIVE Closure(_, _, _)
Closure(S, B, n) == IF n = 0 THEN S ELSE Closure(S \cup Join(S, B), B, n - 1)
=============================================================================
