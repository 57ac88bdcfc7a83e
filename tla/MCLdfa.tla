------------------------------- MODULE MCLdfa -------------------------------
(***************************************************************************)
(* Ldfa on regexes with two byte classes.  `a` is where a regex starts and *)
(* `b` what it may prune to; the derivatives of `a` are free, `b` loops or *)
(* goes back.  One more regex is the empty language, and another one whose *)
(* constructor registers a single state and whose rows reach three more.   *)
(* The smallest capacity is met in the rows of that one, the next in the   *)
(* constructor of some regexes and in the rows of others, the largest      *)
(* never.                                                                  *)
(***************************************************************************)
EXTENDS Ldfa, TLC

MCNode == {"bot", "a", "b", "c", "d"}

EmptyRow == [m \in Minterm |-> "bot"]

Regex(fwd, da, prunes) ==
  LET p == [n \in MCNode |-> IF prunes /\ n = "a" THEN "b" ELSE n]
  IN [forward |-> fwd, initial |-> "a", pruned |-> p["a"], resume |-> "c", seek |-> "b",
      der |-> "bot" :> EmptyRow @@ "a" :> da
              @@ "b" :> [m \in Minterm |-> IF m = 0 THEN "a" ELSE "b"]
              @@ "c" :> [m \in Minterm |-> IF m = 0 THEN "c" ELSE "bot"]
              @@ "d" :> EmptyRow,
      begin |-> [m \in Minterm |-> IF m = 0 THEN "c" ELSE p[da[m]]],
      prune |-> p,
      nulls |-> "bot" :> {} @@ "a" :> {} @@ "b" :> {"center", "end"} @@ "c" :> {"end"} @@ "d" :> {},
      searchable |-> IF fwd THEN {{1}} ELSE {{0}, {1}}]

EmptyRegex ==
  [Regex(TRUE, EmptyRow, FALSE) EXCEPT
     !.initial = "bot", !.pruned = "bot", !.begin = EmptyRow, !.seek = "bot"]

LateRegex ==
  [Regex(TRUE, [m \in Minterm |-> IF m = 0 THEN "b" ELSE "c"], FALSE) EXCEPT
     !.begin = EmptyRow, !.resume = "a", !.seek = "a",
     !.der["c"] = [m \in Minterm |-> IF m = 0 THEN "d" ELSE "bot"]]

MCRegexes ==
  {EmptyRegex, LateRegex} \cup
  {Regex(f, da, p) : f \in BOOLEAN, p \in BOOLEAN,
                     da \in [Minterm -> MCNode \ {"d"}]}
=============================================================================
