------------------------------ MODULE TermMeaning ------------------------------
(***************************************************************************)
(* What terms stand for, without derivatives: sets of spans of a word.     *)
(***************************************************************************)
EXTENDS Derivatives, SpanSets

\* the spans a node stands for
RECURSIVE Matches(_, _)
Matches(n, w) ==
    CASE n.k = "pred" -> {<<i - 1, i>> : i \in {j \in 1 .. Len(w) : w[j] \in n.s}}
      [] n.k = "begin" -> {<<0, 0>>}
      [] n.k = "end" -> {<<Len(w), Len(w)>>}
      [] n.k = "star" -> Closure(Here(w), Matches(n.l, w), Len(w))
      [] n.k = "compl" -> AllSpans(w) \ Matches(n.l, w)
      [] n.k = "concat" -> Join(Matches(n.l, w), Matches(n.r, w))
      [] n.k = "union" -> Matches(n.l, w) \cup Matches(n.r, w)
      [] n.k = "inter" -> Matches(n.l, w) \cap Matches(n.r, w)
=============================================================================
