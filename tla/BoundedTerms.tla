----------------------------- MODULE BoundedTerms -----------------------------
(***************************************************************************)
(* What terms answer when the bounded DFA asks (resharp-algebra/src/lib.rs *)
(* and collect_sets of resharp-engine/src/minterms.rs), and of which terms *)
(* the engine makes one.                                                   *)
(***************************************************************************)
EXTENDS TermMeaning

CONSTANT MaxLength      \* 100 and 512 in the code: the longest match

\* What find_all gives to the bounded DFA: it matches the empty word always, or never, and no match
\* of it lies strictly inside another, or is at most one byte longer than another (is_empty_lang of
\* the intersection, which Emptiness models).
Bounded(t) == t.max <= MaxLength /\ (t.es => t.null = Always)
NeverInside(t) ==
    LET overlap == Inter(t, Concat(TopPlus, Concat(t, TopPlus)))
    IN \A length \in t.min .. t.max : \A w \in [1 .. length -> Alphabet] : <<0, length>> \notin Matches(overlap, w)
BoundedSafeFindAll(t) == t.null = Always \/ t.max < t.min + 2 \/ NeverInside(t)

\* collect_sets: the sets that the nodes of a term test
RECURSIVE CollectSets(_)
CollectSets(n) ==
    IF IsPred(n) THEN {n.s}
    ELSE IF n.k \in {"star", "compl"} THEN CollectSets(n.l)
    ELSE IF n.k \in {"concat", "union", "inter"} THEN CollectSets(n.l) \cup CollectSets(n.r)
    ELSE {}

\* der, of the nodes that a pattern leads to
RECURSIVE Leaves(_), Reached(_)
Leaves(x) == IF IsIte(x) THEN Leaves(x.then) \cup Leaves(x.else) ELSE {x.node}
ReachedNext(S, next) == IF next = S THEN S ELSE Reached(next)
Reached(S) == ReachedNext(S, S \cup UNION {Leaves(Der(n, "center")) : n \in S})
NodesOf(pattern) == <<Bot>> \o SortNodes(Reached({pattern}) \ {Bot})
DerBy(nodes, x) == [c \in Alphabet |-> Index(nodes, TransitionTerm(x, {c}))]

\* prune_counted_chain asks whether m matches only what n does, with more after it: mk_not_begins_with
\* and mk_inter find out, if they do, by rewriting
Covers(n, m) == Inter(m, Compl(Concat(n, TS))) = Bot

\* of which pairs that is so: the largest relation that derivatives keep
RECURSIVE Kept(_, _, _)
StaysIn(null, der, pairs, p) ==
    \/ null[p[2]] # {}
    \/ null[p[1]] = {} /\ \A c \in Alphabet : <<der[p[1]][c], der[p[2]][c]>> \in pairs
KeptNext(null, der, pairs, next) == IF next = pairs THEN pairs ELSE Kept(null, der, next)
Kept(null, der, pairs) == KeptNext(null, der, pairs, {p \in pairs : StaysIn(null, der, pairs, p)})

\* (@@ <<>> has TLC work a table out once.)
LOCAL INSTANCE TLC
Asked(nodes, pattern, null, der) ==
    [pattern |-> Index(nodes, pattern), null |-> null, der |-> der, tests |-> CollectSets(pattern),
     covered |-> {p \in (2 .. Len(nodes)) \X (2 .. Len(nodes)) : Covers(nodes[p[2]], nodes[p[1]])},
     covers |-> Kept(null, der, (1 .. Len(nodes)) \X (1 .. Len(nodes))),
     length |-> [i \in DOMAIN nodes |-> nodes[i].max + 1]]
Numbered(nodes, pattern) ==
    Asked(nodes, pattern, [i \in DOMAIN nodes |-> nodes[i].null],
          [i \in DOMAIN nodes |-> DerBy(nodes, Der(nodes[i], "center")) @@ <<>>] @@ <<>>)
RegexOf(pattern) == Numbered(NodesOf(pattern), pattern)
=============================================================================
