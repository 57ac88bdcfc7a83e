------------------------------ MODULE MCAlgebra ------------------------------
(***************************************************************************)
(* Terms of up to three leaves, or two larger ones, over three classes of  *)
(* bytes.                                                                  *)
(***************************************************************************)
EXTENDS Algebra

MCAlphabet == {1, 2, 3}
\* every word of two classes up to three bytes, and every word up to two
MCWords == UNION {[1 .. n -> {1, 2}] : n \in 0 .. 3} \cup UNION {[1 .. n -> MCAlphabet] : n \in 0 .. 2}
MCAtoms == {Pred({1}), Pred({1, 2}), TS, End}
\* larger terms to start from: those that unions of intersections and of concatenations shorten
Long(n) == Concat(Repeat(Pred({1}), n, n), Star(Pred({1, 2})))
MCCompound == {Begin,
    Inter(Compl(Pred({2})), Long(2)), Inter(Compl(Pred({2})), Long(1)),
    Inter(Compl(Pred({2})), Concat(TS, Long(2))), Inter(Compl(Pred({2})), Concat(TS, Long(1))),
    Inter(Compl(Eps), Inter(Compl(Pred({2})), Long(1))),
    Union(Long(1), End), Union(Pred({2}), Concat(Pred({3}), Pred({1}))), Union(Begin, Concat(Pred({3}), TS)),
    Concat(TS, Concat(Pred({1}), TS)), Concat(TS, Concat(Pred({2}), Pred({1}))), Concat(Pred({1}), TS),
    Inter(Concat(Pred({1}), TS), Concat(TS, Concat(Pred({2}), TS))),
    Inter(Concat(TS, Concat(Pred({1}), TS)), Concat(TS, Concat(Pred({2}), Pred({1})))),
    TopPlus, Compl(Concat(TS, End)), Star(Pred({3})) }
MCLeaves == (MCAtoms \X {2}) \cup (MCCompound \X {3})
MCCounts == {<<0, 0>>, <<0, 1>>, <<2, 3>>}
=============================================================================
