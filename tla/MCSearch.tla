------------------------------- MODULE MCSearch -------------------------------
(***************************************************************************)
(* Bytes of three bits with nibbles of two and one, vectors of two bytes   *)
(* and words of two.  Each row of sets is searched for in every word over  *)
(* a few bytes: those of the row, and one whose nibbles are those of       *)
(* others.                                                                 *)
(***************************************************************************)
EXTENDS Search

MCBytes == 0 .. 7
MCByteFreq == [b \in MCBytes |-> <<6, 2, 1, 20, 1, 3, 1, 2>>[b + 1]]
MCRevShare == <<1, 4>>

Words(letters, n) == UNION {[1 .. k -> letters] : k \in 0 .. n}
Family(ops, archs, row, hays, skips) ==
    [ops |-> ops, archs |-> archs, sets |-> row, common |-> row[1] = {0, 3}, hays |-> hays, skips |-> skips]
\* a literal with both kinds of vector; a search from the beginning of the haystack or two bytes later
Literals(ops, row, hays) == Family(ops, {"avx2", "neon"}, row, hays, {0, 2})
Forwards(row, hays) == Family({"fwd"}, {"avx2"}, row, hays, {0, 2})
Backwards(row, hays) == Family({"rev"}, {"avx2"}, row, hays, {0, 2})
OfSet(S, hays) == Family({"setfwd", "setrev"}, {"avx2"}, <<S>>, hays, {0})

MCRequests ==
    {   Literals({"strict", "all"}, <<{1}>>, Words({1, 2}, 5)),
        Literals({"strict", "all"}, <<{1}, {1}>>, Words({1, 2}, 7)),
        Literals({"strict", "all", "fwd"}, <<{1}, {2}, {1}>>, Words({1, 2}, 9)),
        Literals({"fwd"}, <<{1}, {2}, {0}, {1, 2}>>, Words({0, 1, 2}, 6)),
        Literals({"strict"}, <<{3}>>, {<<3>>}),
        Forwards(<<{1, 2}>>, Words({1, 2, 5}, 5)),
        Forwards(<<{0, 5}, {1}>>, Words({0, 1}, 7)),
        Forwards(<<{0, 5}, {1, 4}, {0}>>, Words({0, 1}, 8) \cup Words({0, 1, 4}, 6)),
        Forwards(<<{1}, {0, 5}, {2}, {3}>>, Words({0, 3}, 4) \cup {<<1, 5, 2>> \o w \o <<1, 0, 2, 3>> : w \in Words({1, 3}, 3)}),
        Forwards(<<{0, 3}>>, Words({0, 1, 3}, 6)),
        Forwards(<<{0, 3, 5}, {0, 3}>>, {<<0, 3>>}),
        Forwards(<<{3}, {0, 3}>>, Words({0, 3}, 7)),
        Forwards(<<{0, 4, 6}, {0, 1, 3}>>, Words({0, 1, 7}, 6)),
        Forwards(<<MCBytes, {1}>>, {<<0, 1>>}),
        Backwards(<<{1}>>, Words({1, 2}, 5)),
        Backwards(<<{1}, {2}>>, Words({1, 2}, 7)),
        Backwards(<<{2}, {1}, {2}>>, Words({1, 2}, 8)),
        Backwards(<<{1, 2}>>, Words({1, 2, 5}, 5)),
        Backwards(<<{0, 5}, {1}>>, Words({0, 1}, 7) \cup Words({0, 1, 4}, 5)),
        Backwards(<<{0, 5}, {1, 4}, {2}>>, Words({1, 2, 5}, 5) \cup {<<2, 4, 0>> \o w : w \in Words({1, 2, 5}, 6)}),
        Backwards(<<{3}, {1}, {2}, {0, 5}>>, Words({1, 3}, 3) \cup {<<5, 2, 1, 3>> \o w : w \in Words({1, 2, 3}, 5)}),
        Backwards(<<{3}, {3}>>, {<<3, 3>>}),
        OfSet({0}, Words({0, 1}, 6)), OfSet({2, 5}, Words({2, 3, 5}, 5)), OfSet({0, 1, 2, 5}, Words({0, 2, 4}, 5)),
        OfSet({0, 2, 4, 6}, {<<0>>}), OfSet({3, 4, 5}, {<<0, 3>>}), OfSet(MCBytes \ {3}, {<<0, 3>>})}
=============================================================================
