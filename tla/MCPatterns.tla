------------------------------ MODULE MCPatterns ------------------------------
(***************************************************************************)
(* Patterns in families, each over the tokens of one part of the syntax,   *)
(* so that short patterns already hold the combinations of that part.      *)
(***************************************************************************)
EXTENDS PatternMeaning

MCBytes == {"a", "A", "-", "nl"}
MCWordBytes == {"a", "A"}
Strings(S, n) == UNION {[1 .. k -> S] : k \in 0 .. n}
MCWords == Strings(MCBytes, 2) \cup [1 .. 3 -> {"a", "-"}]
MCStartFlags == [x |-> FALSE, i |-> FALSE, s |-> FALSE, m |-> TRUE]

a == Ch("a")
Minus == Ch("-")
Group == Ch("(")
Over == Ch(")")
WordEdge == Esc("b")
Named(n) == Open("named", <<>>, n)
Look(kind) == Open(kind, <<>>, "")
Scope(items) == Open("flags", items, "")
Exactly(n) == Count(n, FALSE, -1, TRUE)
AtLeast(n) == Count(n, TRUE, -1, TRUE)
FromTo(n, m) == Count(n, TRUE, m, TRUE)

\* "(" is followed by a "?" in none of them: that is another token
Plain(S) == {p \in S : \A n \in 1 .. Len(p) - 1 : ~(p[n] = Group /\ p[n + 1] = Ch("?"))}

Operators == Plain(Strings({a, Ch("|"), Ch("&"), Ch("~"), Group, Over, Ch("*")}, 4))
Repetitions ==
    Plain({<<a>> \o p : p \in Strings({Ch("?"), Ch("+"), Group, Over, FromTo(1, 2), Exactly(2), AtLeast(0)}, 3)})
BadCounts ==
    {p \o <<c>> \o q : p \in {<<>>, <<a>>}, q \in {<<>>, <<Ch("?")>>, <<Ch(" "), Ch("?")>>},
        c \in {Count(1, FALSE, -1, FALSE), Exactly(-1), FromTo(2, 1), Exactly(9), FromTo(0, 9)}}
    \cup {<<a, Exactly(5), Exactly(5), Exactly(5)>>}

FlagTokens == {a, Ch("."), Ch("^"), Over, SetFlags(<<"i">>), SetFlags(<<"s">>), SetFlags(<<"-", "m">>),
               SetFlags(<<>>), SetFlags(<<"-">>), Scope(<<"i">>), Scope(<<"s", "-", "m">>), Scope(<<"i", "i">>)}
SetsFlags(p) == {n \in 1 .. Len(p) : p[n].t = "set" \/ (p[n].t = "open" /\ p[n].kind = "flags")}
\* one flag group in a pattern; MCFlagsInScope has two
OneFlag == {p \in Strings(FlagTokens, 4) : Cardinality(SetsFlags(p)) <= 1}
TwoFlags ==
    {p \in Strings({a, Over, SetFlags(<<"i">>), SetFlags(<<"s">>), Scope(<<"i">>), Scope(<<"s">>)}, 4) :
        Cardinality(SetsFlags(p)) = 2}
Spaced ==
    {<<SetFlags(<<"x">>)>> \o p :
        p \in Strings({a, Ch(" "), Ch("#"), Ch("nl"), Ch("?"), Group, Over, Scope(<<"-", "x">>)}, 4)}

Classes == {<<Ch("[")>> \o p : p \in Strings({a, Minus, Ch("^"), Ch("]"), Ch("["), Ch("&"), Esc("w")}, 5)}
Lookarounds1 == Strings({a, Over, Named("n"), Look("la"), Look("lb"), Ch("*")}, 5) \cup Strings({a, Ch("|"), Over, Named("n"), Look("la")}, 4)
Negative == {<<Look(k)>> \o p : k \in {"nla", "nlb"}, p \in Strings({a, Minus, Over, WordEdge}, 4)}

\* word boundaries next to everything that the specialisation tells apart
Boundaries == Strings({a, Minus, WordEdge, Ch("?"), Ch("^"), Esc("w"), Look("la"), Over}, 4)
Between1 == {<<x, y>> \o <<e>> \o z : x \in {a, Minus, Ch("_")}, y \in {Ch("?"), FromTo(0, 1), Exactly(2), a, Minus},
             e \in {WordEdge, Esc("B")}, z \in Strings({a, Minus, Ch("_"), Ch("?"), Ch("$")}, 2)}
\* "a{0,}" next to a boundary is left to the README
Repeated1 ==
    {<<Named("n")>> \o p \o <<Over, q>> : p \in Strings({a, Minus, Ch("|"), Ch("?"), WordEdge}, 4),
        q \in {Ch("*"), Ch("?"), Ch("+"), Exactly(2), FromTo(1, 1), FromTo(0, 2), AtLeast(1)}}
CapturedEdge ==
    {x \o <<Named("n"), y, Over>> \o q \o <<WordEdge>> \o z : x \in {<<>>, <<a>>, <<Minus>>}, y \in {a, Minus},
        q \in {<<>>, <<Ch("?")>>, <<Ch("*")>>}, z \in {<<>>, <<a>>, <<Minus>>, <<Ch("_")>>}}

MCInputs == Operators \cup Repetitions \cup BadCounts \cup OneFlag \cup Spaced \cup Classes
            \cup Lookarounds1 \cup Negative \cup Boundaries \cup Between1 \cup Repeated1 \cup CapturedEdge
=============================================================================
