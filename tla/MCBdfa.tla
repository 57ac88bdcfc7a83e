-------------------------------- MODULE MCBdfa --------------------------------
(***************************************************************************)
(* Patterns over three classes of bytes: words with a prefix to search     *)
(* for, alternatives of different lengths, and patterns that match the     *)
(* empty word.  The first call fills part of the table for the second.     *)
(***************************************************************************)
EXTENDS Bdfa

MCAlphabet == {1, 2, 3}
T == INSTANCE BoundedTerms WITH Alphabet <- MCAlphabet, Inf <- 100, MaxLength <- 8
\* a pattern: some words of sets of bytes, and if it is optional the empty word
Pattern(words, optional) ==
    LET either == T!Unions({T!Concats([i \in DOMAIN w |-> T!Pred(w[i])]) : w \in words})
    IN IF optional THEN T!Opt(either) ELSE either
A == {1}
B == {2}
C == {3}
AB == {1, 2}
BC == {2, 3}
AC == {1, 3}
MCWordSets == {
    [words |-> {<<A, B, A>>}, optional |-> FALSE],
    [words |-> {<<A, B>>, <<B, A>>}, optional |-> FALSE],
    [words |-> {<<A, B>>, <<B, C>>}, optional |-> FALSE],
    [words |-> {<<A, A>>, <<B, A, A>>}, optional |-> FALSE],
    [words |-> {<<A, BC>>}, optional |-> FALSE],
    [words |-> {<<AB, B>>, <<AB, B, A>>}, optional |-> FALSE],
    [words |-> {<<A>>, <<B, C, B>>}, optional |-> FALSE],
    [words |-> {<<A, AB, B>>}, optional |-> FALSE],
    [words |-> {<<A, A, B>>, <<A, BC>>}, optional |-> FALSE],
    [words |-> {<<A, B>>, <<A, C, A, C>>}, optional |-> FALSE],
    [words |-> {<<AC>>, <<AC, AC>>}, optional |-> FALSE],
    [words |-> {<<A>>, <<A, B, C>>}, optional |-> TRUE],
    [words |-> {<<A, A>>, <<A, A, A, A, A>>}, optional |-> TRUE],
    [words |-> {<<A, B>>, <<A, B, C, A, B>>, <<B, C>>}, optional |-> TRUE],
    [words |-> {<<A, B, A>>, <<B, A, A, C>>, <<A>>}, optional |-> TRUE] }
MCPatterns == {Pattern(p.words, p.optional) : p \in MCWordSets}
MCRegexes == {T!RegexOf(n) : n \in MCPatterns}
MCWords(n) == UNION {[1 .. k -> MCAlphabet] : k \in 1 .. n}
MCInputs == <<
    {<<1, 2, 1, 3>>},
    [1 .. 4 -> MCAlphabet] \cup [1 .. 5 -> {1, 2}] \cup {<<1, 2, 3, 1>> \o w : w \in MCWords(2)} >>

\* the patterns are such as the bounded DFA is made of, and derivatives match what the patterns mean
ASSUME PatternsAssumption ==
    \A n \in MCPatterns :
        /\ T!Bounded(n) /\ T!BoundedSafeFindAll(n)
        /\ \E re \in {T!RegexOf(n)} : \A w \in MCWords(4) : \E spans \in {T!Matches(n, w)} :
            \A i \in 0 .. Len(w) : EndsFrom(re, w, i) = {s[2] : s \in {t \in spans : t[1] = i}}
=============================================================================
