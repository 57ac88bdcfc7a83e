-------------------------------- MODULE Algebra --------------------------------
(***************************************************************************)
(* A caller of RegexBuilder builds terms bottom up, as the translation of  *)
(* a pattern does: it makes leaves and puts constructors over what it has  *)
(* made.  Beside each term on the stack stands what it was asked to mean,  *)
(* the spans of every word of Words, computed without the algebra.         *)
(*                                                                         *)
(* The algebra knows where in an input a term matches the empty word, and  *)
(* separately whether it does so in the empty input.  Its rules ask the    *)
(* first only: () | ~(\A\z) becomes ~(\A\z), which does not match the      *)
(* empty input.  What is promised of the empty input is therefore promised *)
(* until a term is made that matches the empty word in some input, but not *)
(* in the empty one.                                                       *)
(***************************************************************************)
EXTENDS TermMeaning

CONSTANTS
    Words,      \* the words that meanings are compared on
    Leaves,     \* what the caller starts from, with what each counts for: <<node, weight>>
    Counts,     \* the bounds <<lower, upper>> of repetitions
    MaxWeight,  \* bounds on the leaves and on the unary constructors of a term
    MaxUnary

ASSUME AlgebraAssumption ==
    /\ <<>> \in Words /\ \A w \in Words : w \in Seq(Alphabet)
    /\ \A c \in Counts : c[1] \in Nat /\ c[2] \in Nat /\ c[1] <= c[2]

VARIABLES
    stack,      \* the terms made and not yet used: [node, means, split]
    weight,
    unary

vars == <<stack, weight, unary>>

RECURSIVE Times(_, _, _)
Times(S, n, w) == IF n = 0 THEN Here(w) ELSE Join(S, Times(S, n - 1, w))

-----------------------------------------------------------------------------
\* what matches the empty word, but not in the empty input
Splits(means) ==
    <<0, 0>> \notin means[<<>>] /\ \E w \in Words : means[w] \cap Here(w) # {}
Made(node, means, split) == [node |-> node, means |-> means, split |-> split \/ Splits(means)]
Top1 == stack[Len(stack)]
Top2 == stack[Len(stack) - 1]
Below(n) == SubSeq(stack, 1, Len(stack) - n)
\* a constructor over the last term, or the last two
Over(node, Means(_)) ==
    /\ stack' = Append(Below(1), Made(node, [w \in Words |-> Means(w)], Top1.split))
    /\ unary' = unary + 1
    /\ UNCHANGED weight
OverTwo(node, Means(_)) ==
    /\ stack' = Append(Below(2), Made(node, [w \in Words |-> Means(w)], Top1.split \/ Top2.split))
    /\ UNCHANGED <<weight, unary>>

Init == stack = <<>> /\ weight = 0 /\ unary = 0

MakeLeaf(n, cost) ==
    /\ weight + cost <= MaxWeight
    /\ stack' = Append(stack, Made(n, [w \in Words |-> Matches(n, w)], FALSE))
    /\ weight' = weight + cost
    /\ UNCHANGED unary

MakeStar ==
    LET Means(w) == Closure(Here(w), Top1.means[w], Len(w))
    IN stack # <<>> /\ unary < MaxUnary /\ Over(Star(Top1.node), Means)
MakeCompl ==
    LET Means(w) == AllSpans(w) \ Top1.means[w]
    IN stack # <<>> /\ unary < MaxUnary /\ Over(Compl(Top1.node), Means)
MakeRepeat(c) ==
    LET Means(w) == UNION {Times(Top1.means[w], n, w) : n \in c[1] .. c[2]}
    IN stack # <<>> /\ unary < MaxUnary /\ Over(Repeat(Top1.node, c[1], c[2]), Means)
MakePlus ==
    LET Means(w) == Join(Top1.means[w], Closure(Here(w), Top1.means[w], Len(w)))
    IN stack # <<>> /\ unary < MaxUnary /\ Over(Plus(Top1.node), Means)

MakeConcat ==
    LET Means(w) == Join(Top2.means[w], Top1.means[w])
    IN Len(stack) > 1 /\ OverTwo(Concat(Top2.node, Top1.node), Means)
MakeUnion ==
    LET Means(w) == Top2.means[w] \cup Top1.means[w]
    IN Len(stack) > 1 /\ OverTwo(Unions({Top2.node, Top1.node}), Means)
MakeInter ==
    LET Means(w) == Top2.means[w] \cap Top1.means[w]
    IN Len(stack) > 1 /\ OverTwo(Inter(Top2.node, Top1.node), Means)

Next ==
    \/ \E n \in Leaves : MakeLeaf(n[1], n[2])
    \/ MakeStar
    \/ MakeCompl
    \/ MakePlus
    \/ \E c \in Counts : MakeRepeat(c)
    \/ MakeConcat
    \/ MakeUnion
    \/ MakeInter

Spec == Init /\ [][Next]_vars

-----------------------------------------------------------------------------
\* one term is left, as every term is when it is built with nothing below it
Finished == Len(stack) = 1
\* the words on which the last term promises to mean what it was asked to
Promised == IF Top1.split THEN Words \ {<<>>} ELSE Words

\* where a position of a word lies, as nullability names it; the empty word is a case of its own
At(w, i) == IF i = 0 THEN "begin" ELSE IF i = Len(w) THEN "end" ELSE "center"
NullableAt(n, w, i) == IF w = <<>> THEN n.es ELSE Nullable(n, At(w, i))

\* Whatever rules rewrote a term on the way, it matches what it was asked to match.
MeaningKept ==
    Finished => \A w \in Promised : Matches(Top1.node, w) = Top1.means[w]

\* What the tables say of a term without looking at it again is so: it is nullable exactly where
\* it matches the empty word, no match is shorter than its least or longer than its greatest
\* length, and where it has a fixed length every match has it.
MetadataExact ==
    Finished =>
        LET fixed == FixedLength(Top1.node)
        IN \A w \in Promised :
            /\ \A i \in 0 .. Len(w) : NullableAt(Top1.node, w, i) <=> <<i, i>> \in Top1.means[w]
            /\ \A s \in Top1.means[w] :
                /\ Top1.node.min <= s[2] - s[1]
                /\ s[2] - s[1] <= Top1.node.max
                /\ fixed \in {-1, s[2] - s[1]}

\* The derivative at a place, applied to the byte that stands there, matches exactly the rests of
\* the matches that begin with that byte; a class of bytes that it sends one way goes where each
\* of its bytes goes.
DerivativeExact ==
    Finished => \A at \in {"begin", "center"} :
        LET d == Der(Top1.node, at)
            next == [c \in Alphabet |-> TransitionTerm(d, {c})]
        IN /\ \A w \in Promised : \A i \in {j \in 0 .. Len(w) - 1 : At(w, j) = at} :
                {s[2] : s \in {t \in Matches(next[w[i + 1]], w) : t[1] = i + 1}}
                  = {s[2] : s \in {t \in Top1.means[w] : t[1] = i /\ t[2] > i}}
           /\ \A S \in SUBSET Alphabet : TransitionTermUniform(d, S) # None =>
                \A c \in S : next[c] = TransitionTermUniform(d, S)

Backwards(w) == [i \in 1 .. Len(w) |-> w[Len(w) + 1 - i]]
Mirrored(S, w) == {<<Len(w) - s[2], Len(w) - s[1]>> : s \in S}
\* The reverse of a term matches the mirror images of its matches in the word read backwards, and
\* the term without its paths through \A has the same matches away from the start.
ReverseExact ==
    Finished =>
        LET reversed == Reverse(Top1.node)
            pruned == {PruneBegin(Top1.node), NonBegins(Top1.node)} \ {Top1.node}
        IN \A w \in Promised :
            /\ Matches(reversed, Backwards(w)) = Mirrored(Top1.means[w], w)
            /\ \A n \in pruned : {s \in Matches(n, w) : s[1] > 0} = {s \in Top1.means[w] : s[1] > 0}
=============================================================================
