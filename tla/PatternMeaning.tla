---------------------------- MODULE PatternMeaning ----------------------------
(***************************************************************************)
(* What a pattern means, said without the algebra: the spans its syntax    *)
(* tree matches in a word, with the flags that hold where each atom stands *)
(* and word boundaries by their definition.  The term and the skeleton     *)
(* that the translation returns have to mean the same.                     *)
(***************************************************************************)
EXTENDS Translate, PatternGrammar

ASSUME StartFlagsAgree ==
    StartFlags = [x |-> Extended, i |-> CaseInsensitive, s |-> DotAll, m |-> Multiline]

IsWordAt(w, p) == p \in 1 .. Len(w) /\ w[p] \in WordBytes
AtBoundary(w, i) == IsWordAt(w, i) # IsWordAt(w, i + 1)
LineStartsAt(w, i) == i = 0 \/ w[i] = "nl"
LineEndsAt(w, i) == i = Len(w) \/ w[i + 1] = "nl"

\* the positions where a condition without width holds, as spans
Points(w, Holds(_, _)) == {<<i, i>> : i \in {j \in 0 .. Len(w) : Holds(w, j)}}
AtStart(w, i) == i = 0
AtEnd(w, i) == i = Len(w)
NotAtBoundary(w, i) == ~AtBoundary(w, i)
Steps(w, S) == {<<i - 1, i>> : i \in {j \in 1 .. Len(w) : w[j] \in S}}

AtomMeans(tok, env, w) ==
    CASE tok = Ch("_") -> Steps(w, Bytes)
      [] tok = Ch(".") -> Steps(w, IF env.s THEN Bytes ELSE Bytes \ {"nl"})
      [] tok = Ch("^") -> IF env.m THEN Points(w, LineStartsAt) ELSE Points(w, AtStart)
      [] tok = Ch("$") -> IF env.m THEN Points(w, LineEndsAt) ELSE Points(w, AtEnd)
      [] tok = Esc("A") -> Points(w, AtStart)
      [] tok = Esc("z") -> Points(w, AtEnd)
      [] tok = Esc("b") -> Points(w, AtBoundary)
      [] tok = Esc("B") -> Points(w, NotAtBoundary)
      [] tok = Esc("w") -> Steps(w, WordBytes)
      [] tok = Esc("W") -> Steps(w, Bytes \ WordBytes)
      [] OTHER -> Steps(w, IF env.i /\ tok.c \in {"a", "A"} THEN {"a", "A"} ELSE {tok.c})

\* from lo to hi times; more often than there are positions adds nothing
RECURSIVE Often(_, _, _)
Often(S, n, w) == IF n = 0 THEN Here(w) ELSE Join(S, Often(S, n - 1, w))
Between(S, lo, hi, w) ==
    UNION {Often(S, n, w) : n \in lo .. (IF hi = Many THEN lo + Len(w) ELSE hi)}

RECURSIVE Means(_, _, _), MeansAll(_, _, _)
Means(a, w, reading) ==
    CASE a.k \in {"empty", "flags"} -> Here(w)
      [] a.k = "atom" -> AtomMeans(a.tok, reading[a.at].env, w)
      [] a.k = "class" -> Steps(w, ItemSet(a, reading[a.at].env.i))
      [] a.k = "rep" -> Between(Means(a.body, w, reading), RepLo(a.op), RepHi(a.op), w)
      [] a.k = "group" -> Means(a.body, w, reading)
      [] a.k = "compl" -> AllSpans(w) \ Means(a.body, w, reading)
      [] a.k = "look" ->
           LET S == Means(a.body, w, reading)
               from == {s[1] : s \in S}
               upTo == {s[2] : s \in S}
               there == CASE a.kind = "la" -> from
                          [] a.kind = "lb" -> upTo
                          [] a.kind = "nla" -> 0 .. Len(w) \ from
                          [] a.kind = "nlb" -> 0 .. Len(w) \ upTo
           IN {<<i, i>> : i \in there}
      [] a.k = "concat" -> MeansAll(a.asts, w, reading)
      [] a.k = "alt" -> UNION {Means(a.asts[i], w, reading) : i \in 1 .. Len(a.asts)}
      [] a.k = "inter" -> {s \in AllSpans(w) : \A i \in 1 .. Len(a.asts) : s \in Means(a.asts[i], w, reading)}
MeansAll(asts, w, reading) ==
    IF asts = <<>> THEN Here(w) ELSE Join(Means(asts[1], w, reading), MeansAll(Tail(asts), w, reading))

Translated == node # NotYet /\ ~Bad(node)
\* The term means the pattern: flags hold from where they appear to the end of
\* the enclosing group, and a word boundary means what it does next to whatever
\* stands beside it, however the translation specialised it for its neighbours.
TranslationExact ==
    Translated =>
        LET reading == Reading
        IN \A w \in Words : Meaning(node.v, w) = Means(result.ast, w, reading)

\* docs/syntax.md: flags apply from the point they appear until the end of the
\* enclosing group.  The meaning of a pattern above reads its flags that way,
\* so the terms of patterns with several flag groups have to agree with it.
FlagsUntilGroupEnd ==
    Cardinality({p \in 1 .. Len(input) : input[p].t = "set" \/ IsOpen(input[p])}) >= 2 => TranslationExact

\* the spans of a skeleton, put together from its leaves
RECURSIVE SkMeans(_, _), SkMeansAll(_, _)
SkMeans(s, w) ==
    CASE s.k = "leaf" -> Meaning(s.node, w)
      [] s.k = "concat" -> SkMeansAll(s.kids, w)
      [] s.k = "union" -> UNION {SkMeans(s.kids[i], w) : i \in 1 .. Len(s.kids)}
      [] s.k = "inter" -> {x \in AllSpans(w) : \A i \in 1 .. Len(s.kids) : x \in SkMeans(s.kids[i], w)}
      [] s.k = "optional" -> Here(w) \cup SkMeans(s.kids[1], w)
      [] s.k = "repeat" -> Between(SkMeans(s.kids[1], w), s.lo, s.hi, w)
      [] s.k = "group" -> SkMeans(s.kids[1], w)
SkMeansAll(kids, w) ==
    IF kids = <<>> THEN Here(w) ELSE Join(SkMeans(kids[1], w), SkMeansAll(Tail(kids), w))

\* Capture extraction walks the skeleton along the matches of the term: the
\* skeleton's parts match together what its own term and the pattern's term
\* match, so that every match has a walk and every walk is a match.
SkeletonAgrees ==
    skeleton # NotYet /\ ~Bad(skeleton) =>
        \A w \in Words : /\ SkMeans(skeleton.v, w) = Meaning(skeleton.v.node, w)
                         /\ SkMeans(skeleton.v, w) = Meaning(node.v, w)
=============================================================================
