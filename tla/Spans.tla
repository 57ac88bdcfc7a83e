-------------------------------- MODULE Spans --------------------------------
(***************************************************************************)
(* Regular expressions over bytes with anchors, lookarounds and tags, as   *)
(* the terms that the parser builds through the constructors of the        *)
(* algebra, and what they mean: in a word, a term matches a set of spans   *)
(* <<i, j>>, from position i to position j.  The constructors of the       *)
(* algebra rewrite; here a term is the call that built it, with the laws   *)
(* of the empty word and the empty language that the parser's tests rely   *)
(* on.                                                                     *)
(***************************************************************************)
EXTENDS SpanSets

CONSTANTS
    Bytes,      \* the bytes of the words
    WordBytes,  \* those that \w matches
    Words       \* the words that languages are compared on

Eps == [k |-> "eps"]
Bot == [k |-> "bot"]
Begin == [k |-> "begin"]
EndOf == [k |-> "end"]
SetOf(s) == [k |-> "set", s |-> s]
Tag(n) == [k |-> "tag", n |-> n]
Star(b) == IF b \in {Eps, Bot} THEN Eps ELSE [k |-> "star", b |-> b]
Not(b) == [k |-> "not", b |-> b]
Top == SetOf(Bytes)
TS == Star(Top)
Word == SetOf(WordBytes)
NonWord == SetOf(Bytes \ WordBytes)

\* mk_concat, with the head of a concatenation never one itself
RECURSIVE Cat(_, _)
Cat(l, r) ==
    CASE l = Bot \/ r = Bot -> Bot
      [] l = Eps -> r
      [] r = Eps -> l
      [] l.k = "cat" -> Cat(l.l, Cat(l.r, r))
      [] OTHER -> [k |-> "cat", l |-> l, r |-> r]
RECURSIVE Cats(_)
Cats(s) == IF s = <<>> THEN Eps ELSE Cat(s[1], Cats(Tail(s)))

Or(l, r) == CASE l = Bot \/ l = r -> r [] r = Bot -> l [] OTHER -> [k |-> "or", l |-> l, r |-> r]
RECURSIVE Ors(_)
Ors(s) == IF s = <<>> THEN Bot ELSE IF Len(s) = 1 THEN s[1] ELSE Or(s[1], Ors(Tail(s)))
And(l, r) ==
    CASE l = Bot \/ r = Bot -> Bot [] l = TS \/ l = r -> r [] r = TS -> l
      [] OTHER -> [k |-> "and", l |-> l, r |-> r]
RECURSIVE Ands(_)
Ands(s) == IF s = <<>> THEN TS ELSE IF Len(s) = 1 THEN s[1] ELSE And(s[1], Ands(Tail(s)))
Opt(b) == Or(Eps, b)

\* lookarounds: ahead and behind match where their body does from or up to here
Ahead(b) == [k |-> "ahead", b |-> b]
NotAhead(b) == [k |-> "ahead", b |-> Cat(Not(Cat(b, TS)), EndOf)]
NotBehind(b) == [k |-> "behind", b |-> Cat(Begin, Not(Cat(TS, b)))]

RECURSIVE Last(_)
Last(n) == IF n.k = "cat" THEN Last(n.r) ELSE n
First(n) == IF n.k = "cat" THEN n.l ELSE n
\* a lookahead keeps what follows it, a lookbehind what precedes it
IsLookahead(n) == First(n).k = "ahead"
IsLookbehind(n) == Last(n).k = "behind"
Fused(n) == n.k = "cat" /\ (IsLookahead(n) \/ IsLookbehind(n))

\* mk_repeat
RECURSIVE Times(_, _)
Times(b, n) == IF n = 0 THEN Eps ELSE Cat(b, Times(b, n - 1))
Repeated(b, lo, hi) ==
    IF hi = 0 THEN Eps
    ELSE IF b.k \in {"ahead", "begin", "end"} THEN IF lo >= 1 THEN b ELSE Opt(b)
    ELSE Cat(Times(b, lo), Times(Opt(b), hi - lo))
Plus(b) == IF b.k = "ahead" THEN b ELSE Cat(b, Star(b))

RECURSIVE Contains(_, _)
Contains(n, kinds) ==
    \/ n.k \in kinds
    \/ n.k \in {"cat", "or", "and"} /\ (Contains(n.l, kinds) \/ Contains(n.r, kinds))
    \/ n.k \in {"star", "not", "ahead", "behind"} /\ Contains(n.b, kinds)
Looks == {"ahead", "behind"}

(***************************************************************************)
(* The spans a term matches in the word w.                                 *)
(***************************************************************************)
RECURSIVE Meaning(_, _)
Meaning(n, w) ==
    CASE n.k \in {"eps", "tag"} -> Here(w)
      [] n.k = "bot" -> {}
      [] n.k = "begin" -> {<<0, 0>>}
      [] n.k = "end" -> {<<Len(w), Len(w)>>}
      [] n.k = "set" -> {<<i - 1, i>> : i \in {j \in 1 .. Len(w) : w[j] \in n.s}}
      [] n.k = "cat" -> Join(Meaning(n.l, w), Meaning(n.r, w))
      [] n.k = "or" -> Meaning(n.l, w) \cup Meaning(n.r, w)
      [] n.k = "and" -> Meaning(n.l, w) \cap Meaning(n.r, w)
      [] n.k = "not" -> AllSpans(w) \ Meaning(n.b, w)
      [] n.k = "star" -> Closure(Here(w), Meaning(n.b, w), Len(w))
      [] n.k = "ahead" -> {<<s[1], s[1]>> : s \in Meaning(n.b, w)}
      [] n.k = "behind" -> {<<s[2], s[2]>> : s \in Meaning(n.b, w)}

SameMeaning(m, n) == \A w \in Words : Meaning(m, w) = Meaning(n, w)

(***************************************************************************)
(* Questions that the parser asks the algebra.                             *)
(***************************************************************************)
Whole(w) == <<0, Len(w)>>
Subsumes(big, small) == \A w \in Words : Whole(w) \in Meaning(small, w) => Whole(w) \in Meaning(big, w)
NeverNullable(n) == \A w \in Words : Meaning(n, w) \cap Here(w) = {}
ZeroWidth(n) == \A w \in Words : Meaning(n, w) \subseteq Here(w)

\* mk_lookbehind: of a body without length, the body
Behind(b) == IF ZeroWidth(b) THEN b ELSE [k |-> "behind", b |-> b]

\* try_elim_lookarounds: lookarounds as conditions on what they sit next to
RECURSIVE Elim(_)
Elim(n) ==
    IF ~Contains(n, Looks) THEN n
    ELSE IF IsLookahead(n)
    THEN And(Cat(Elim(First(n).b), TS), Cat(IF n.k = "cat" THEN Elim(n.r) ELSE Eps, TS))
    ELSE CASE n.k = "behind" -> Cat(TS, Elim(n.b))
           [] n.k = "cat" -> Cat(Elim(n.l), Elim(n.r))
           [] n.k = "or" -> Or(Elim(n.l), Elim(n.r))
           [] n.k = "and" -> And(Elim(n.l), Elim(n.r))
           [] n.k = "star" -> Star(Elim(n.b))
           [] OTHER -> Not(Elim(n.b))

\* strip_trailing_lookahead
RECURSIVE StripAhead(_)
StripAhead(n) ==
    CASE n.k = "ahead" -> Eps
      [] n.k = "cat" -> IF StripAhead(n.r) = Eps THEN StripAhead(n.l) ELSE Cat(n.l, StripAhead(n.r))
      [] OTHER -> n
=============================================================================
