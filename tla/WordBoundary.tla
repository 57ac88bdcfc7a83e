----------------------------- MODULE WordBoundary -----------------------------
(***************************************************************************)
(* What the translation of a syntax tree needs besides the tree: the flags *)
(* it carries in mutable cells (dot_all and multiline in the parser,       *)
(* case-insensitivity in a translator handed down by reference), the terms *)
(* of the atoms, and the guess of what stands next to a word boundary.     *)
(***************************************************************************)
EXTENDS Parser, Spans

CONSTANTS
    DotAll, Multiline, CaseInsensitive \* the flags of the whole pattern

ASSUME FlagsAssumption == {DotAll, Multiline, CaseInsensitive} \subseteq BOOLEAN

(***************************************************************************)
(* The cells, and the results of a walk: a value, the cells after it, and  *)
(* an error.                                                               *)
(***************************************************************************)
NoTranslator == [set |-> FALSE, i |-> CaseInsensitive]
Cells == [tr |-> NoTranslator, dot |-> DotAll, multi |-> Multiline, depth |-> 0]
Ok(v, e) == [v |-> v, e |-> e, err |-> "none"]
Err(x, e) == [v |-> Bot, e |-> e, err |-> x]
Bad(r) == r.err # "none"

\* a translator is built from the defaults, whatever the one before it was
WithFlags(items, e) ==
    [e EXCEPT !.tr = [set |-> TRUE, i |-> Updated(CaseInsensitive, items, "i")],
              !.dot = Updated(@, items, "s"), !.multi = Updated(@, items, "m")]
\* the cells that leaving a group puts back
Restore(e, outer) == [e EXCEPT !.dot = outer.dot, !.multi = outer.multi, !.tr = outer.tr]

Captures(group) == group.kind \in {"named", "anon"} \/ (group.kind = "plain" /\ ImplicitCaptures)
Captured(group, body) == Cat(Cat(Tag(2 * group.index), body), Tag(2 * group.index + 1))

(***************************************************************************)
(* Atoms and classes.                                                      *)
(***************************************************************************)
Folded(S, i) == IF i /\ S \cap {"a", "A"} # {} THEN S \cup {"a", "A"} ELSE S
PerlSet(c) == CASE c = "w" -> WordBytes [] c = "W" -> Bytes \ WordBytes

RECURSIVE ItemSet(_, _)
ItemSet(x, i) ==
    CASE x.k = "none" -> {}
      [] x.k = "lit" -> Folded({x.c}, i)
      [] x.k = "range" -> Folded({c \in Bytes : Ord(x.from) <= Ord(c) /\ Ord(c) <= Ord(x.to)}, i)
      [] x.k = "perl" -> PerlSet(x.c)
      [] x.k = "union" -> UNION {ItemSet(x.items[j], i) : j \in 1 .. Len(x.items)}
      [] x.k = "class" -> IF x.neg THEN Bytes \ ItemSet(x.set, i) ELSE ItemSet(x.set, i)
      [] x.k = "op" -> LET l == ItemSet(x.lhs, i)  r == ItemSet(x.rhs, i)
                       IN CASE x.op = "&" -> l \cap r
                            [] x.op = "-" -> l \ r
                            [] x.op = "~" -> (l \ r) \cup (r \ l)

UniversalPair(x) ==
    /\ x.k = "union" /\ Len(x.items) = 2
    /\ {x.items[1], x.items[2]} = {Perl("w"), Perl("W")}
ClassNode(class, i) ==
    CASE class.set.k = "op" -> "unsupported"
      [] ~class.neg /\ UniversalPair(class.set) -> "all"
      [] OTHER -> "set"

LineStart == Behind(Or(Begin, SetOf({"nl"})))
LineEnd == Ahead(Or(EndOf, SetOf({"nl"})))
Boundary ==
    Or(Cat(Behind(Word), NotAhead(Word)), Cat(NotBehind(Word), Ahead(Cat(Word, TS))))
NotBoundary ==
    Or(Cat(Behind(Word), Ahead(Cat(Word, TS))), Cat(NotBehind(Word), NotAhead(Word)))

IsBoundary(a) == a.k = "atom" /\ a.tok \in {Esc("b"), Esc("B")}
\* an atom that is no word boundary
AtomNode(tok, e) ==
    CASE tok = Ch("_") -> Top
      [] tok = Ch(".") -> IF e.dot THEN Top ELSE SetOf(Bytes \ {"nl"})
      [] tok = Ch("^") -> IF e.multi THEN LineStart ELSE Begin
      [] tok = Ch("$") -> IF e.multi THEN LineEnd ELSE EndOf
      [] tok = Esc("A") -> Begin
      [] tok = Esc("z") -> EndOf
      [] tok.t = "esc" -> SetOf(PerlSet(tok.c))
      [] OTHER -> SetOf(Folded({tok.c}, e.tr.i))

(***************************************************************************)
(* What stands next to a word boundary: a word byte, another byte, perhaps *)
(* one of them, the edge of the concatenation, or no telling.              *)
(***************************************************************************)
\* a mutant: {0,n} is not among the counts that match nothing
NullableSymbol(op) == op \in {Ch("?"), Ch("*")}
NullableRep(op) ==
    \/ op \in {Ch("?"), Ch("*")}
    \/ op.t = "count" /\ op.min = 0 /\ (~op.comma \/ op.max # -1)
NeverRep(op) == op.t = "count" /\ op.min = 0 /\ ~op.comma

RECURSIVE ItemKind(_)
ItemKind(x) ==
    LET kinds == IF x.k = "union" THEN {ItemKind(x.items[j]) : j \in 1 .. Len(x.items)} ELSE {}
    IN CASE x.k = "lit" -> IF x.c \in WordBytes THEN "word" ELSE "other"
         [] x.k = "range" -> LET S == ItemSet(x, FALSE) IN
              IF S \subseteq WordBytes THEN "word" ELSE IF S \cap WordBytes = {} THEN "other" ELSE "unknown"
         [] x.k = "perl" -> IF x.c = "w" THEN "word" ELSE "other"
         [] x.k = "union" -> IF Cardinality(kinds) = 1 THEN CHOOSE k \in kinds : TRUE ELSE "unknown"
         [] x.k = "class" ->
              IF x.neg THEN CASE x.set = Perl("w") -> "other" [] x.set = Perl("W") -> "word" [] OTHER -> "unknown"
              ELSE IF x.set.k = "op" THEN "unknown" ELSE ItemKind(x.set)
         [] OTHER -> "unknown"

AtomKind(tok, left) ==
    CASE tok = Esc("w") -> "word"
      [] tok = Esc("W") -> "other"
      [] tok = Esc("z") -> IF left THEN "unknown" ELSE "other"
      [] tok = Esc("A") -> IF left THEN "other" ELSE "unknown"
      [] tok.t = "esc" \/ tok.c \in {".", "_", "^", "$"} -> "unknown"
      [] OTHER -> IF tok.c \in WordBytes THEN "word" ELSE "other"

\* what is passed over on the way to the neighbour
Transparent(a, dir) ==
    CASE a.k = "look" -> (a.kind \in {"la", "nla"}) = (dir < 0)
      [] a.k = "rep" -> NeverRep(a.op)
      [] a.k = "atom" -> \/ a.tok \in {Ch("^"), Ch("$")}
                         \/ a.tok = Esc("A") /\ dir > 0
                         \/ a.tok = Esc("z") /\ dir < 0
      [] OTHER -> FALSE

RECURSIVE EdgeFrom(_, _, _)
EdgeFrom(asts, e, dir) ==
    IF e \in 1 .. Len(asts) /\ Transparent(asts[e], dir) THEN EdgeFrom(asts, e + dir, dir) ELSE e
Dir(left) == IF left THEN -1 ELSE 1
EdgeIndex(asts, left) == EdgeFrom(asts, IF left THEN Len(asts) ELSE 1, Dir(left))

RECURSIVE WordKind(_, _), NeighborKind(_, _, _)
WordKind(a, left) ==
    CASE a.k = "atom" -> AtomKind(a.tok, left)
      [] a.k = "class" -> ItemKind(a)
      [] a.k = "group" -> WordKind(a.body, left)
      [] a.k = "concat" ->
           LET e == EdgeIndex(a.asts, left)
               kind == WordKind(a.asts[e], left)
               next == NeighborKind(a.asts, e, Dir(left))
           IN IF e \notin 1 .. Len(a.asts) THEN "unknown"
              ELSE CASE kind = "maybeWord" -> IF next = "word" THEN "word"
                                              ELSE IF next = "edge" THEN "maybeWord" ELSE "unknown"
                     [] kind = "maybeOther" -> IF next = "other" THEN "other"
                                               ELSE IF next = "edge" THEN "maybeOther" ELSE "unknown"
                     [] OTHER -> kind
      [] a.k = "alt" ->
           LET kinds == {WordKind(a.asts[j], left) : j \in 1 .. Len(a.asts)}
           IN IF Cardinality(kinds) = 1 THEN CHOOSE k \in kinds : TRUE ELSE "unknown"
      [] a.k = "rep" ->
           LET kind == WordKind(a.body, left)
           IN IF ~NullableRep(a.op) THEN kind
              ELSE CASE kind = "word" -> "maybeWord" [] kind = "other" -> "maybeOther" [] OTHER -> "unknown"
      [] a.k = "look" -> IF a.kind = (IF left THEN "lb" ELSE "la") THEN WordKind(a.body, left) ELSE "unknown"
      [] OTHER -> "unknown"
NeighborKind(asts, i, dir) ==
    LET n == i + dir
        kind == WordKind(asts[n], dir < 0)
    IN IF n \notin 1 .. Len(asts) THEN "edge"
       ELSE IF Transparent(asts[n], dir) THEN NeighborKind(asts, n, dir)
       ELSE CASE kind = "maybeWord" -> IF NeighborKind(asts, n, dir) = "word" THEN "word" ELSE "unknown"
              [] kind = "maybeOther" -> IF NeighborKind(asts, n, dir) = "other" THEN "other" ELSE "unknown"
              [] OTHER -> kind

\* edge_class_ast: the class at the edge of a tree, or <<>>
RECURSIVE EdgeClass(_, _)
EdgeClass(a, left) ==
    CASE a.k = "class" \/ (a.k = "atom" /\ (a.tok.t = "ch" \/ a.tok.c \in {"w", "W"}) /\ a.tok \notin {Ch("^"), Ch("$")}) -> <<a>>
      [] a.k = "group" -> EdgeClass(a.body, left)
      [] a.k = "concat" -> LET e == EdgeIndex(a.asts, left)
                           IN IF e \in 1 .. Len(a.asts) THEN EdgeClass(a.asts[e], left) ELSE <<>>
      [] a.k = "rep" -> IF NullableRep(a.op) THEN <<>> ELSE EdgeClass(a.body, left)
      [] OTHER -> <<>>

KindOf(n, isWord, isOther) ==
    IF Subsumes(isWord, n) THEN "word" ELSE IF Subsumes(isOther, n) THEN "other" ELSE "unknown"
StartsWord == Cat(Word, TS)
StartsOther == Cat(NonWord, TS)
EndsWord == Cat(TS, Word)
EndsOther == Cat(TS, NonWord)
=============================================================================
