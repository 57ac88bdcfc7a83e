------------------------------ MODULE Translate ------------------------------
(***************************************************************************)
(* From the syntax tree to a term of the algebra (ast_to_node_id) and to   *)
(* the skeleton that capture extraction walks (ast_to_sk): two walks over  *)
(* the same tree with the same cells, which have to agree.  A walk returns *)
(* a value, the cells after it and an error, see Ok and Err.               *)
(***************************************************************************)
EXTENDS WordBoundary

VARIABLES
    node,     \* what ast_to_node_id returned, or an error
    skeleton  \* what ast_to_sk returned, when the pattern captures

allvars == <<vars, node, skeleton>>

(***************************************************************************)
(* Questions about the tree.                                               *)
(***************************************************************************)
RepLo(op) ==
    CASE op \in {Ch("?"), Ch("*")} -> 0 [] op = Ch("+") -> 1 [] OTHER -> op.min
Many == MaxRepeat + 1
RepHi(op) ==
    CASE op = Ch("?") -> 1
      [] op \in {Ch("*"), Ch("+")} -> Many
      [] ~op.comma -> op.min
      [] op.max = -1 -> Many
      [] OTHER -> op.max

RECURSIVE SomeNode(_, _)
SomeNode(a, kinds) ==
    a.k \in kinds \/ \E i \in 1 .. Len(Children(a)) : SomeNode(Children(a)[i], kinds)
ContainsLookaround(a) == SomeNode(a, {"look"})

RECURSIVE HasCapture(_)
HasCapture(a) ==
    \/ a.k = "group" /\ Captures(a.group)
    \/ \E i \in 1 .. Len(Children(a)) : HasCapture(Children(a)[i])

RECURSIVE MayConsume(_)
MayConsume(a) ==
    CASE a.k \in {"empty", "flags", "look"} -> FALSE
      [] a.k = "atom" -> a.tok \notin {Ch("^"), Ch("$"), Esc("A"), Esc("z"), Esc("b"), Esc("B")}
      [] a.k \in {"class", "compl"} -> TRUE
      [] a.k = "rep" -> MayConsume(a.body) /\ RepHi(a.op) > 0
      [] OTHER -> \E i \in 1 .. Len(Children(a)) : MayConsume(Children(a)[i])

\* ensure_lookbehind_at_start
RECURSIVE LookbehindsAtStart(_, _)
LookbehindsAtStart(a, atStart) ==
    CASE a.k = "concat" ->
           \A i \in 1 .. Len(a.asts) :
              LookbehindsAtStart(a.asts[i], atStart /\ \A j \in 1 .. i - 1 : ~MayConsume(a.asts[j]))
      [] a.k = "look" -> (a.kind \in {"lb", "nlb"} => atStart) /\ LookbehindsAtStart(a.body, TRUE)
      [] OTHER -> \A i \in 1 .. Len(Children(a)) : LookbehindsAtStart(Children(a)[i], atStart)

RECURSIVE Ambiguous(_), NeedsRepeatModel(_), EmptyLookArm(_)
Ambiguous(a) == a.k \in {"alt", "concat", "rep"} \/ (a.k = "group" /\ Ambiguous(a.body))
NeedsRepeatModel(a) ==
    \/ a.k = "rep" /\ RepHi(a.op) >= 2 /\ Ambiguous(a.body)
    \/ a.k \in {"rep", "group", "alt", "concat", "inter"} /\ \E i \in 1 .. Len(Children(a)) : NeedsRepeatModel(Children(a)[i])
EmptyLookArm(a) ==
    IF a.k = "alt" THEN \E i \in 1 .. Len(a.asts) : ContainsLookaround(a.asts[i]) /\ ~MayConsume(a.asts[i])
    ELSE a.k # "look" /\ \E i \in 1 .. Len(Children(a)) : EmptyLookArm(Children(a)[i])

(***************************************************************************)
(* The conversions of nodes above their converted bodies.                  *)
(***************************************************************************)
Refused == [k |-> "refused"]
HasTags(n) == Contains(n, {"tag"})
\* mk_opt gives a body back that matches the empty word anyway
LosesTags(n) == HasTags(n) /\ \A w \in Words : Here(w) \subseteq Meaning(n, w)

RepetitionNode(op, b) ==
    LET lo == RepLo(op)  hi == RepHi(op)
        bounded == op.t = "count" /\ op.comma /\ op.max # -1
    IN CASE op = Ch("?") -> IF LosesTags(b) THEN Refused ELSE Opt(b)
         [] op = Ch("*") -> Star(b)
         [] op = Ch("+") -> Plus(b)
         [] ~op.comma -> IF lo = 0 /\ HasTags(b) THEN Refused ELSE Repeated(b, lo, lo)
         [] op.comma /\ op.max = -1 ->
              IF b.k = "ahead" THEN IF lo = 0 THEN Opt(b) ELSE b
              ELSE Cat(Repeated(b, lo, lo), Star(b))
         [] bounded ->
              IF \/ hi = 0 /\ HasTags(b)
                 \/ lo = 0 /\ hi > 0 /\ LosesTags(b)
                 \/ hi - lo >= 2 /\ (IsLookahead(b) \/ IsLookbehind(b))
                 \/ hi - lo >= 1 /\ Fused(b)
              THEN Refused ELSE Repeated(b, lo, hi)

\* the lookbehinds in front of a lookahead's body are moved out of it
RECURSIVE MovedOut(_, _)
MovedOut(prefix, rest) ==
    IF rest.k = "behind" /\ prefix = Eps THEN [prefix |-> rest, rest |-> Eps]
    ELSE IF rest.k = "cat" /\ rest.l.k = "behind" THEN MovedOut(Cat(prefix, rest.l), rest.r)
    ELSE [prefix |-> prefix, rest |-> rest]

LookaroundNode(kind, b) ==
    LET moved == MovedOut(Eps, b)
        behind == Contains(b, {"behind"})
    IN CASE kind = "la" /\ behind ->
              IF moved.prefix = Eps \/ Contains(moved.rest, {"behind"}) THEN Refused
              ELSE Cat(moved.prefix, Ahead(moved.rest))
         [] kind = "nla" /\ behind -> Refused
         [] kind \in {"lb", "nlb"} /\ Contains(b, {"ahead"}) -> Refused
         [] kind = "la" -> Ahead(b)
         [] kind = "lb" -> Behind(b)
         [] kind = "nla" -> NotAhead(b)
         [] kind = "nlb" -> NotBehind(b)

Checked(n, e) == IF n = Refused THEN Err("Unsupported", e) ELSE Ok(n, e)

(***************************************************************************)
(* Word boundaries between the terms of their neighbours.                  *)
(***************************************************************************)
\* the table of rewrite_word_boundary_in_concat and rewrite_wb_in_node
BoundaryNode(l, r, negated) ==
    LET nextWord == Ahead(Cat(Word, TS))  nextOther == NotAhead(Word)
        prevWord == Behind(Word)          prevOther == NotBehind(Word)
    IN CASE {l, r} = {"word", "other"} -> IF negated THEN Bot ELSE Eps
         [] l = r /\ l \in {"word", "other"} -> IF negated THEN Eps ELSE Bot
         [] l \in {"word", "other"} -> IF (l = "word") = negated THEN nextWord ELSE nextOther
         [] r \in {"word", "other"} -> IF (r = "word") = negated THEN prevWord ELSE prevOther
         [] OTHER -> IF negated THEN NotBoundary ELSE Boundary

\* non_nullable_suffix: where it begins, or 0
RECURSIVE SuffixFrom(_, _, _)
SuffixFrom(kids, k, acc) ==
    IF k = 0 THEN 0
    ELSE IF NeverNullable(Cat(kids[k], acc)) THEN k
    ELSE SuffixFrom(kids, k - 1, Cat(kids[k], acc))
NonNullableSuffix(kids) == SuffixFrom(kids, Len(kids), Eps)
Suffix(kids, k) == Cats(SubSeq(kids, k, Len(kids)))

\* the branches of absorb_word_boundary_into_left: a condition on the left, and a lookahead
Branches(right, negated) ==
    LET wordSide == IF negated THEN EndsWord ELSE Not(EndsWord)
        otherSide == IF negated THEN Not(EndsWord) ELSE EndsWord
    IN CASE right = "word" -> <<[on |-> wordSide, la |-> Eps]>>
         [] right = "other" -> <<[on |-> otherSide, la |-> Eps]>>
         [] OTHER -> <<[on |-> wordSide, la |-> Ahead(Cat(Word, TS))],
                       [on |-> otherSide, la |-> NotAhead(Word)]>>
AbsorbedArms(left, br) == [b \in 1 .. Len(br) |-> Cat(And(left, br[b].on), br[b].la)]
AbsorbedNode(left, br) == Ors(AbsorbedArms(left, br))

\* specialize_word_boundaries
Classify(n, isWord, isOther) ==
    IF Contains(n, Looks \cup {"begin", "end"}) THEN "unknown" ELSE KindOf(n, isWord, isOther)
RECURSIVE RewriteIn(_, _, _)
RewriteIn(n, l, r) ==
    CASE n = Boundary -> BoundaryNode(l, r, FALSE)
      [] n = NotBoundary -> BoundaryNode(l, r, TRUE)
      [] n.k = "or" -> Or(RewriteIn(n.l, l, r), RewriteIn(n.r, l, r))
      [] OTHER -> n
RECURSIVE Specialized(_, _)
Specialized(kids, k) ==
    LET l == IF k = 1 THEN "edge" ELSE Classify(kids[k - 1], EndsWord, EndsOther)
        r == IF k = Len(kids) THEN "edge" ELSE Classify(kids[k + 1], StartsWord, StartsOther)
    IN IF k > Len(kids) THEN kids
       ELSE Specialized([kids EXCEPT ![k] = RewriteIn(@, l, r)], k + 1)
AfterEnd(kids) == \E k \in 2 .. Len(kids) : kids[k - 1] = EndOf /\ kids[k] \in {Boundary, NotBoundary}
SpecializeBoundaries(kids, e) ==
    IF AfterEnd(kids) THEN Err("Unsupported", e) ELSE Ok(Cats(Specialized(kids, 1)), e)

(***************************************************************************)
(* ast_to_node_id.                                                         *)
(***************************************************************************)
RECURSIVE Convert(_, _), ConvertAll(_, _, _), ConvertConcat(_, _, _, _, _, _), AheadBodies(_, _, _, _), Merge(_, _, _, _)

\* resolve_word_kind, for the neighbour of element i in direction dir: what its syntax tells, the
\* class at its edge, the conditions on what follows, or what the element before ends with
KindOfClass(r) == IF Bad(r) THEN r ELSE Ok(KindOf(r.v, Word, NonWord), r.e)
KindAhead(r) ==
    IF Bad(r) \/ r.v = <<>> THEN [r EXCEPT !.v = "unknown"]
    ELSE Ok(KindOf(Ands(r.v), StartsWord, StartsOther), r.e)
KindBehind(r) == IF Bad(r) THEN r ELSE Ok(KindOf(Elim(StripAhead(r.v)), EndsWord, EndsOther), r.e)
ResolveBy(fast, edge, asts, i, dir, e) ==
    IF fast # "unknown" THEN Ok(fast, e)
    ELSE IF edge # <<>> THEN KindOfClass(Convert(edge[1], e))
    ELSE IF dir > 0 THEN KindAhead(AheadBodies(asts, i + 1, <<>>, e))
    ELSE KindBehind(Convert(asts[i + dir], e))
Resolve(asts, i, dir, e) ==
    ResolveBy(NeighborKind(asts, i, dir), EdgeClass(asts[i + dir], dir < 0), asts, i, dir, e)

\* the conditions on what follows: the lookaheads from j on and the first other element
AddBody(r, cond, asts, j, bodies) ==
    IF Bad(r) THEN r
    ELSE IF asts[j].k = "look"
    THEN AheadBodies(asts, j + 1, Append(bodies, IF asts[j].kind = "la" THEN cond ELSE Not(cond)), r.e)
    ELSE Ok(IF ZeroWidth(Elim(r.v)) THEN <<>> ELSE Append(bodies, cond), r.e)
Conditioned(r, asts, j, bodies) == AddBody(r, Cat(Elim(r.v), TS), asts, j, bodies)
AheadBodies(asts, j, bodies, e) ==
    IF j > Len(asts) THEN Ok(bodies, e)
    ELSE IF asts[j].k = "look" /\ asts[j].kind \in {"lb", "nlb"} THEN AheadBodies(asts, j + 1, bodies, e)
    ELSE Conditioned(Convert(IF asts[j].k = "look" THEN asts[j].body ELSE asts[j], e), asts, j, bodies)

\* merge_boundary_with_following_lookaheads
MergeWith(r, asts, j, bodies) == IF Bad(r) THEN r ELSE Merge(asts, j + 1, Append(bodies, Cat(r.v, TS)), r.e)
Merge(asts, j, bodies, e) ==
    IF j > Len(asts) \/ asts[j].k # "look" \/ asts[j].kind # "la"
    THEN Ok([node |-> Ahead(Ands(bodies)), next |-> j], e)
    ELSE MergeWith(Convert(asts[j].body, e), asts, j, bodies)

\* rewrite_word_boundary_in_concat
RewriteBetween(l, r, asts, i, negated) ==
    IF Bad(r) THEN r
    ELSE IF l \in {"word", "other"} /\ r.v \notin {"word", "other"} /\ (l = "word") = negated
    THEN Merge(asts, i + 1, <<Cat(Word, TS)>>, r.e)
    ELSE Ok([node |-> BoundaryNode(l, r.v, negated), next |-> i + 1], r.e)
RewriteAfter(l, asts, i, negated) ==
    IF Bad(l) THEN l ELSE RewriteBetween(l.v, Resolve(asts, i, 1, l.e), asts, i, negated)
Rewrite(asts, i, e, negated) == RewriteAfter(Resolve(asts, i, -1, e), asts, i, negated)

\* absorb_word_boundary_into_left; bytes of longer code points are left out
AbsorbBefore(r, negated) == IF Bad(r) THEN r ELSE Ok(Branches(r.v, negated), r.e)
AbsorbAfter(l, asts, i, negated) ==
    IF Bad(l) THEN l
    ELSE IF l.v # "unknown" THEN Ok(<<>>, l.e)
    ELSE AbsorbBefore(Resolve(asts, i, 1, l.e), negated)
Absorb(asts, i, left, e, negated) ==
    IF left = Eps \/ Contains(left, Looks \cup {"begin", "end"}) THEN Ok(<<>>, e)
    ELSE AbsorbAfter(Resolve(asts, i, -1, e), asts, i, negated)

AddConverted(r, asts, done) == IF Bad(r) THEN r ELSE ConvertAll(asts, Append(done, r.v), r.e)
ConvertAll(asts, done, e) ==
    IF Len(done) = Len(asts) THEN Ok(done, e)
    ELSE AddConverted(Convert(asts[Len(done) + 1], e), asts, done)

\* a concatenation from element i on: kids done, the last word boundary among them (or 0), and the
\* translator of its own that it has after a flag
Negated(a) == a.tok = Esc("B")
OwnCells(own, e) == IF own.set THEN [e EXCEPT !.tr = own] ELSE e
CellsAfter(own, after, e) == IF own.set THEN [after EXCEPT !.tr = e.tr] ELSE after
OwnAfter(own, after) == IF own.set THEN after.tr ELSE own

AfterFlags(flagged, asts, i, kids, prev) == ConvertConcat(asts, i + 1, kids, prev, flagged.tr, flagged)
AfterChild(r, asts, i, kids, prev, own, e) ==
    IF Bad(r) THEN r
    ELSE ConvertConcat(asts, i + 1, IF r.v = Eps THEN kids ELSE Append(kids, r.v), IF r.v = Eps THEN prev ELSE 0,
                       OwnAfter(own, r.e), CellsAfter(own, r.e, e))
AfterRewrite(r, asts, kids, prev, own) ==
    IF Bad(r) THEN r
    ELSE ConvertConcat(asts, r.v.next,
                       IF prev # 0 THEN [kids EXCEPT ![prev] = And(@, r.v.node)] ELSE Append(kids, r.v.node),
                       IF prev # 0 THEN prev ELSE Len(kids) + 1, own, r.e)
AfterAbsorb(tried, k, left, asts, i, kids, prev, own) ==
    IF Bad(tried) THEN tried
    ELSE IF tried.v # <<>>
    THEN ConvertConcat(asts, i + 1, Append(SubSeq(kids, 1, k - 1), AbsorbedNode(left, tried.v)), prev, own, tried.e)
    ELSE AfterRewrite(Rewrite(asts, i, tried.e, Negated(asts[i])), asts, kids, prev, own)
ConvertBoundary(k, left, asts, i, kids, prev, own, e) ==
    AfterAbsorb(Absorb(asts, i, left, e, Negated(asts[i])), k, left, asts, i, kids, prev, own)
\* what a boundary may be absorbed into: nothing when the suffix begins at 0
Absorbing(kids, k) == IF k = 0 THEN Eps ELSE Suffix(kids, k)
AtSuffix(k, asts, i, kids, prev, own, e) == ConvertBoundary(k, Absorbing(kids, k), asts, i, kids, prev, own, e)

ConvertConcat(asts, i, kids, prev, own, e) ==
    IF i > Len(asts) THEN SpecializeBoundaries(kids, e)
    ELSE IF asts[i].k = "flags"
    THEN IF FlagState(asts[i].flags, "U") # "unset" THEN Err("Unsupported", e)
         ELSE AfterFlags(WithFlags(asts[i].flags, e), asts, i, kids, prev)
    ELSE IF IsBoundary(asts[i])
    THEN AtSuffix(IF prev = 0 THEN NonNullableSuffix(kids) ELSE 0, asts, i, kids, prev, own, e)
    ELSE AfterChild(Convert(asts[i], OwnCells(own, e)), asts, i, kids, prev, own, e)

\* the cells inside a group
Inside(group, e) ==
    IF group.kind = "flags" /\ group.flags # <<>> THEN WithFlags(group.flags, e) ELSE e
Forbidden(group, e) == Captures(group) /\ e.depth > 0

RewrittenAlone(r) == IF Bad(r) THEN r ELSE Ok(r.v.node, r.e)
Repeating(op, r) == IF Bad(r) THEN r ELSE Checked(RepetitionNode(op, r.v), r.e)
Looking(kind, r, e) == IF Bad(r) THEN r ELSE Checked(LookaroundNode(kind, r.v), [r.e EXCEPT !.depth = e.depth])
Grouped(group, r, e) ==
    IF Bad(r) THEN r ELSE Ok(IF Captures(group) THEN Captured(group, r.v) ELSE r.v, Restore(r.e, e))
Complemented(r) == IF Bad(r) THEN r ELSE Ok(Not(r.v), r.e)
Joined(kind, r) == IF Bad(r) THEN r ELSE Ok(IF kind = "alt" THEN Ors(r.v) ELSE Ands(r.v), r.e)
Convert(a, e) ==
    CASE a.k = "empty" -> Ok(Eps, e)
      [] a.k = "flags" ->
           IF FlagState(a.flags, "U") # "unset" THEN Err("Unsupported", e) ELSE Ok(Eps, WithFlags(a.flags, e))
      [] a.k = "atom" ->
           IF IsBoundary(a) THEN RewrittenAlone(Rewrite(<<a>>, 1, e, Negated(a))) ELSE Ok(AtomNode(a.tok, e), e)
      [] a.k = "class" ->
           CASE ClassNode(a, e.tr.i) = "unsupported" -> Err("Unsupported", e)
             [] ClassNode(a, e.tr.i) = "all" -> Ok(Top, e)
             [] OTHER -> Ok(SetOf(ItemSet(a, e.tr.i)), e)
      [] a.k = "rep" -> Repeating(a.op, Convert(a.body, e))
      [] a.k = "look" -> Looking(a.kind, Convert(a.body, [e EXCEPT !.depth = @ + 1]), e)
      [] a.k = "group" ->
           IF Forbidden(a.group, e) THEN Err("CaptureGroupInLookaround", e)
           ELSE Grouped(a.group, Convert(a.body, Inside(a.group, e)), e)
      [] a.k = "compl" ->
           IF ContainsLookaround(a.body) THEN Err("Unsupported", e) ELSE Complemented(Convert(a.body, e))
      [] a.k = "concat" -> ConvertConcat(a.asts, 1, <<>>, 0, NoTranslator, e)
      [] a.k \in {"alt", "inter"} -> Joined(a.k, ConvertAll(a.asts, <<>>, e))

(***************************************************************************)
(* ast_to_sk: the nodes of a skeleton, with the term of each.              *)
(***************************************************************************)
Leaf(n) == [k |-> "leaf", node |-> n]
SkOf(kind, kids, n) == [k |-> kind, kids |-> kids, node |-> n]
Nodes(kids) == [i \in 1 .. Len(kids) |-> kids[i].node]
\* a mutant: only the last part of the left side goes into the skeleton
AbsorbedLast(kids, k, left, br) ==
    LET inter(b) == SkOf("inter", <<kids[Len(kids)], Leaf(br[b].on)>>, And(left, br[b].on))
        arm(b) == IF br[b].la = Eps THEN inter(b)
                  ELSE SkOf("concat", <<inter(b), Leaf(br[b].la)>>, AbsorbedArms(left, br)[b])
    IN IF Len(br) = 1 THEN arm(1) ELSE SkOf("union", [b \in 1 .. Len(br) |-> arm(b)], AbsorbedNode(left, br))

AbsorbedSk(kids, k, left, br) ==
    LET suffix == SubSeq(kids, k, Len(kids))
        leftSk == IF Len(suffix) = 1 THEN suffix[1] ELSE SkOf("concat", suffix, left)
        inter(b) == SkOf("inter", <<leftSk, Leaf(br[b].on)>>, And(left, br[b].on))
        arm(b) == IF br[b].la = Eps THEN inter(b)
                  ELSE SkOf("concat", <<inter(b), Leaf(br[b].la)>>, AbsorbedArms(left, br)[b])
    IN IF Len(br) = 1 THEN arm(1) ELSE SkOf("union", [b \in 1 .. Len(br) |-> arm(b)], AbsorbedNode(left, br))

RECURSIVE ToSk(_, _), SkAll(_, _, _, _), SkConcat(_, _, _, _, _), Spliced(_)
LeafOf(r) == IF Bad(r) THEN r ELSE Ok(Leaf(r.v), r.e)

\* the children of a union are those of its unions
AddSk(r, asts, i, done) == IF Bad(r) THEN r ELSE SkAll(asts, i + 1, Append(done, r.v), r.e)
SkAll(asts, i, done, e) == IF i > Len(asts) THEN Ok(done, e) ELSE AddSk(ToSk(asts[i], e), asts, i, done)
Spliced(kids) ==
    IF kids = <<>> THEN <<>>
    ELSE (IF kids[1].k = "union" THEN kids[1].kids ELSE <<kids[1]>>) \o Spliced(Tail(kids))

SkAfterFlags(flagged, asts, i, kids) == SkConcat(asts, i + 1, kids, flagged.tr, flagged)
SkAfterChild(r, asts, i, kids, own, e) ==
    IF Bad(r) THEN r
    ELSE SkConcat(asts, i + 1, Append(kids, r.v), OwnAfter(own, r.e), CellsAfter(own, r.e, e))
SkAfterRewrite(r, asts, kids, own) ==
    IF Bad(r) THEN r ELSE SkConcat(asts, r.v.next, Append(kids, Leaf(r.v.node)), own, r.e)
SkAfterAbsorb(tried, k, left, asts, i, kids, own) ==
    IF Bad(tried) THEN tried
    ELSE IF tried.v # <<>>
    THEN SkConcat(asts, i + 1, Append(SubSeq(kids, 1, k - 1), AbsorbedSk(kids, k, left, tried.v)), own, tried.e)
    ELSE SkAfterRewrite(Rewrite(asts, i, tried.e, Negated(asts[i])), asts, kids, own)
SkAtBoundary(k, left, asts, i, kids, own, e) ==
    SkAfterAbsorb(Absorb(asts, i, left, e, Negated(asts[i])), k, left, asts, i, kids, own)
SkAtSuffix(k, asts, i, kids, own, e) == SkAtBoundary(k, Absorbing(Nodes(kids), k), asts, i, kids, own, e)
SkConcat(asts, i, kids, own, e) ==
    IF i > Len(asts) THEN Ok(SkOf("concat", kids, Cats(Nodes(kids))), e)
    ELSE IF asts[i].k = "flags"
    THEN IF FlagState(asts[i].flags, "U") # "unset" THEN Err("Unsupported", e)
         ELSE SkAfterFlags(WithFlags(asts[i].flags, e), asts, i, kids)
    ELSE IF IsBoundary(asts[i]) THEN SkAtSuffix(NonNullableSuffix(Nodes(kids)), asts, i, kids, own, e)
    ELSE SkAfterChild(ToSk(asts[i], OwnCells(own, e)), asts, i, kids, own, e)

\* a repetition, by its bounds; the model of a repeat keeps the term of the whole
SkOptional(r) == IF Bad(r) THEN r ELSE Ok(SkOf("optional", <<r.v>>, Or(Eps, r.v.node)), r.e)
RepeatOf(a, again, whole) ==
    IF Bad(again) THEN again
    ELSE IF RepLo(a.op) >= 2 /\ RepHi(a.op) # Many /\ HasCapture(a.body) /\ EmptyLookArm(a.body)
    THEN Err("Unsupported", again.e)
    ELSE Ok([k |-> "repeat", kids |-> <<again.v>>, lo |-> RepLo(a.op), hi |-> RepHi(a.op), node |-> whole.v], again.e)
SkRepeat(a, whole) == IF Bad(whole) THEN whole ELSE RepeatOf(a, ToSk(a.body, whole.e), whole)
IsOnce(op) == op.t = "count" /\ RepLo(op) = 1 /\ RepHi(op) = 1
IsOptional(op) == RepHi(op) = 1 /\ RepLo(op) = 0 /\ (op.t = "count" => op.comma)
IsRepeat(a) == RepHi(a.op) >= 2 /\ (Ambiguous(a.body) \/ HasCapture(a.body))

SkGrouped(group, r, e) ==
    IF Bad(r) THEN r
    ELSE Ok(IF Captures(group) THEN SkOf("group", <<r.v>>, Captured(group, r.v.node)) ELSE r.v, Restore(r.e, e))
UnionSk(kids, e) == Ok(SkOf("union", kids, Ors(Nodes(kids))), e)
SkJoined(kind, r) ==
    IF Bad(r) THEN r
    ELSE IF kind = "alt" THEN UnionSk(Spliced(r.v), r.e) ELSE Ok(SkOf("inter", r.v, Ands(Nodes(r.v))), r.e)
\* what has no part of interest is a leaf
Plainly(a) ==
    \/ ~HasCapture(a) /\ ~NeedsRepeatModel(a)
    \/ a.k \notin {"group", "alt", "inter", "concat", "rep"}
    \/ a.k = "rep" /\ ~IsOnce(a.op) /\ ~IsOptional(a.op) /\ ~IsRepeat(a)
ToSk(a, e) ==
    CASE Plainly(a) -> LeafOf(Convert(a, e))
      [] ~Plainly(a) /\ a.k = "group" ->
           IF Forbidden(a.group, e) THEN Err("CaptureGroupInLookaround", e)
           ELSE SkGrouped(a.group, ToSk(a.body, Inside(a.group, e)), e)
      [] ~Plainly(a) /\ a.k \in {"alt", "inter"} -> SkJoined(a.k, SkAll(a.asts, 1, <<>>, e))
      [] ~Plainly(a) /\ a.k = "concat" -> SkConcat(a.asts, 1, <<>>, NoTranslator, e)
      [] ~Plainly(a) /\ a.k = "rep" ->
           IF IsOnce(a.op) THEN ToSk(a.body, e)
           ELSE IF IsOptional(a.op) THEN SkOptional(ToSk(a.body, e))
           ELSE SkRepeat(a, Convert(a, e))

(***************************************************************************)
(* parse_with_skeleton: check the tree, translate it, and translate it     *)
(* again for the skeleton, with the cells as they were.                    *)
(***************************************************************************)
NotYet == Err("todo", Cells)
Parsed == result.k = "ast"

RejectLookbehind ==
    /\ Parsed /\ node = NotYet /\ ~LookbehindsAtStart(result.ast, TRUE)
    /\ node' = Err("LookbehindNotAtStart", Cells)
    /\ UNCHANGED <<vars, skeleton>>

ToNode ==
    /\ Parsed /\ node = NotYet /\ LookbehindsAtStart(result.ast, TRUE)
    /\ node' = Convert(result.ast, Cells)
    /\ UNCHANGED <<vars, skeleton>>

ToSkeleton ==
    /\ Parsed /\ node # NotYet /\ ~Bad(node) /\ skeleton = NotYet /\ HasCapture(result.ast)
    /\ skeleton' = ToSk(result.ast, Cells)
    /\ UNCHANGED <<vars, node>>

AllInit == Init /\ node = NotYet /\ skeleton = NotYet
AllNext == (Next /\ UNCHANGED <<node, skeleton>>) \/ RejectLookbehind \/ ToNode \/ ToSkeleton
AllSpec == AllInit /\ [][AllNext]_allvars
=============================================================================
