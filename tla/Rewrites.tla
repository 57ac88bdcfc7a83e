-------------------------------- MODULE Rewrites --------------------------------
(***************************************************************************)
(* The constructors of RegexBuilder (resharp-algebra/src/lib.rs) and the   *)
(* rules by which they rewrite what they are asked for, each in the order  *)
(* in which the code tries it.  A rule that does not apply gives None.     *)
(* Tables of what was built before hold what the same calls return, and    *)
(* are left out.                                                           *)
(***************************************************************************)
EXTENDS Terms

RECURSIVE Build(_, _, _)
\* What the rules ask for in turn, they ask for here.
Concat(h, t) == Build("concat", h, t)
Union(l, r) == Build("union", l, r)
Inter(l, r) == Build("inter", l, r)
Compl(n) == Build("compl", n, n)
Star(n) == Build("star", n, n)
Opt(n) == Union(Eps, n)
Plus(n) == Concat(n, Star(n))

\* what a rule made of the term, or the term without it
OrElse(rewritten, plain) == IF rewritten # None THEN rewritten ELSE plain

(***************************************************************************)
(* Concatenation.                                                          *)
(***************************************************************************)
\* attempt_rw_concat_2
RwConcat(h, t) ==
    IF h = End /\ t = TS THEN h
    ELSE IF h = TS /\ t.null = Always THEN TS
    ELSE IF t = TS /\ h.null = Always THEN TS
    ELSE IF IsInter(h) /\ t = TS /\ \A n \in ArmSet(h, "inter") : EndsWithTS(n) THEN h
    ELSE IF IsStar(h) /\ h = t THEN h
    ELSE None

\* concatenations lean to the right
RECURSIVE ConcatHeads(_, _)
ConcatHeads(h, t) == IF IsConcat(h) THEN Concat(h.l, ConcatHeads(h.r, t)) ELSE Concat(h, t)

ConcatLonger(h, t) ==
    IF IsStar(h) /\ IsConcat(t) THEN IF h = t.l THEN t ELSE NewConcat(h, t)
    ELSE IF IsConcat(t) THEN OrElse(RwConcat(Concat(h, t.l), t.r), NewConcat(h, t))
    ELSE IF h = TS /\ StartsWithTS(t) THEN t
    ELSE NewConcat(h, t)
ConcatRewritten(h, t, first) ==
    IF first # None THEN Concat(first, t.r) ELSE OrElse(RwConcat(h, t), ConcatLonger(h, t))

MkConcat(h, t) ==
    IF Bot \in {h, t} THEN Bot
    ELSE IF h = Eps THEN t
    ELSE IF t = Eps THEN h
    ELSE IF IsConcat(h) THEN ConcatHeads(h, t)
    ELSE IF h = End /\ "end" \notin t.null /\ ~t.es THEN Bot
    ELSE IF t = End /\ NeverReachesEnd(h) THEN Bot
    ELSE IF t = Begin /\ h.min >= 1 THEN Bot
    ELSE ConcatRewritten(h, t, IF IsConcat(t) THEN RwConcat(h, t.l) ELSE None)

(***************************************************************************)
(* Union.                                                                  *)
(***************************************************************************)
\* two concatenations with the same head
RwUnionTails(l, r) ==
    IF l.l = TS /\ HasConcatTail(r.r, l.r) THEN l
    ELSE IF l.l = TS /\ HasConcatTail(l.r, r.r) THEN r
    ELSE Concat(l.l, Union(l.r, r.r))

\* attempt_rw_union_2
RwUnion(l, r) ==
    IF l = r THEN l
    ELSE IF IsInter(r) /\ l \in ArmSet(r, "inter") THEN l
    ELSE IF IsUnion(r) /\ l \in ArmSet(r, "union") THEN r
    ELSE IF IsPred(l) /\ IsPred(r) THEN Pred(l.s \cup r.s)
    ELSE IF l = Eps /\ r.null = Always THEN r
    ELSE IF IsConcat(r) /\ l = End /\ r.l = End /\ "end" \in r.null THEN r
    ELSE IF IsConcat(r) /\ l = r.l THEN Concat(l, Union(Eps, r.r))
    ELSE IF IsConcat(r) /\ IsConcat(l) /\ l.l = r.l THEN RwUnionTails(l, r)
    ELSE IF l = Eps /\ IsPlus(r) THEN Star(r.l)
    ELSE IF IsInter(l) /\ IsInter(r) THEN SubsumedInter(l, r)
    ELSE None

\* attempt_rw_unions: the first arm that takes the element in, if one does
RECURSIVE UnionInsert(_, _), UnionInsertAll(_, _)
UnionTaken(e, chain, arms, rw, takers) ==
    IF takers = {} THEN UnionPlace(e, chain)
    ELSE LET first == CHOOSE i \in takers : \A j \in takers : i <= j
         IN UnionInsert(rw[first], UnionRemove(chain, arms[first]))
UnionOffered(e, chain, arms, rw) ==
    UnionTaken(e, chain, arms, rw, {i \in 1 .. Len(arms) : rw[i] # None})
UnionInsert(e, chain) ==
    LET arms == Arms(chain, "union")
    IN IF e \in {chain, Bot} THEN chain
       ELSE IF chain = Bot THEN e
       ELSE IF ~IsUnion(chain)
       THEN OrElse(RwUnion(IF Less(e, chain) THEN e ELSE chain, IF Less(e, chain) THEN chain ELSE e), UnionPlace(e, chain))
       ELSE UnionOffered(e, chain, arms, [i \in 1 .. Len(arms) |-> RwUnion(e, arms[i])])

UnionInsertAll(arms, chain) ==
    IF arms = <<>> THEN chain ELSE UnionInsertAll(Tail(arms), UnionInsert(Head(arms), chain))

\* mk_union_merge: the arms of the shorter chain go into the longer one
UnionMerge(l, r) ==
    LET left == IsUnion(r) /\ Len(Arms(l, "union")) <= Len(Arms(r, "union"))
    IN UnionInsertAll(Arms(IF left THEN l ELSE r, "union"), IF left THEN r ELSE l)

MkUnion(l, r) ==
    IF Less(r, l) THEN Union(r, l)
    ELSE IF l = r THEN l
    ELSE IF l = Bot THEN r
    ELSE IF TS \in {l, r} THEN TS
    ELSE IF l = Eps /\ r = End THEN Eps
    ELSE OrElse(RwUnion(l, r), IF IsUnion(l) \/ IsUnion(r) THEN UnionMerge(l, r) ELSE InitUnion(l, r))

(***************************************************************************)
(* Intersection.                                                           *)
(***************************************************************************)
\* eps_restrict: what of a node matches the empty word
RECURSIVE EpsRestrict(_)
EpsOfBoth(k, l, r) == IF None \in {l, r} THEN None ELSE Build(k, l, r)
EpsRestrict(n) ==
    IF n.min > 0 THEN Bot
    ELSE IF n.max = 0 THEN n
    ELSE IF n.k = "star" THEN Eps
    ELSE IF n.k \notin {"union", "concat", "inter"} THEN None
    ELSE EpsOfBoth(n.k, EpsRestrict(n.l), EpsRestrict(n.r))

\* what a predicate leaves of the complement of another one and all that follows
IsNotStartingWith(n) == IsCompl(n) /\ IsConcat(n.l) /\ n.l.r = TS /\ IsPred(n.l.l)

RwInterTopPlus(r) ==
    IF IsPredStar(r) THEN Plus(r.l)
    ELSE IF r.min >= 1 THEN r
    ELSE None

\* attempt_rw_inter_2
RwInterLater(l, r) ==
    IF IsPred(l) /\ IsPred(r) THEN Pred(l.s \cap r.s)
    ELSE IF IsPred(l) /\ IsNotStartingWith(r) THEN Pred(l.s \ r.l.l.s)
    ELSE IF IsPred(r) /\ IsNotStartingWith(l) THEN Pred(r.s \ l.l.l.s)
    ELSE IF IsConcat(l) /\ IsConcat(r) /\ l.l = r.l /\ IsPred(l.l) THEN Concat(l.l, Inter(l.r, r.r))
    ELSE IF IsCompl(r) /\ r.l = l THEN Bot
    ELSE IF IsCompl(l) /\ IsCompl(r) THEN Compl(Union(l.l, r.l))
    ELSE IF l = TopPlus /\ RwInterTopPlus(r) # None THEN RwInterTopPlus(r)
    ELSE IF IsCompl(r) /\ IsConcat(r.l) /\ r.l.r = TS /\ r.l.l = l THEN Bot
    ELSE IF IsPredStar(l) /\ IsPredStar(r) THEN Star(Inter(l.l, r.l))
    ELSE IF IsPredStar(l) /\ IsPred(r) /\ l.l.s \cap r.s = {} THEN Bot
    ELSE IF IsPredStar(r) /\ IsPred(l) /\ r.l.s \cap l.s = {} THEN Bot
    ELSE None
RwInter(l, r) ==
    IF l = r THEN l
    ELSE IF IsInter(r) /\ l \in ArmSet(r, "inter") THEN r
    ELSE IF IsUnion(r) /\ l \in ArmSet(r, "union") THEN l
    ELSE IF l.max < r.min \/ r.max < l.min THEN Bot
    ELSE OrElse(IF Eps \in {l, r} THEN EpsRestrict(IF l = Eps THEN r ELSE l) ELSE None, RwInterLater(l, r))

MkInter(l, r) ==
    IF l = r THEN l
    ELSE IF Bot \in {l, r} THEN Bot
    ELSE IF l = TS THEN r
    ELSE IF r = TS THEN l
    ELSE IF Less(r, l) THEN Inter(r, l)
    ELSE OrElse(RwInter(l, r), NewInter(l, r))

(***************************************************************************)
(* Complement, star and repetition.                                        *)
(***************************************************************************)
IsContains(n) == IsConcat(n) /\ n.l = TS /\ IsConcat(n.r) /\ n.r.r = TS

MkCompl(n) ==
    IF n = Bot THEN TS
    ELSE IF n = TS THEN Bot
    ELSE IF IsContains(n) /\ IsPred(n.r.l) THEN Star(Pred(Alphabet \ n.r.l.s))
    ELSE IF IsContains(n) /\ n.r.l = End THEN Bot
    ELSE IF IsCompl(n) THEN n.l
    ELSE NewCompl(n)

MkStar(n) ==
    IF n \in {Begin, End, Bot} THEN Eps
    ELSE IF IsStar(n) THEN n
    ELSE IF IsPlus(n) THEN n.r
    ELSE NewStar(n)

Build(op, m, n) ==
    CASE op = "concat" -> MkConcat(m, n)
      [] op = "union" -> MkUnion(m, n)
      [] op = "inter" -> MkInter(m, n)
      [] op = "compl" -> MkCompl(m)
      [] op = "star" -> MkStar(m)

RECURSIVE Concats(_)
Concats(s) == IF s = <<>> THEN Eps ELSE Concat(Head(s), Concats(Tail(s)))
\* lower copies, and upper - lower optional ones
Repeat(n, lower, upper) ==
    IF upper = 0 THEN Eps
    ELSE IF n \in {Begin, End} THEN IF lower >= 1 THEN n ELSE Opt(n)
    ELSE Concats([i \in 1 .. upper |-> IF i <= lower THEN n ELSE Opt(n)])

(***************************************************************************)
(* mk_unions: sorted, without duplicates, halved until one is left.        *)
(***************************************************************************)
RECURSIVE UnionsBalanced(_)
UnionsBalanced(s) ==
    LET mid == Len(s) \div 2
    IN IF s = <<>> THEN Bot
       ELSE IF Len(s) = 1 THEN s[1]
       ELSE Union(UnionsBalanced(SubSeq(s, 1, mid)), UnionsBalanced(SubSeq(s, mid + 1, Len(s))))
RECURSIVE SortNodes(_)
SortNodes(S) ==
    LET least == CHOOSE n \in S : \A m \in S : ~Less(m, n)
    IN IF S = {} THEN <<>> ELSE <<least>> \o SortNodes(S \ {least})
Unions(S) == UnionsBalanced(SortNodes(S \ {Bot}))
=============================================================================
