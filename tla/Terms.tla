--------------------------------- MODULE Terms ---------------------------------
(***************************************************************************)
(* The terms of resharp-algebra/src/lib.rs and the constructors that build *)
(* and rewrite them, for predicates, concatenation, union, intersection,   *)
(* complement, star and the anchors \A and \z.  A node is a record with    *)
(* what the code keeps about it in its tables: at which positions it       *)
(* matches the empty word (null, and es for the empty input), and bounds   *)
(* on the length of what it matches.  The code numbers nodes as it creates *)
(* them and orders unions by number; here the order is by size and then by *)
(* structure, which is the order of one possible creation.                 *)
(***************************************************************************)
EXTENDS Integers, Sequences, FiniteSets
LOCAL INSTANCE FiniteSetsExt

CONSTANTS
    Alphabet,   \* the bytes, as numbers for the classes that predicates tell apart
    Inf         \* u32::MAX as a length

ASSUME TermsAssumption == Inf \in Nat /\ IsFiniteSet(Alphabet) /\ Alphabet \subseteq Nat

Locations == {"center", "begin", "end"}
Always == Locations

(***************************************************************************)
(* init: a node with its metadata.                                         *)
(***************************************************************************)
Lesser(m, n) == IF m < n THEN m ELSE n
Greater(m, n) == IF m < n THEN n ELSE m
SaturatingAdd(m, n) == IF m + n > Inf THEN Inf ELSE m + n
None == [k |-> "none"]

Pred(S) ==
    [k |-> "pred", s |-> S, null |-> {}, es |-> FALSE, min |-> 1, max |-> 1, inf |-> FALSE, size |-> 1]
Bot == Pred({})
Eps ==
    [k |-> "star", l |-> Bot, null |-> Always, es |-> TRUE, min |-> 0, max |-> 0, inf |-> FALSE, size |-> 1]
Anchor(k, at) ==
    [k |-> k, null |-> {at}, es |-> TRUE, min |-> 0, max |-> 0, inf |-> FALSE, size |-> 1]
Begin == Anchor("begin", "begin")
End == Anchor("end", "end")

\* flags_star, flags_compl and the lengths of compute_node_len
NewStar(b) ==
    [k |-> "star", l |-> b, null |-> Always, es |-> TRUE, min |-> 0, max |-> Inf, inf |-> TRUE, size |-> b.size + 1]
\* a mutant: takes nullable somewhere for nullable everywhere
NewComplSomewhere(b) ==
    [k |-> "compl", l |-> b, null |-> Always \ b.null, es |-> ~b.es,
     min |-> IF b.null # {} THEN 1 ELSE 0, max |-> Inf, inf |-> TRUE, size |-> b.size + 1]
NewCompl(b) ==
    [k |-> "compl", l |-> b, null |-> Always \ b.null, es |-> ~b.es,
     min |-> IF b.null = Always THEN 1 ELSE 0, max |-> Inf, inf |-> TRUE, size |-> b.size + 1]
NewConcat(h, t) ==
    [k |-> "concat", l |-> h, r |-> t, null |-> h.null \cap t.null, es |-> h.es /\ t.es,
     min |-> h.min + t.min, max |-> IF h.inf \/ t.inf THEN Inf ELSE SaturatingAdd(h.max, t.max),
     inf |-> h.inf \/ t.inf, size |-> h.size + t.size + 1]
NewUnion(l, r) ==
    [k |-> "union", l |-> l, r |-> r, null |-> l.null \cup r.null, es |-> l.es \/ r.es,
     min |-> Lesser(l.min, r.min), max |-> IF l.inf \/ r.inf THEN Inf ELSE Greater(l.max, r.max),
     inf |-> l.inf \/ r.inf, size |-> l.size + r.size + 1]
NewInter(l, r) ==
    [k |-> "inter", l |-> l, r |-> r, null |-> l.null \cap r.null, es |-> l.es /\ r.es,
     min |-> Greater(l.min, r.min), max |-> Lesser(l.max, r.max),
     inf |-> l.inf /\ r.inf, size |-> l.size + r.size + 1]

Top == Pred(Alphabet)
TS == NewStar(Top)
TopPlus == NewConcat(Top, TS)

(***************************************************************************)
(* Questions about nodes.                                                  *)
(***************************************************************************)
IsPred(n) == n.k = "pred"
IsStar(n) == n.k = "star" /\ n # Eps
IsPredStar(n) == IsStar(n) /\ IsPred(n.l)
IsConcat(n) == n.k = "concat"
IsUnion(n) == n.k = "union"
IsInter(n) == n.k = "inter"
IsCompl(n) == n.k = "compl"
IsPlus(n) == IsConcat(n) /\ IsStar(n.r) /\ n.r.l = n.l

RECURSIVE StartsWithTS(_), EndsWithTS(_), HasConcatTail(_, _), Arms(_, _)
StartsWithTS(n) ==
    \/ n = TS
    \/ n.k \in {"inter", "union"} /\ StartsWithTS(n.l) /\ StartsWithTS(n.r)
    \/ IsConcat(n) /\ StartsWithTS(n.l)
EndsWithTS(n) == IF IsConcat(n) THEN EndsWithTS(n.r) ELSE n = TS
HasConcatTail(n, tail) == n = tail \/ (IsConcat(n) /\ HasConcatTail(n.r, tail))
\* the components of a chain of unions or of intersections
Arms(n, kind) == IF n.k = kind THEN <<n.l>> \o Arms(n.r, kind) ELSE <<n>>
ArmSet(n, kind) == {Arms(n, kind)[i] : i \in 1 .. Len(Arms(n, kind))}
NeverReachesEnd(n) == IsCompl(n) /\ IsConcat(n.l) /\ n.l.l = TS /\ n.l.r = End

\* the order of NodeIds
FirstIds == <<Bot, Eps, Top, TS, TopPlus, Begin, End>>
KindOrder == <<"pred", "concat", "union", "inter", "compl", "star">>
Index(s, x) == CHOOSE i \in 1 .. Len(s) : s[i] = x
IsFirst(n) == \E i \in 1 .. Len(FirstIds) : FirstIds[i] = n
Weight(S) == MapThenSumSet(LAMBDA x : 2 ^ x, S)
RECURSIVE Less(_, _)
Less(x, y) ==
    CASE x = y -> FALSE
      [] IsFirst(x) /\ IsFirst(y) -> Index(FirstIds, x) < Index(FirstIds, y)
      [] IsFirst(x) # IsFirst(y) -> IsFirst(x)
      [] x.size # y.size -> x.size < y.size
      [] x.k # y.k -> Index(KindOrder, x.k) < Index(KindOrder, y.k)
      [] IsPred(x) -> Weight(x.s) < Weight(y.s)
      [] x.l # y.l -> Less(x.l, y.l)
      [] OTHER -> Less(x.r, y.r)

(***************************************************************************)
(* Simplifications after a union is made (post_init_simplify).  Its rule   *)
(* for concatenations asks for a bounded one that starts with a star,      *)
(* which no concatenation is: a star has no bound.                         *)
(***************************************************************************)
RECURSIVE NullableSubsumes(_, _)
\* a mutant: takes a head that matches nothing somewhere for one that does so everywhere
NullableSubsumesSomewhere(node, target) ==
    \/ node = target
    \/ IsUnion(node) /\ (NullableSubsumes(node.l, target) \/ NullableSubsumes(node.r, target))
    \/ IsConcat(node) /\ node.l.null # {} /\ NullableSubsumes(node.r, target)

\* target is an arm of node, or of what follows a head that always matches nothing
NullableSubsumes(node, target) ==
    \/ node = target
    \/ IsUnion(node) /\ (NullableSubsumes(node.l, target) \/ NullableSubsumes(node.r, target))
    \/ IsConcat(node) /\ node.l.null = Always /\ NullableSubsumes(node.r, target)
UnionBranchesSubset(l, r) == IsUnion(l) /\ ArmSet(l, "union") \subseteq ArmSet(r, "union")

InitUnion(l, r) ==
    IF NullableSubsumes(r, l) \/ (l # r /\ UnionBranchesSubset(l, r)) THEN r ELSE NewUnion(l, r)

(***************************************************************************)
(* Chains of unions, kept in the order of the nodes.                       *)
(***************************************************************************)
RECURSIVE UnionPlace(_, _), UnionRemove(_, _)
UnionPlace(e, chain) ==
    IF ~IsUnion(chain) THEN IF Less(e, chain) THEN InitUnion(e, chain) ELSE InitUnion(chain, e)
    ELSE IF e = chain.l THEN chain
    ELSE IF Less(e, chain.l) THEN InitUnion(e, chain)
    ELSE InitUnion(chain.l, UnionPlace(e, chain.r))
UnionRemove(chain, victim) ==
    LET tail == UnionRemove(chain.r, victim)
    IN IF chain = victim THEN Bot
       ELSE IF ~IsUnion(chain) THEN chain
       ELSE IF chain.l = victim THEN chain.r
       ELSE IF tail = chain.r THEN chain
       ELSE IF tail = Bot THEN chain.l
       ELSE InitUnion(chain.l, tail)

\* as_pred_chain_star: P...P S* with an optional _* in front
RECURSIVE PredRun(_)
PredRun(n) == IF IsConcat(n) /\ IsPred(n.l) THEN <<n.l>> \o PredRun(n.r) ELSE <<>>
RECURSIVE AfterRun(_)
AfterRun(n) == IF IsConcat(n) /\ IsPred(n.l) THEN AfterRun(n.r) ELSE n
PredChainOf(prefixed, run, star) ==
    IF run = <<>> \/ ~IsStar(star) \/ \E i \in 1 .. Len(run) : run[i] # run[1]
    THEN None
    ELSE [k |-> "chain", prefixed |-> prefixed, pred |-> run[1], star |-> star, count |-> Len(run)]
PredChain(n) ==
    LET body == IF IsConcat(n) /\ n.l = TS THEN n.r ELSE n
    IN PredChainOf(body # n, PredRun(body), AfterRun(body))

RECURSIVE SortedSubset(_, _)
SortedSubset(sub, sup) ==
    \/ sub = <<>>
    \/ sup # <<>> /\ (IF Less(sup[1], sub[1]) THEN SortedSubset(sub, Tail(sup))
                      ELSE sup[1] = sub[1] /\ SortedSubset(Tail(sub), Tail(sup)))

\* try_subsume_inter_union: the intersection with fewer conditions, or the shorter chain
ShorterChain(left, right, a, b) ==
    IF None \in {a, b} THEN None
    ELSE IF /\ a.prefixed = b.prefixed /\ a.pred = b.pred /\ a.star = b.star /\ a.count # b.count
            /\ IsPred(a.star.l) /\ a.pred.s \subseteq a.star.l.s
    THEN IF a.count < b.count THEN left ELSE right
    ELSE None
OneDifference(left, right, l, r, differ) ==
    IF Cardinality(differ) # 1 THEN None
    ELSE LET i == CHOOSE j \in differ : TRUE
         IN ShorterChain(left, right, PredChain(l[i]), PredChain(r[i]))
SubsumedArms(left, right, l, r) ==
    IF Len(l) <= Len(r) /\ SortedSubset(l, r) THEN left
    ELSE IF Len(r) <= Len(l) /\ SortedSubset(r, l) THEN right
    ELSE IF Len(l) # Len(r) THEN None
    ELSE OneDifference(left, right, l, r, {i \in 1 .. Len(l) : l[i] # r[i]})
SubsumedInter(left, right) == SubsumedArms(left, right, Arms(left, "inter"), Arms(right, "inter"))
=============================================================================
