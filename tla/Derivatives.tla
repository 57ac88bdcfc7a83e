------------------------------ MODULE Derivatives ------------------------------
(***************************************************************************)
(* Derivatives of terms, reversal and what the search asks of terms        *)
(* (resharp-algebra/src/lib.rs).  The derivative of a node is a transition *)
(* regex: a tree of tests on the next byte with nodes at its leaves.       *)
(***************************************************************************)
EXTENDS Rewrites

Leaf(n) == [k |-> "leaf", node |-> n]
Ite(c, then, else) == [k |-> "ite", c |-> c, then |-> then, else |-> else]
IsIte(x) == x.k = "ite"

(***************************************************************************)
(* Transition regexes.                                                     *)
(***************************************************************************)
RECURSIVE MkIte(_, _, _), Clean(_, _)
\* clean: without the tests whose outcome beta decides
Clean(beta, x) ==
    IF ~IsIte(x) THEN x
    ELSE IF beta \cap x.c = {} THEN Clean(beta, x.else)
    ELSE IF beta \subseteq x.c THEN Clean(beta, x.then)
    ELSE MkIte(x.c, Clean(beta \cap x.c, x.then), Clean(beta \ x.c, x.else))

\* a mutant: flattens to the left whatever the else branches are
MkIteFlattened(c, then, else) ==
    LET t == Clean(c, then)
        e == Clean(Alphabet \ c, else)
    IN IF then = else \/ c = Alphabet THEN then
       ELSE IF c = {} THEN else
       ELSE IF t = e THEN t
       ELSE IF IsIte(t) THEN MkIte(c \cap t.c, t.then, e)
       ELSE Ite(c, t, e)

MkIte(c, then, else) ==
    LET t == Clean(c, then)
        e == Clean(Alphabet \ c, else)
    IN IF then = else \/ c = Alphabet THEN then
       ELSE IF c = {} THEN else
       ELSE IF t = e THEN t
       ELSE IF IsIte(t) /\ t.else = e THEN MkIte(c \cap t.c, t.then, e)
       ELSE IF IsIte(e) /\ e.then = t THEN MkIte(c \cup e.c, t, e.else)
       ELSE IF t = Leaf(Bot) THEN Ite(Alphabet \ c, e, t)
       ELSE Ite(c, t, e)

\* mk_binary: the leaves of two trees put through a constructor, or with x = y those of one (mk_unary)
RECURSIVE Binary(_, _, _)
Binary(x, y, op) ==
    IF ~IsIte(x) /\ ~IsIte(y) THEN Leaf(Build(op, x.node, y.node))
    ELSE IF IsIte(x) /\ IsIte(y) /\ x.c = y.c
    THEN MkIte(x.c, Binary(x.then, y.then, op), Binary(x.else, y.else, op))
    ELSE IF IsIte(x) /\ (IsIte(y) => Weight(x.c) > Weight(y.c))
    THEN MkIte(x.c, Binary(x.then, y, op), Binary(x.else, y, op))
    ELSE MkIte(y.c, Binary(x, y.then, op), Binary(x, y.else, op))

(***************************************************************************)
(* der: the derivative at a place in the input.  Anchors match no byte.    *)
(***************************************************************************)
Nullable(n, at) == at \in n.null

RECURSIVE Der(_, _)
\* of a concatenation: the derivative of its head, followed by its tail, or that of its tail
DerTail(stepped, n, at) == IF Nullable(n.l, at) THEN Binary(stepped, Der(n.r, at), "union") ELSE stepped
Der(n, at) ==
    IF n.k \in {"begin", "end"} \/ n \in {Bot, Eps} THEN Leaf(Bot)
    ELSE IF IsPred(n) THEN MkIte(n.s, Leaf(Eps), Leaf(Bot))
    ELSE IF IsConcat(n) THEN DerTail(Binary(Der(n.l, at), Leaf(n.r), "concat"), n, at)
    ELSE IF IsStar(n) THEN Binary(Der(n.l, at), Leaf(n), "concat")
    ELSE LET l == Der(n.l, at) IN Binary(l, IF IsCompl(n) THEN l ELSE Der(n.r, at), n.k)

\* transition_term: the leaf for a byte, or for a class of bytes that all reach it
RECURSIVE TransitionTerm(_, _), TransitionTermUniform(_, _)
TransitionTerm(x, S) ==
    IF ~IsIte(x) THEN x.node ELSE TransitionTerm(IF S \cap x.c # {} THEN x.then ELSE x.else, S)
TransitionTermUniform(x, S) ==
    IF ~IsIte(x) THEN x.node
    ELSE IF S \subseteq x.c THEN TransitionTermUniform(x.then, S)
    ELSE IF S \cap x.c = {} THEN TransitionTermUniform(x.else, S)
    ELSE None

(***************************************************************************)
(* reverse, for the scan from the end.                                     *)
(***************************************************************************)
RECURSIVE Reverse(_)
\* a mutant: the anchors stay as they are
ReverseButAnchors(n) ==
    IF n.k \in {"pred", "begin", "end"} THEN n
    ELSE LET l == Reverse(n.l)
             r == IF n.k \in {"star", "compl"} THEN l ELSE Reverse(n.r)
         IN IF IsConcat(n) THEN Concat(r, l) ELSE Build(n.k, l, r)

Reverse(n) ==
    IF n = Begin THEN End
    ELSE IF n = End THEN Begin
    ELSE IF IsPred(n) THEN n
    ELSE LET l == Reverse(n.l)
             r == IF n.k \in {"star", "compl"} THEN l ELSE Reverse(n.r)
         IN IF IsConcat(n) THEN Concat(r, l) ELSE Build(n.k, l, r)

(***************************************************************************)
(* Questions of the search.                                                *)
(***************************************************************************)
\* get_fixed_length
RECURSIVE FixedLength(_)
FixedLength(n) ==
    LET l == FixedLength(n.l)
        r == FixedLength(n.r)
    IN IF n = Eps \/ n.k \in {"begin", "end"} THEN 0
       ELSE IF IsPred(n) THEN IF n = Bot THEN -1 ELSE 1
       ELSE IF IsConcat(n) THEN IF -1 \in {l, r} THEN -1 ELSE l + r
       ELSE IF IsUnion(n) THEN IF l = r THEN l ELSE -1
       ELSE IF IsInter(n) THEN IF l = r \/ r = -1 THEN l ELSE IF l = -1 THEN r ELSE -1
       ELSE -1

\* prune_begin and nonbegins: what is left of a node away from the start
RECURSIVE PruneBegin(_), NonBegins(_), HasAnchor(_)
PruneBegin(n) ==
    IF n = Begin THEN Bot
    ELSE IF n.k \in {"concat", "union", "inter"} THEN Build(n.k, PruneBegin(n.l), PruneBegin(n.r))
    ELSE n
HasAnchor(n) ==
    \/ n.k \in {"begin", "end"}
    \/ n.k \in {"star", "compl"} /\ HasAnchor(n.l)
    \/ n.k \in {"concat", "union", "inter"} /\ (HasAnchor(n.l) \/ HasAnchor(n.r))
NonBegins(n) ==
    IF ~HasAnchor(n) THEN n
    ELSE IF n = Begin THEN Bot
    ELSE IF n.k \in {"concat", "union"}
    THEN Build(n.k, NonBegins(n.l), IF IsConcat(n) THEN n.r ELSE NonBegins(n.r))
    ELSE n
=============================================================================
