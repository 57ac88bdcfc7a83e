------------------------------ MODULE Emptiness ------------------------------
(***************************************************************************)
(* Whether the language of a regex is empty (is_empty_lang of the          *)
(* RegexBuilder, resharp-algebra, lib.rs): a worklist over the derivatives *)
(* of a node that stops at the first that accepts, with verdicts kept in   *)
(* cache_empty for as long as the builder lives.  Constructors ask it in   *)
(* order to simplify, and derivatives are built by constructors: a query   *)
(* may be interrupted, wherever it takes a derivative, by another one on   *)
(* the same cache.                                                         *)
(*                                                                         *)
(* Of the algebra the search sees, for every node, the leaves of its       *)
(* derivatives, whether it accepts, and two flags.  The worklist is a set: *)
(* in which order its nodes are taken matters for the budget only.         *)
(***************************************************************************)
EXTENDS Integers

CONSTANTS
  Node,             \* regexes, Bot among them
  Bot,
  NoNode,           \* not a node: lookarounds that cannot be eliminated
  Algebras,         \* the tables to be searched
  MaxDepth,         \* how deep queries nest
  MaxAsks           \* a bound on the queries

(* An algebra has for every node the leaves of its derivatives but Bot, in *)
(* the middle of the input (der) and at its beginning; the members of a    *)
(* union but the last (lefts); and the node that takes its place once the  *)
(* lookarounds are eliminated, itself if there are none (elim).  Nullable  *)
(* are the nodes that accept at CENTER or END, any those that accept at    *)
(* all, and inter those with an intersection inside.                       *)
Algebra ==
  [der : [Node -> SUBSET (Node \ {Bot})], begin : [Node -> SUBSET (Node \ {Bot})],
   lefts : [Node -> SUBSET (Node \ {Bot})], elim : [Node -> Node \cup {NoNode}],
   nullable : SUBSET (Node \ {Bot}), any : SUBSET (Node \ {Bot}), inter : SUBSET Node]

(* No input leads from n, past its first byte, to a node that accepts: n   *)
(* is in a set that derivatives do not leave and where no node accepts.    *)
Empty(a, n) ==
  \E S \in SUBSET Node : n \in S /\ \A x \in S : x \notin a.nullable /\ a.der[x] \subseteq S

EmptyLang(a, n) ==
  n \notin a.any /\ Empty(a, n) /\ \A x \in a.begin[n] : Empty(a, x)

(* What the constructors promise: nothing is accepted after Bot, a union   *)
(* accepts what its members do, and eliminating lookarounds changes        *)
(* neither the emptiness of a node nor that it accepts nothing at once.    *)
WellFormed(a) ==
  /\ a \in Algebra
  /\ a.der[Bot] = {} /\ a.begin[Bot] = {} /\ a.elim[Bot] = Bot
  /\ a.nullable \subseteq a.any
  /\ \A n \in Node : \A m \in a.lefts[n] : Empty(a, n) => Empty(a, m)
  /\ \A n \in Node : a.elim[n] # NoNode =>
       /\ EmptyLang(a, a.elim[n]) <=> EmptyLang(a, n)
       /\ n \notin a.any => a.elim[n] \notin a.any

ASSUME EmptinessAssumption ==
  /\ Bot \in Node /\ NoNode \notin Node
  /\ \A a \in Algebras : WellFormed(a)
  /\ MaxDepth \in Nat \ {0} /\ MaxAsks \in Nat

VARIABLES
  alg,
  cache,            \* cache_empty
  depth,            \* how many queries are under way, one inside the other
  frame,            \* the variables of each
  answer,           \* what the last query returned
  asks

vars == <<alg, cache, depth, frame, answer, asks>>

Level == 1 .. MaxDepth
Frame ==
  [asked : Node, node : Node, phase : {"begin", "pop", "der"},
   visited : SUBSET Node, work : SUBSET Node, outer : Node]
NoFrame ==
  [asked |-> Bot, node |-> Bot, phase |-> "pop", visited |-> {}, work |-> {},
   outer |-> Bot]

top == frame[depth]
-----------------------------------------------------------------------------
Init ==
  /\ alg \in Algebras
  /\ cache = [n \in Node |-> "unchecked"]
  /\ depth = 0 /\ frame = [l \in Level |-> NoFrame]
  /\ answer = [asked |-> Bot, verdict |-> "none"]
  /\ asks = 0

(* The nodes iter_find_stack shows: of a union its members and, in place   *)
(* of the last, the union itself.                                          *)
Shown(leaves) == leaves \cup UNION {alg.lefts[n] : n \in leaves}

Answers(n, verdict) == answer' = [asked |-> n, verdict |-> verdict]

(* is_empty_lang: most queries are answered without a search.              *)
AtOnce(n) ==
  CASE n = Bot -> "empty"
    [] n # Bot /\ n \in alg.any -> "nonempty"
    [] n # Bot /\ n \notin alg.any /\ cache[n] # "unchecked" -> cache[n]
    [] OTHER ->
         CASE alg.elim[n] = NoNode -> "unknown"
           [] alg.elim[n] # NoNode /\ alg.elim[n] \notin alg.inter -> "nonempty"
           [] OTHER -> "search"

(* Where a query takes a derivative, a constructor may ask another.        *)
MayAsk == depth < MaxDepth /\ (depth > 0 => top.phase \in {"begin", "der"})

Ask(n) ==
  /\ MayAsk /\ asks < MaxAsks
  /\ asks' = asks + 1
  /\ \/ /\ AtOnce(n) # "search"
        /\ Answers(n, AtOnce(n))
        /\ UNCHANGED <<depth, frame>>
     \/ /\ AtOnce(n) = "search"
        /\ depth' = depth + 1
        /\ frame' = [frame EXCEPT ![depth + 1] =
             [NoFrame EXCEPT !.asked = n, !.node = alg.elim[n], !.phase = "begin"]]
        /\ UNCHANGED answer
  /\ UNCHANGED <<alg, cache>>

Return(verdict) ==
  /\ Answers(top.asked, verdict)
  /\ depth' = depth - 1
  /\ frame' = [frame EXCEPT ![depth] = NoFrame]

(* As a bug would have it: the nodes at the beginning are only looked at.  *)
BeginUnexplored ==
  /\ depth > 0 /\ top.phase = "begin"
  /\ LET shown == Shown(alg.begin[top.node])
     IN  \/ /\ shown \cap alg.nullable # {}
            /\ Return("nonempty")
         \/ /\ shown \cap alg.nullable = {}
            /\ frame' = [frame EXCEPT ![depth].phase = "pop", ![depth].visited = shown,
                                      ![depth].work = {top.node}]
            /\ UNCHANGED <<depth, answer>>
  /\ UNCHANGED <<alg, cache, asks>>

(* The derivative at the beginning: its nodes are looked at first.         *)
Begin ==
  /\ depth > 0 /\ top.phase = "begin"
  /\ LET shown == Shown(alg.begin[top.node])
     IN  \/ /\ shown \cap alg.nullable # {}
            /\ Return("nonempty")
         \/ /\ shown \cap alg.nullable = {}
            /\ frame' = [frame EXCEPT ![depth].phase = "pop", ![depth].visited = shown,
                                      ![depth].work = shown \cup {top.node}]
            /\ UNCHANGED <<depth, answer>>
  /\ UNCHANGED <<alg, cache, asks>>

(* The next node: it may have been decided by an earlier query.            *)
Pop ==
  /\ depth > 0 /\ top.phase = "pop"
  /\ \E n \in top.work :
       \/ /\ cache[n] = "empty"
          /\ frame' = [frame EXCEPT ![depth].work = @ \ {n}]
          /\ UNCHANGED <<depth, answer>>
       \/ /\ cache[n] = "nonempty"
          /\ Return("nonempty")
       \/ /\ cache[n] = "unchecked"
          /\ frame' = [frame EXCEPT ![depth].work = @ \ {n}, ![depth].outer = n,
                                    ![depth].phase = "der"]
          /\ UNCHANGED <<depth, answer>>
  /\ UNCHANGED <<alg, cache, asks>>

(* The worklist is exhausted: nothing that accepts was found.              *)
Exhausted ==
  /\ depth > 0 /\ top.phase = "pop" /\ top.work = {}
  /\ cache' = [cache EXCEPT ![top.node] = "empty"]
  /\ Return("empty")
  /\ UNCHANGED <<alg, asks>>

(* As a bug would have it: nodes already visited are put back.             *)
ExploreAgain ==
  /\ depth > 0 /\ top.phase = "der"
  /\ LET shown == Shown(alg.der[top.outer])
         found == {n \in shown : n \notin alg.inter \/ n \in alg.nullable}
     IN  \/ /\ found # {}
            /\ cache' = [cache EXCEPT ![top.outer] = "nonempty", ![top.node] = "nonempty"]
            /\ Return("nonempty")
         \/ /\ found = {}
            /\ frame' = [frame EXCEPT ![depth].visited = @ \cup shown,
                                      ![depth].work = @ \cup shown,
                                      ![depth].phase = "pop"]
            /\ UNCHANGED <<depth, answer, cache>>
  /\ UNCHANGED <<alg, asks>>

(* The derivatives of outer.  One without an intersection that is not Bot  *)
(* is taken for non-empty, as one that accepts is.                         *)
Explore ==
  /\ depth > 0 /\ top.phase = "der"
  /\ LET fresh == Shown(alg.der[top.outer]) \ top.visited
         found == {n \in fresh : n \notin alg.inter \/ n \in alg.nullable}
     IN  \/ /\ found # {}
            /\ cache' = [cache EXCEPT ![top.outer] = "nonempty", ![top.node] = "nonempty"]
            /\ Return("nonempty")
         \/ /\ found = {}
            /\ frame' = [frame EXCEPT ![depth].visited = @ \cup fresh,
                                      ![depth].work = @ \cup fresh,
                                      ![depth].phase = "pop"]
            /\ UNCHANGED <<depth, answer, cache>>
  /\ UNCHANGED <<alg, asks>>

(* As a bug would have it: a search given up counts as one that found.     *)
FailsChecked ==
  /\ depth > 0
  /\ cache' = [cache EXCEPT ![top.node] = "nonempty"]
  /\ Return("unknown")
  /\ UNCHANGED <<alg, asks>>

(* The derivative cannot be built, or the budget of nodes is used up.      *)
Fails ==
  /\ depth > 0
  /\ Return("unknown")
  /\ UNCHANGED <<alg, cache, asks>>

Search == Begin \/ Pop \/ Exhausted \/ Explore

Next == Search \/ Fails \/ \E n \in Node : Ask(n)

(* A query goes on; it owes no failure, and callers need not ask.          *)
Spec == Init /\ [][Next]_vars /\ WF_vars(Search)

-----------------------------------------------------------------------------
Verdict == {"empty", "nonempty", "unknown"}

TypeOK ==
  /\ alg \in Algebra
  /\ cache \in [Node -> {"unchecked", "empty", "nonempty"}]
  /\ depth \in 0 .. MaxDepth
  /\ frame \in [Level -> Frame]
  /\ answer \in [asked : Node, verdict : Verdict \cup {"none"}]
  /\ asks \in 0 .. MaxAsks

(* The constructors drop a node on the strength of "empty": it is never    *)
(* said of a node that accepts something, whatever was asked before or     *)
(* while the derivatives were taken, and also where a search failed.       *)
EmptySound == answer.verdict = "empty" => EmptyLang(alg, answer.asked)

(* Where the search's two assumptions hold: a node without an intersection *)
(* is not empty, and the beginning of the input is like its middle.        *)
Plain(a) ==
  /\ \A n \in Node \ {Bot} : n \notin a.inter => ~Empty(a, n)
  /\ a.begin = a.der
  /\ \A n \in Node : n # Bot => a.elim[n] # Bot

(* There "nonempty" is never said of an empty node: no verdict in the      *)
(* cache outlives the reason it was put there for.                         *)
NonemptySound ==
  Plain(alg) /\ answer.verdict = "nonempty" => ~EmptyLang(alg, answer.asked)

(* Every query returns: a node is put on the worklist once.                *)
QueriesReturn == depth > 0 ~> depth = 0
=============================================================================
