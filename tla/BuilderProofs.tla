--------------------------- MODULE BuilderProofs ---------------------------
(***************************************************************************)
(* What a regex builder (resharp-algebra) remembers, and relies on for as  *)
(* long as it lives: its verdicts on emptiness, and its interned sets of   *)
(* null states.                                                            *)
(*                                                                         *)
(* Emptiness, for every algebra that is WellFormed: "empty" is said of     *)
(* empty nodes only and, where the algebra is Plain, "nonempty" of others. *)
(* A node is empty when some set closed under derivatives holds it and no  *)
(* node that accepts.  A search that ends without a find has built that    *)
(* set, except for what the cache vouched for: the invariant says so of    *)
(* the searches under way, and that the cache tells the truth.             *)
(*                                                                         *)
(* NullSets, for every MaxRel, set of tags and number of sets: first what  *)
(* sorting, coalescing, sweeping and merging do to runs, and that each     *)
(* operation on runs computes what it should mean; then lists and shifts;  *)
(* then the store, whose invariant says that every set is well formed and  *)
(* every entry of a memo table true.                                       *)
(***************************************************************************)
EXTENDS Emptiness, NullSets, FiniteSetTheorems, SequenceTheorems, TLAPS

Typed == TypeOK /\ alg \in Algebras

CacheOK ==
  \A n \in Node :
    /\ cache[n] = "empty" => EmptyLang(alg, n)
    /\ Plain(alg) /\ cache[n] = "nonempty" => ~Empty(alg, n)

(* Who is asked about, and the node that takes its place.                  *)
Target(f) == f.node = alg.elim[f.asked] /\ f.node \notin alg.any

(* What was visited does not accept, and its derivatives are visited too,  *)
(* unless they are still to be taken or known to lead nowhere.             *)
Explored(f) ==
  /\ Shown(alg.begin[f.node]) \subseteq f.visited
  /\ f.visited \cap alg.nullable = {}
  /\ \A x \in f.visited \cup {f.node} :
       \/ x \in f.work \/ (f.phase = "der" /\ x = f.outer)
       \/ Empty(alg, x) \/ alg.der[x] \subseteq f.visited

(* An accepting derivative of what is still to be explored is one of node. *)
Leads(f) ==
  \A x \in f.work \cup f.visited \cup (IF f.phase = "der" THEN {f.outer} ELSE {}) :
    Empty(alg, f.node) => Empty(alg, x)

FrameOK(f) ==
  /\ Target(f)
  /\ f.phase # "begin" => Explored(f) /\ (Plain(alg) => Leads(f))

IInv ==
  /\ Typed /\ CacheOK
  /\ \A l \in 1 .. depth : FrameOK(frame[l])
  /\ EmptySound /\ NonemptySound

-----------------------------------------------------------------------------
(* Empty nodes.                                                            *)
LEMMA EmptyFacts ==
  ASSUME NEW a \in Algebra, NEW n \in Node, Empty(a, n)
  PROVE  /\ n \notin a.nullable
         /\ \A m \in a.der[n] : Empty(a, m)
<1>1. PICK S \in SUBSET Node :
        n \in S /\ \A x \in S : x \notin a.nullable /\ a.der[x] \subseteq S
  BY DEF Empty
<1>2. ASSUME NEW m \in a.der[n]
      PROVE  Empty(a, m)
  BY <1>1, <1>2 DEF Empty
<1> QED
  BY <1>1, <1>2

(* A set of nodes that do not accept, each of them empty or with all its   *)
(* derivatives in the set, consists of empty nodes.                        *)
LEMMA ClosedEmpty ==
  ASSUME NEW a \in Algebra, NEW T \in SUBSET Node,
         \A x \in T : x \notin a.nullable /\ (Empty(a, x) \/ a.der[x] \subseteq T)
  PROVE  \A x \in T : Empty(a, x)
<1> DEFINE S == T \cup {x \in Node : Empty(a, x)}
<1>1. S \in SUBSET Node
  OBVIOUS
<1>2. ASSUME NEW x \in S
      PROVE  x \notin a.nullable /\ a.der[x] \subseteq S
  <2>1. a.der[x] \subseteq Node
    BY DEF Algebra
  <2>2. CASE Empty(a, x)
    BY <2>1, <2>2, EmptyFacts
  <2>3. CASE ~Empty(a, x)
    BY <2>3
  <2> QED
    BY <2>2, <2>3
<1> QED
  BY <1>1, <1>2 DEF Empty

LEMMA AlgebraOK ==
  ASSUME alg \in Algebras
  PROVE  WellFormed(alg) /\ alg \in Algebra /\ Bot \in Node /\ NoNode \notin Node
  BY EmptinessAssumption DEF WellFormed

LEMMA BotEmpty ==
  ASSUME alg \in Algebras
  PROVE  EmptyLang(alg, Bot)
<1>1. /\ alg.der[Bot] = {} /\ alg.begin[Bot] = {} /\ Bot \in Node
      /\ Bot \notin alg.any /\ Bot \notin alg.nullable
  BY AlgebraOK DEF WellFormed, Algebra
<1>2. Empty(alg, Bot)
  <2>1. {Bot} \in SUBSET Node /\ Bot \in {Bot}
    BY <1>1
  <2>2. \A x \in {Bot} : x \notin alg.nullable /\ alg.der[x] \subseteq {Bot}
    BY <1>1
  <2> QED
    BY <2>1, <2>2 DEF Empty
<1> QED
  BY <1>1, <1>2 DEF EmptyLang

(* What is shown of leaves: nodes but Bot, empty if the leaves are.        *)
LEMMA ShownFacts ==
  ASSUME alg \in Algebras, NEW leaves \in SUBSET (Node \ {Bot})
  PROVE  /\ Shown(leaves) \in SUBSET (Node \ {Bot}) /\ leaves \subseteq Shown(leaves)
         /\ (\A n \in leaves : Empty(alg, n)) => \A n \in Shown(leaves) : Empty(alg, n)
<1>1. /\ \A n \in Node : alg.lefts[n] \in SUBSET (Node \ {Bot})
      /\ \A n \in Node : \A m \in alg.lefts[n] : Empty(alg, n) => Empty(alg, m)
  BY AlgebraOK DEF WellFormed, Algebra
<1> QED
  BY <1>1 DEF Shown

(* What a verdict on the node says of the one that was asked about.        *)
LEMMA TargetVerdict ==
  ASSUME Typed, NEW f \in Frame, Target(f)
  PROVE  EmptyLang(alg, f.node) <=> EmptyLang(alg, f.asked)
<1>1. f.asked \in Node /\ f.node \in Node
  BY DEF Frame
<1>2. alg.elim[f.asked] # NoNode
  BY <1>1, AlgebraOK DEF Target, Typed
<1> QED
  BY <1>1, <1>2, AlgebraOK DEF WellFormed, Target, Typed

-----------------------------------------------------------------------------
LEMMA TopFrame ==
  ASSUME IInv, depth > 0
  PROVE  /\ depth \in Level /\ depth \in Nat \ {0} /\ top \in Frame /\ FrameOK(top)
         /\ top.asked \in Node /\ top.node \in Node /\ top.outer \in Node
         /\ top.visited \subseteq Node /\ top.work \subseteq Node
         /\ top.node \notin alg.any /\ top.node \notin alg.nullable
<1>1. depth \in 1 .. MaxDepth /\ depth \in Nat \ {0}
  BY EmptinessAssumption DEF IInv, Typed, TypeOK
<1>2. top \in Frame /\ FrameOK(top)
  BY <1>1 DEF IInv, Typed, TypeOK, Level, top
<1>3. alg.nullable \subseteq alg.any
  BY AlgebraOK DEF IInv, Typed, WellFormed
<1> QED
  BY <1>1, <1>2, <1>3 DEF Frame, FrameOK, Target, Level

(* A query that returns a verdict which is true.                           *)
LEMMA ReturnOK ==
  ASSUME IInv, depth > 0, NEW verdict \in Verdict, Return(verdict),
         verdict = "empty" => EmptyLang(alg, top.node),
         Plain(alg) /\ verdict = "nonempty" => ~EmptyLang(alg, top.node),
         alg' = alg, asks' = asks,
         cache' \in [Node -> {"unchecked", "empty", "nonempty"}], CacheOK'
  PROVE  IInv'
<1>0. /\ depth \in Level /\ depth \in Nat \ {0} /\ top \in Frame /\ FrameOK(top)
      /\ top.asked \in Node
  BY TopFrame
<1>1. /\ depth' = depth - 1 /\ frame' = [frame EXCEPT ![depth] = NoFrame]
      /\ answer' = [asked |-> top.asked, verdict |-> verdict]
  BY DEF Return, Answers
<1>2. EmptyLang(alg, top.node) <=> EmptyLang(alg, top.asked)
  BY <1>0, TargetVerdict DEF IInv, FrameOK
<1>3. EmptySound' /\ NonemptySound'
  BY <1>1, <1>2 DEF EmptySound, NonemptySound
<1>4. NoFrame \in Frame
  BY EmptinessAssumption DEF NoFrame, Frame
<1>5. Typed'
  BY <1>0, <1>1, <1>4, EmptinessAssumption DEF IInv, Typed, TypeOK, Level
<1>6. ASSUME NEW l \in 1 .. depth'
      PROVE  FrameOK(frame[l])' 
  <2>1. l \in 1 .. depth /\ l # depth
    BY <1>0, <1>1
  <2>2. frame'[l] = frame[l]
    BY <1>0, <1>1, <2>1, EmptinessAssumption DEF IInv, Typed, TypeOK, Level
  <2> QED
    BY <2>1, <2>2 DEF IInv, FrameOK, Target, Explored, Leads, Shown
<1> QED
  BY <1>3, <1>5, <1>6 DEF IInv

(* A query that goes on with new variables.                                *)
LEMMA GoOnOK ==
  ASSUME IInv, depth > 0, NEW f \in Frame, FrameOK(f),
         frame' = [frame EXCEPT ![depth] = f], UNCHANGED <<alg, cache, depth, answer, asks>>
  PROVE  IInv'
<1>0. depth \in Level /\ depth \in Nat \ {0}
  BY TopFrame
<1>1. Typed'
  BY <1>0 DEF IInv, Typed, TypeOK
<1>2. CacheOK' /\ EmptySound' /\ NonemptySound'
  BY DEF IInv, CacheOK, EmptySound, NonemptySound
<1>3. ASSUME NEW l \in 1 .. depth
      PROVE  FrameOK(frame[l])'
  <2>1. FrameOK(frame'[l])
    BY <1>0 DEF IInv, Typed, TypeOK, Level
  <2> QED
    BY <2>1 DEF FrameOK, Target, Explored, Leads, Shown
<1> QED
  BY <1>1, <1>2, <1>3 DEF IInv

-----------------------------------------------------------------------------
LEMMA InitOK ==
  ASSUME Init
  PROVE  IInv
<1>1. alg \in Algebra /\ Bot \in Node
  BY AlgebraOK DEF Init
<1>2. NoFrame \in Frame
  BY <1>1 DEF NoFrame, Frame
<1>3. Typed
  BY <1>1, <1>2, EmptinessAssumption DEF Init, Typed, TypeOK, Level
<1>4. CacheOK /\ EmptySound /\ NonemptySound
  BY DEF Init, CacheOK, EmptySound, NonemptySound
<1>5. 1 .. depth = {}
  BY DEF Init
<1> QED
  BY <1>3, <1>4, <1>5 DEF IInv

LEMMA AskOK ==
  ASSUME IInv, NEW n \in Node, Ask(n)
  PROVE  IInv'
<1>0. /\ alg \in Algebra /\ WellFormed(alg) /\ Bot \in Node /\ NoNode \notin Node
      /\ asks' = asks + 1 /\ asks < MaxAsks /\ alg' = alg /\ cache' = cache
      /\ depth \in 0 .. MaxDepth /\ depth < MaxDepth /\ MaxDepth \in Nat /\ MaxAsks \in Nat
  BY AlgebraOK, EmptinessAssumption DEF IInv, Typed, TypeOK, Ask, MayAsk
<1>1. asks' \in 0 .. MaxAsks
  BY <1>0 DEF IInv, Typed, TypeOK
<1>2. CacheOK'
  BY <1>0 DEF IInv, CacheOK
<1>3. CASE AtOnce(n) # "search" /\ Answers(n, AtOnce(n)) /\ UNCHANGED <<depth, frame>>
  <2>1. AtOnce(n) \in Verdict
    BY <1>3, <1>0 DEF AtOnce, Verdict, IInv, Typed, TypeOK
  <2>2. ASSUME AtOnce(n) = "empty"
        PROVE  EmptyLang(alg, n)
    BY <2>2, BotEmpty DEF AtOnce, IInv, Typed, CacheOK
  <2>3. ASSUME Plain(alg), AtOnce(n) = "nonempty"
        PROVE  ~EmptyLang(alg, n)
    <3>1. CASE n \in alg.any
      BY <3>1 DEF EmptyLang
    <3>2. CASE n \notin alg.any /\ cache[n] # "unchecked"
      BY <2>3, <3>2 DEF AtOnce, EmptyLang, IInv, CacheOK
    <3>3. CASE n \notin alg.any /\ cache[n] = "unchecked"
      <4>1. n # Bot /\ alg.elim[n] # NoNode /\ alg.elim[n] \notin alg.inter
        BY <2>3, <3>3 DEF AtOnce
      <4>2. alg.elim[n] \in Node \ {Bot}
        BY <4>1, <1>0, <2>3 DEF Algebra, Plain
      <4>3. ~Empty(alg, alg.elim[n])
        BY <4>1, <4>2, <2>3 DEF Plain
      <4> QED
        BY <4>1, <4>3, <1>0 DEF EmptyLang, WellFormed
    <3> QED
      BY <3>1, <3>2, <3>3
  <2>4. answer' = [asked |-> n, verdict |-> AtOnce(n)]
    BY <1>3 DEF Answers
  <2>5. EmptySound' /\ NonemptySound'
    BY <2>2, <2>3, <2>4, <1>0 DEF EmptySound, NonemptySound
  <2>6. Typed'
    BY <2>1, <2>4, <1>0, <1>1, <1>3 DEF IInv, Typed, TypeOK
  <2>7. ASSUME NEW l \in 1 .. depth'
        PROVE  FrameOK(frame[l])'
    BY <1>0, <1>3 DEF IInv, FrameOK, Target, Explored, Leads, Shown
  <2> QED
    BY <2>5, <2>6, <2>7, <1>2 DEF IInv
<1>4. CASE AtOnce(n) = "search"
  <2> DEFINE f == [NoFrame EXCEPT !.asked = n, !.node = alg.elim[n], !.phase = "begin"]
  <2>1. /\ depth' = depth + 1 /\ answer' = answer
        /\ frame' = [frame EXCEPT ![depth + 1] = f]
    BY <1>4 DEF Ask
  <2>2. n \notin alg.any /\ alg.elim[n] # NoNode
    BY <1>0, <1>4 DEF AtOnce, IInv, Typed, TypeOK
  <2>3. alg.elim[n] \in Node /\ alg.elim[n] \notin alg.any
    BY <2>2, <1>0 DEF Algebra, WellFormed
  <2>4. f \in Frame /\ f.phase = "begin" /\ f.node = alg.elim[n] /\ f.asked = n
    BY <2>3, <1>0 DEF NoFrame, Frame
  <2>5. FrameOK(f)
    BY <2>3, <2>4 DEF FrameOK, Target
  <2> HIDE DEF f
  <2>6. depth + 1 \in Level /\ depth + 1 \in 0 .. MaxDepth
    BY <1>0 DEF Level
  <2>7. frame' \in [Level -> Frame]
    BY <2>1, <2>4, <2>6 DEF IInv, Typed, TypeOK
  <2>8. Typed'
    BY <2>1, <2>6, <2>7, <1>0, <1>1 DEF IInv, Typed, TypeOK
  <2>9. EmptySound' /\ NonemptySound'
    BY <2>1, <1>0 DEF IInv, EmptySound, NonemptySound
  <2>10. ASSUME NEW l \in 1 .. depth'
         PROVE  FrameOK(frame[l])'
    <3>1. l \in Level /\ (l # depth + 1 => l \in 1 .. depth)
      BY <1>0, <2>1 DEF Level
    <3>2. frame'[l] = IF l = depth + 1 THEN f ELSE frame[l]
      BY <2>1, <3>1 DEF IInv, Typed, TypeOK
    <3>3. FrameOK(frame'[l])
      BY <2>5, <3>1, <3>2 DEF IInv
    <3> QED
      BY <3>3, <1>0 DEF FrameOK, Target, Explored, Leads, Shown
  <2> QED
    BY <2>8, <2>9, <2>10, <1>2 DEF IInv
<1> QED
  BY <1>3, <1>4 DEF Ask

LEMMA FailsOK ==
  ASSUME IInv, Fails
  PROVE  IInv'
<1>1. depth > 0 /\ Return("unknown") /\ UNCHANGED <<alg, cache, asks>>
  BY DEF Fails
<1>2. CacheOK' /\ cache' \in [Node -> {"unchecked", "empty", "nonempty"}]
  BY <1>1 DEF IInv, Typed, TypeOK, CacheOK
<1>3. "unknown" \in Verdict
  BY DEF Verdict
<1> QED
  BY <1>1, <1>2, <1>3, ReturnOK

(* At the beginning.                                                       *)
LEMMA BeginOK ==
  ASSUME IInv, Begin
  PROVE  IInv'
<1> DEFINE shown == Shown(alg.begin[top.node])
           f == [top EXCEPT !.phase = "pop", !.visited = shown,
                            !.work = shown \cup {top.node}]
<1>0. /\ depth > 0 /\ UNCHANGED <<alg, cache, asks>>
      /\ alg \in Algebras /\ alg \in Algebra /\ depth \in Level
      /\ top \in Frame /\ FrameOK(top) /\ top.node \in Node
  BY TopFrame DEF Begin, IInv, Typed, TypeOK
<1>1. /\ alg.begin[top.node] \in SUBSET (Node \ {Bot})
      /\ alg.der[top.node] \in SUBSET (Node \ {Bot})
  BY <1>0 DEF Algebra
<1>2. /\ shown \in SUBSET (Node \ {Bot}) /\ alg.begin[top.node] \subseteq shown
      /\ (\A m \in alg.begin[top.node] : Empty(alg, m)) => \A m \in shown : Empty(alg, m)
  BY <1>0, <1>1, ShownFacts
<1> HIDE DEF shown
<1>3. CASE shown \cap alg.nullable # {} /\ Return("nonempty")
  <2>1. PICK x \in shown : x \in alg.nullable
    BY <1>3
  <2>2. ~Empty(alg, x)
    BY <2>1, <1>0, <1>2, EmptyFacts
  <2>3. ~EmptyLang(alg, top.node)
    BY <2>1, <2>2, <1>2 DEF EmptyLang
  <2>4. CacheOK' /\ cache' \in [Node -> {"unchecked", "empty", "nonempty"}]
    BY <1>0 DEF IInv, Typed, TypeOK, CacheOK
  <2>5. "nonempty" \in Verdict /\ "nonempty" # "empty"
    BY DEF Verdict
  <2> QED
    BY <1>0, <1>3, <2>3, <2>4, <2>5, ReturnOK
<1>4. CASE shown \cap alg.nullable = {} /\ frame' = [frame EXCEPT ![depth] = f]
           /\ UNCHANGED <<depth, answer>>
  <2>1. /\ f \in Frame /\ f.asked = top.asked /\ f.node = top.node /\ f.phase = "pop"
        /\ f.visited = shown /\ f.work = shown \cup {top.node}
    BY <1>0, <1>2 DEF Frame
  <2>2. Target(f)
    BY <1>0, <2>1 DEF FrameOK, Target
  <2>3. Explored(f)
    BY <1>4, <2>1 DEF Explored, shown
  <2>4. ASSUME Plain(alg), Empty(alg, top.node)
        PROVE  \A x \in shown : Empty(alg, x)
    BY <2>4, <1>0, <1>2, EmptyFacts DEF Plain
  <2>5. Plain(alg) => Leads(f)
    BY <2>1, <2>4 DEF Leads
  <2>6. FrameOK(f)
    BY <2>2, <2>3, <2>5 DEF FrameOK
  <2> HIDE DEF f
  <2> QED
    BY <1>0, <1>4, <2>1, <2>6, GoOnOK
<1>5. frame[depth] = top
  BY DEF top
<1> QED
  BY <1>3, <1>4, <1>5 DEF Begin, shown

(* The next node.                                                          *)
LEMMA PopOK ==
  ASSUME IInv, Pop
  PROVE  IInv'
<1>0. /\ depth > 0 /\ UNCHANGED <<alg, cache, asks>> /\ top.phase = "pop"
      /\ alg \in Algebra /\ depth \in Level /\ top \in Frame /\ FrameOK(top)
      /\ top.node \in Node /\ top.work \subseteq Node
  BY TopFrame DEF Pop, IInv, Typed, TypeOK
<1>1. Target(top) /\ Explored(top) /\ (Plain(alg) => Leads(top))
  BY <1>0 DEF FrameOK
<1>2. PICK n \in top.work :
        \/ /\ cache[n] = "empty"
           /\ frame' = [frame EXCEPT ![depth].work = @ \ {n}]
           /\ UNCHANGED <<depth, answer>>
        \/ /\ cache[n] = "nonempty"
           /\ Return("nonempty")
        \/ /\ cache[n] = "unchecked"
           /\ frame' = [frame EXCEPT ![depth].work = @ \ {n}, ![depth].outer = n,
                                     ![depth].phase = "der"]
           /\ UNCHANGED <<depth, answer>>
  BY DEF Pop
<1>3. frame[depth] = top /\ n \in Node
  BY <1>0 DEF top
<1>4. CASE cache[n] = "empty" /\ frame' = [frame EXCEPT ![depth].work = @ \ {n}]
           /\ UNCHANGED <<depth, answer>>
  <2> DEFINE f == [top EXCEPT !.work = @ \ {n}]
  <2>1. frame' = [frame EXCEPT ![depth] = f]
    BY <1>3, <1>4
  <2>2. /\ f \in Frame /\ f.asked = top.asked /\ f.node = top.node /\ f.phase = "pop"
        /\ f.visited = top.visited /\ f.work = top.work \ {n}
    BY <1>0 DEF Frame
  <2> HIDE DEF f
  <2>3. Empty(alg, n)
    BY <1>3, <1>4 DEF IInv, CacheOK, EmptyLang
  <2>4. Explored(f)
    BY <1>0, <1>1, <2>2, <2>3 DEF Explored
  <2>5. Plain(alg) => Leads(f)
    BY <1>0, <1>1, <2>2 DEF Leads
  <2>6. FrameOK(f)
    BY <1>1, <2>2, <2>4, <2>5 DEF FrameOK, Target
  <2> QED
    BY <1>0, <1>4, <2>1, <2>2, <2>6, GoOnOK
<1>5. CASE cache[n] = "nonempty" /\ Return("nonempty")
  <2>1. ASSUME Plain(alg)
        PROVE  ~EmptyLang(alg, top.node)
    <3>1. ~Empty(alg, n)
      BY <1>3, <1>5, <2>1 DEF IInv, CacheOK
    <3>2. ~Empty(alg, top.node)
      BY <1>1, <2>1, <3>1 DEF Leads
    <3> QED
      BY <3>2 DEF EmptyLang
  <2>2. CacheOK' /\ cache' \in [Node -> {"unchecked", "empty", "nonempty"}]
    BY <1>0 DEF IInv, Typed, TypeOK, CacheOK
  <2>3. "nonempty" \in Verdict /\ "nonempty" # "empty"
    BY DEF Verdict
  <2> QED
    BY <1>0, <1>5, <2>1, <2>2, <2>3, ReturnOK
<1>6. CASE /\ frame' = [frame EXCEPT ![depth].work = @ \ {n}, ![depth].outer = n,
                                     ![depth].phase = "der"]
           /\ UNCHANGED <<depth, answer>>
  <2> DEFINE f == [top EXCEPT !.work = @ \ {n}, !.outer = n, !.phase = "der"]
  <2>1. frame' = [frame EXCEPT ![depth] = f]
    BY <1>3, <1>6
  <2>2. /\ f \in Frame /\ f.asked = top.asked /\ f.node = top.node /\ f.phase = "der"
        /\ f.visited = top.visited /\ f.work = top.work \ {n} /\ f.outer = n
    BY <1>0, <1>3 DEF Frame
  <2> HIDE DEF f
  <2>3. Explored(f)
    BY <1>0, <1>1, <2>2 DEF Explored
  <2>4. Plain(alg) => Leads(f)
    BY <1>0, <1>1, <2>2 DEF Leads
  <2>5. FrameOK(f)
    BY <1>1, <2>2, <2>3, <2>4 DEF FrameOK, Target
  <2> QED
    BY <1>0, <1>6, <2>1, <2>2, <2>5, GoOnOK
<1> QED
  BY <1>2, <1>4, <1>5, <1>6

(* The worklist is exhausted: what was visited is the set that shows node  *)
(* to be empty.                                                            *)
LEMMA ExhaustedOK ==
  ASSUME IInv, Exhausted
  PROVE  IInv'
<1> DEFINE T == top.visited \cup {top.node}
<1>0. /\ depth > 0 /\ UNCHANGED <<alg, asks>> /\ top.phase = "pop" /\ top.work = {}
      /\ cache' = [cache EXCEPT ![top.node] = "empty"] /\ Return("empty")
      /\ alg \in Algebra /\ alg \in Algebras /\ top \in Frame /\ FrameOK(top)
      /\ top.node \in Node /\ top.visited \subseteq Node
      /\ top.node \notin alg.any /\ top.node \notin alg.nullable
  BY TopFrame DEF Exhausted, IInv, Typed, TypeOK
<1>1. Explored(top)
  BY <1>0 DEF FrameOK
<1>2. T \in SUBSET Node
  BY <1>0
<1>3. \A x \in T : x \notin alg.nullable /\ (Empty(alg, x) \/ alg.der[x] \subseteq T)
  BY <1>0, <1>1 DEF Explored
<1>4. \A x \in T : Empty(alg, x)
  BY <1>0, <1>2, <1>3, ClosedEmpty
<1>5. \A x \in alg.begin[top.node] : Empty(alg, x)
  <2>1. alg.begin[top.node] \in SUBSET (Node \ {Bot})
    BY <1>0 DEF Algebra
  <2>2. alg.begin[top.node] \subseteq Shown(alg.begin[top.node])
    BY <2>1, <1>0, ShownFacts
  <2> QED
    BY <2>2, <1>1, <1>4 DEF Explored
<1>6. EmptyLang(alg, top.node)
  BY <1>0, <1>4, <1>5 DEF EmptyLang
<1>7. CacheOK' /\ cache' \in [Node -> {"unchecked", "empty", "nonempty"}]
  BY <1>0, <1>6 DEF IInv, Typed, TypeOK, CacheOK
<1>8. "empty" \in Verdict /\ "empty" # "nonempty"
  BY DEF Verdict
<1> QED
  BY <1>0, <1>6, <1>7, <1>8, ReturnOK

(* The derivatives of outer.                                               *)
LEMMA ExploreOK ==
  ASSUME IInv, Explore
  PROVE  IInv'
<1> DEFINE shown == Shown(alg.der[top.outer])
           fresh == shown \ top.visited
           found == {n \in fresh : n \notin alg.inter \/ n \in alg.nullable}
           f == [top EXCEPT !.visited = @ \cup fresh, !.work = @ \cup fresh,
                            !.phase = "pop"]
<1>0. /\ depth > 0 /\ UNCHANGED <<alg, asks>> /\ top.phase = "der"
      /\ alg \in Algebra /\ alg \in Algebras /\ depth \in Level
      /\ top \in Frame /\ FrameOK(top) /\ top.node \in Node /\ top.outer \in Node
      /\ top.visited \subseteq Node /\ top.work \subseteq Node
  BY TopFrame DEF Explore, IInv, Typed, TypeOK
<1>1. Target(top) /\ Explored(top) /\ (Plain(alg) => Leads(top))
  BY <1>0 DEF FrameOK
<1>2. alg.der[top.outer] \in SUBSET (Node \ {Bot})
  BY <1>0 DEF Algebra
<1>3. /\ shown \in SUBSET (Node \ {Bot}) /\ alg.der[top.outer] \subseteq shown
      /\ (\A m \in alg.der[top.outer] : Empty(alg, m)) => \A m \in shown : Empty(alg, m)
  BY <1>0, <1>2, ShownFacts
<1>4. ASSUME Plain(alg)
      PROVE  /\ Empty(alg, top.node) => Empty(alg, top.outer)
             /\ Empty(alg, top.outer) => \A m \in shown : Empty(alg, m)
  <2>1. Empty(alg, top.node) => Empty(alg, top.outer)
    BY <1>0, <1>1, <1>4 DEF Leads
  <2>2. Empty(alg, top.outer) => \A m \in alg.der[top.outer] : Empty(alg, m)
    BY <1>0, EmptyFacts
  <2> QED
    BY <2>1, <2>2, <1>3
<1> HIDE DEF shown
<1>5. CASE /\ found # {} /\ Return("nonempty")
           /\ cache' = [cache EXCEPT ![top.outer] = "nonempty", ![top.node] = "nonempty"]
  <2>1. ASSUME Plain(alg)
        PROVE  ~Empty(alg, top.outer) /\ ~Empty(alg, top.node)
    <3>1. PICK x \in shown : x \notin alg.inter \/ x \in alg.nullable
      BY <1>5
    <3>2. ~Empty(alg, x)
      BY <3>1, <2>1, <1>0, <1>3, EmptyFacts DEF Plain
    <3> QED
      BY <3>2, <1>4, <2>1
  <2>2. Plain(alg) => ~EmptyLang(alg, top.node)
    BY <2>1 DEF EmptyLang
  <2>3. CacheOK'
    BY <2>1, <1>0, <1>5 DEF IInv, Typed, TypeOK, CacheOK
  <2>4. cache' \in [Node -> {"unchecked", "empty", "nonempty"}]
    BY <1>5 DEF IInv, Typed, TypeOK
  <2>5. "nonempty" \in Verdict /\ "nonempty" # "empty"
    BY DEF Verdict
  <2> QED
    BY <1>0, <1>5, <2>2, <2>3, <2>4, <2>5, ReturnOK
<1>6. CASE /\ found = {} /\ frame' = [frame EXCEPT ![depth] = f]
           /\ UNCHANGED <<depth, answer, cache>>
  <2>1. /\ f \in Frame /\ f.asked = top.asked /\ f.node = top.node /\ f.phase = "pop"
        /\ f.visited = top.visited \cup shown /\ f.work = top.work \cup fresh
    BY <1>0, <1>3 DEF Frame
  <2>2. f.visited \cap alg.nullable = {}
    BY <1>1, <1>6, <2>1 DEF Explored
  <2>3. ASSUME NEW x \in f.visited \cup {f.node}
        PROVE  x \in f.work \/ Empty(alg, x) \/ alg.der[x] \subseteq f.visited
    BY <1>1, <1>3, <2>1 DEF Explored
  <2> HIDE DEF f
  <2>4. Explored(f)
    BY <1>1, <2>1, <2>2, <2>3 DEF Explored
  <2>5. Plain(alg) => Leads(f)
    BY <1>1, <1>4, <2>1 DEF Leads
  <2>6. FrameOK(f)
    BY <1>1, <2>1, <2>4, <2>5 DEF FrameOK, Target
  <2> QED
    BY <1>0, <1>6, <2>1, <2>6, GoOnOK
<1>7. \/ /\ found # {}
         /\ cache' = [cache EXCEPT ![top.outer] = "nonempty", ![top.node] = "nonempty"]
         /\ Return("nonempty")
      \/ /\ found = {}
         /\ frame' = [frame EXCEPT ![depth].visited = @ \cup fresh,
                                   ![depth].work = @ \cup fresh, ![depth].phase = "pop"]
         /\ UNCHANGED <<depth, answer, cache>>
  BY Zenon DEF Explore, shown
<1> HIDE DEF found, fresh
<1>8. ASSUME frame' = [frame EXCEPT ![depth].visited = @ \cup fresh,
                                    ![depth].work = @ \cup fresh, ![depth].phase = "pop"]
      PROVE  frame' = [frame EXCEPT ![depth] = f]
  BY <1>8 DEF top
<1> HIDE DEF f
<1> QED
  BY <1>5, <1>6, <1>7, <1>8

-----------------------------------------------------------------------------
LEMMA Inductive ==
  ASSUME IInv, [Next]_vars
  PROVE  IInv'
<1>1. CASE UNCHANGED vars
  BY <1>1 DEF vars, IInv, Typed, TypeOK, CacheOK, FrameOK, Target, Explored, Leads,
              Shown, EmptySound, NonemptySound
<1> QED
  BY <1>1, BeginOK, PopOK, ExhaustedOK, ExploreOK, FailsOK, AskOK DEF Next, Search

LEMMA Invariant == Spec => []IInv
BY InitOK, Inductive, PTL DEF Spec

(* The variables of the searches keep their types (is_empty_lang).         *)
THEOREM EmptinessTypeOK == Spec => []TypeOK
<1>1. IInv => TypeOK
  BY DEF IInv, Typed
<1> QED
  BY Invariant, <1>1, PTL

(* is_empty_lang says "empty" of empty nodes only, however many queries    *)
(* are under way on the same cache and wherever one of them failed.        *)
THEOREM EmptinessEmptySound == Spec => []EmptySound
<1>1. IInv => EmptySound
  BY DEF IInv
<1> QED
  BY Invariant, <1>1, PTL

(* Where the two assumptions of the search hold, it says "nonempty" of     *)
(* nodes that are not empty only.                                          *)
THEOREM EmptinessNonemptySound == Spec => []NonemptySound
<1>1. IInv => NonemptySound
  BY DEF IInv
<1> QED
  BY Invariant, <1>1, PTL

-----------------------------------------------------------------------------
(* A set of naturals that is not empty has a least member: what holds at   *)
(* every number is shown at the first one where it would fail.             *)
LEMMA FirstNatural ==
  ASSUME NEW T \in SUBSET Nat, T # {}
  PROVE  \E m \in T : \A n \in T : m <= n
<1> DEFINE Below == {ss \in Nat \X Nat : ss[1] < ss[2]}
<1>1. IsWellFoundedOn(Below, Nat)
  BY NatLessThanWellFounded DEF OpToRel
<1>2. PICK m \in T : \A n \in T : ~ (<<n, m>> \in Below)
  <2> HIDE DEF Below
  <2> QED
    BY <1>1, WFMin
<1>3. \A n \in T : ~ (n < m)
  BY <1>2
<1> QED
  BY <1>3

LEMMA GreatestOf ==
  ASSUME NEW a \in Int, NEW b \in Int, NEW T \in SUBSET (a .. b), T # {}
  PROVE  Max(T) \in T /\ \A n \in T : n <= Max(T)
<1> DEFINE U == {b - n : n \in T}
<1>1. U \subseteq Nat
  OBVIOUS
<1>a. U # {}
  OBVIOUS
<1>2. PICK m \in U : \A n \in U : m <= n
  <2> HIDE DEF U
  <2> QED BY <1>1, <1>a, FirstNatural
<1>3. PICK t \in T : m = b - t
  BY <1>2
<1>4. \A n \in T : n <= t
  <2> TAKE n \in T
  <2>1. m <= b - n
    BY <1>2
  <2> QED BY <2>1, <1>3
<1>5. Max(T) = CHOOSE x \in T : \A y \in T : x >= y
  BY DEF Max
<1>6. \A y \in T : t >= y
  BY <1>4
<1>7. Max(T) \in T /\ \A y \in T : Max(T) >= y
  BY <1>5, <1>6
<1> QED
  BY <1>7

(* Folds.  The function that a fold over a finite set is defined by exists *)
(* when every step stays in a set V of values.                             *)
Folding(S, base, pick, step, g) ==
  [T \in SUBSET S |-> IF T = {} THEN base ELSE step[<<pick[T], g[T \ {pick[T]}]>>]]
FoldDefined(S, V, base, pick, step) ==
  \E g \in [SUBSET S -> V] : g = Folding(S, base, pick, step, g)

LEMMA FoldExists ==
  ASSUME NEW S, IsFiniteSet(S), NEW V, NEW base \in V,
         NEW pick, \A T \in SUBSET S : T # {} => pick[T] \in T,
         NEW step \in [S \X V -> V]
  PROVE  FoldDefined(S, V, base, pick, step)
<1> DEFINE Upto(n, g) == \A T \in SUBSET S : Cardinality(T) <= n => g[T] = Folding(S, base, pick, step, g)[T]
           Failing == {n \in Nat : ~ \E g \in [SUBSET S -> V] : Upto(n, g)}
<1>1. \A T \in SUBSET S : IsFiniteSet(T) /\ Cardinality(T) \in Nat /\ (Cardinality(T) = 0 <=> T = {})
  BY FS_Subset, FS_CardinalityType, FS_EmptySet
<1>2. \A g \in [SUBSET S -> V] : Folding(S, base, pick, step, g) \in [SUBSET S -> V]
  <2> TAKE g \in [SUBSET S -> V]
  <2>1. \A T \in SUBSET S : T # {} => step[<<pick[T], g[T \ {pick[T]}]>>] \in V
    <3> SUFFICES ASSUME NEW T \in SUBSET S, T # {}
                 PROVE  step[<<pick[T], g[T \ {pick[T]}]>>] \in V
      OBVIOUS
    <3>1. pick[T] \in S /\ g[T \ {pick[T]}] \in V
      OBVIOUS
    <3> QED BY <3>1
  <2> QED BY <2>1 DEF Folding
<1>3. Failing = {}
  <2> SUFFICES ASSUME Failing # {} PROVE FALSE
    OBVIOUS
  <2>1. PICK n \in Failing : \A m \in Failing : n <= m
    <3>1. Failing \in SUBSET Nat
      OBVIOUS
    <3> HIDE DEF Failing
    <3> QED BY <3>1, FirstNatural
  <2>2. CASE n = 0
    <3> DEFINE g == [T \in SUBSET S |-> base]
    <3>1. g \in [SUBSET S -> V]
      OBVIOUS
    <3>2. Upto(0, g)
      <4> SUFFICES ASSUME NEW T \in SUBSET S, Cardinality(T) <= 0
                   PROVE  g[T] = Folding(S, base, pick, step, g)[T]
        OBVIOUS
      <4>1. T = {}
        BY <1>1
      <4> QED BY <4>1 DEF Folding
    <3> HIDE DEF Upto, g
    <3> QED BY <2>2, <3>1, <3>2
  <2>3. CASE n # 0
    <3>a. n \in Nat
      OBVIOUS
    <3>b. n - 1 \in Nat /\ ~ (n <= n - 1)
      BY <3>a, <2>3
    <3>1. n - 1 \in Nat /\ n - 1 \notin Failing
      <4> HIDE DEF Failing
      <4> QED BY <2>1, <3>b
    <3>2. PICK g \in [SUBSET S -> V] : Upto(n - 1, g)
      BY <3>1
    <3> DEFINE h == Folding(S, base, pick, step, g)
    <3>3. h \in [SUBSET S -> V]
      BY <1>2
    <3>4. Upto(n, h)
      <4> SUFFICES ASSUME NEW T \in SUBSET S, Cardinality(T) <= n
                   PROVE  h[T] = Folding(S, base, pick, step, h)[T]
        OBVIOUS
      <4>1. CASE T = {}
        BY <4>1 DEF Folding
      <4>2. CASE T # {}
        <5>1. T \ {pick[T]} \in SUBSET S
          OBVIOUS
        <5>2. Cardinality(T \ {pick[T]}) = Cardinality(T) - 1
          BY <1>1, <4>2, FS_RemoveElement
        <5>3. Cardinality(T \ {pick[T]}) <= n - 1
          BY <5>2, <1>1
        <5>4. g[T \ {pick[T]}] = h[T \ {pick[T]}]
          BY <3>2, <5>1, <5>3
        <5> QED BY <4>2, <5>4 DEF Folding
      <4> QED BY <4>1, <4>2
    <3> HIDE DEF Upto, h
    <3> QED BY <3>3, <3>4, <2>1
  <2> QED BY <2>2, <2>3
<1>4. Cardinality(S) \in Nat
  BY FS_CardinalityType
<1>5. PICK g \in [SUBSET S -> V] : Upto(Cardinality(S), g)
  BY <1>3, <1>4
<1>6. \A T \in SUBSET S : g[T] = Folding(S, base, pick, step, g)[T]
  <2> TAKE T \in SUBSET S
  <2>1. Cardinality(T) <= Cardinality(S)
    BY FS_Subset
  <2> QED BY <1>5, <2>1
<1>7. g = Folding(S, base, pick, step, g)
  <2> DEFINE F == Folding(S, base, pick, step, g)
  <2>1. F \in [SUBSET S -> V] /\ \A T \in SUBSET S : g[T] = F[T]
    BY <1>6, <1>2
  <2> HIDE DEF F, Upto
  <2>2. g = F
    BY <2>1
  <2> QED BY <2>2 DEF F
<1> QED BY <1>7 DEF FoldDefined

(* What holds of the empty set, and of a set when it holds of it without   *)
(* its picked member, holds of every subset of a finite set.               *)
LEMMA FoldInduction ==
  ASSUME NEW S, IsFiniteSet(S), NEW pick, \A T \in SUBSET S : T # {} => pick[T] \in T,
         NEW Good, {} \in Good,
         \A T \in SUBSET S : T # {} /\ T \ {pick[T]} \in Good => T \in Good
  PROVE  S \in Good
<1> DEFINE Failing == {Cardinality(T) : T \in {U \in SUBSET S : U \notin Good}}
<1>1. \A T \in SUBSET S : IsFiniteSet(T) /\ Cardinality(T) \in Nat
  BY FS_Subset, FS_CardinalityType
<1> SUFFICES ASSUME S \notin Good PROVE FALSE
  OBVIOUS
<1>2. PICK n \in Failing : \A m \in Failing : n <= m
  <2>1. Failing \in SUBSET Nat
    BY <1>1
  <2>2. Failing # {}
    OBVIOUS
  <2> HIDE DEF Failing
  <2> QED BY <2>1, <2>2, FirstNatural
<1>3. PICK T \in SUBSET S : T \notin Good /\ Cardinality(T) = n
  BY <1>2
<1>4. pick[T] \in T /\ T \ {pick[T]} \notin Good /\ T \ {pick[T]} \in SUBSET S
  BY <1>3
<1>5. Cardinality(T \ {pick[T]}) = Cardinality(T) - 1
  BY <1>1, <1>4, FS_RemoveElement
<1>6. Cardinality(T \ {pick[T]}) \in Failing
  BY <1>4
<1>7. n <= Cardinality(T) - 1 /\ Cardinality(T) \in Nat
  BY <1>1, <1>2, <1>5, <1>6
<1> QED
  BY <1>3, <1>7

-----------------------------------------------------------------------------
(* A finite set in order: each member has a rank, and each rank a member.  *)
StrictOrder(S, B) ==
  /\ \A x, y, z \in S : <<x, y>> \in B /\ <<y, z>> \in B => <<x, z>> \in B
  /\ \A x \in S : <<x, x>> \notin B
  /\ \A x, y \in S : x # y => <<x, y>> \in B \/ <<y, x>> \in B
Under(S, B, x) == {y \in S : <<y, x>> \in B}
Lists(s, m, S, B) ==
  /\ m \in Nat /\ s \in [1 .. m -> S]
  /\ \A i, j \in 1 .. m : i < j => <<s[i], s[j]>> \in B
  /\ \A x \in S : \E i \in 1 .. m : s[i] = x

LEMMA RanksAre ==
  ASSUME NEW S, IsFiniteSet(S), NEW B, StrictOrder(S, B)
  PROVE  /\ Cardinality(S) \in Nat
         /\ \A x \in S : Cardinality(Under(S, B, x)) \in 0 .. Cardinality(S) - 1
         /\ \A x, y \in S : <<x, y>> \in B => Cardinality(Under(S, B, x)) < Cardinality(Under(S, B, y))
         /\ \A x, y \in S : Cardinality(Under(S, B, x)) = Cardinality(Under(S, B, y)) => x = y
         /\ \A k \in 0 .. Cardinality(S) - 1 : \E x \in S : Cardinality(Under(S, B, x)) = k
<1> DEFINE n == Cardinality(S)
           U(x) == Under(S, B, x)
           rank == [x \in S |-> Cardinality(U(x)) + 1]
<1>1. n \in Nat
  BY FS_CardinalityType
<1>2. \A x \in S : IsFiniteSet(U(x)) /\ Cardinality(U(x)) \in 0 .. n - 1
  <2> TAKE x \in S
  <2>1. U(x) \in SUBSET (S \ {x})
    BY DEF Under, StrictOrder
  <2>2. IsFiniteSet(S \ {x}) /\ Cardinality(S \ {x}) = n - 1
    BY FS_RemoveElement
  <2> HIDE DEF U, n
  <2>3. IsFiniteSet(U(x)) /\ Cardinality(U(x)) <= n - 1
    BY <2>1, <2>2, FS_Subset
  <2>4. Cardinality(U(x)) \in Nat
    BY <2>3, FS_CardinalityType
  <2> QED BY <1>1, <2>3, <2>4
<1>3. \A x, y \in S : <<x, y>> \in B => Cardinality(U(x)) < Cardinality(U(y))
  <2> SUFFICES ASSUME NEW x \in S, NEW y \in S, <<x, y>> \in B
               PROVE  Cardinality(U(x)) < Cardinality(U(y))
    OBVIOUS
  <2>1. U(x) \in SUBSET U(y) /\ x \in U(y) /\ x \notin U(x)
    BY DEF Under, StrictOrder
  <2> HIDE DEF U, n
  <2>2. /\ Cardinality(U(x)) <= Cardinality(U(y))
        /\ Cardinality(U(y)) = Cardinality(U(x)) => U(y) = U(x)
    BY <1>2, <2>1, FS_Subset
  <2>3. Cardinality(U(x)) \in 0 .. n - 1 /\ Cardinality(U(y)) \in 0 .. n - 1
    BY <1>2
  <2> QED BY <1>1, <2>1, <2>2, <2>3
<1>4. \A x, y \in S : Cardinality(U(x)) = Cardinality(U(y)) => x = y
  <2> SUFFICES ASSUME NEW x \in S, NEW y \in S, x # y
               PROVE  Cardinality(U(x)) # Cardinality(U(y))
    OBVIOUS
  <2>1. <<x, y>> \in B \/ <<y, x>> \in B
    BY DEF StrictOrder
  <2> HIDE DEF U, n
  <2>2. Cardinality(U(x)) \in 0 .. n - 1 /\ Cardinality(U(y)) \in 0 .. n - 1
    BY <1>2
  <2>3. Cardinality(U(x)) < Cardinality(U(y)) \/ Cardinality(U(y)) < Cardinality(U(x))
    BY <1>3, <2>1
  <2> QED BY <1>1, <2>2, <2>3
<1>5. \A k \in 0 .. n - 1 : \E x \in S : Cardinality(U(x)) = k
  <2> HIDE DEF U
  <2>1. rank \in [S -> 1 .. n] /\ \A x, y \in S : rank[x] = rank[y] => x = y
    <3> HIDE DEF n
    <3>1. \A x \in S : Cardinality(U(x)) + 1 \in 1 .. n
      BY <1>1, <1>2
    <3>2. \A x, y \in S : Cardinality(U(x)) + 1 = Cardinality(U(y)) + 1 => x = y
      BY <1>1, <1>2, <1>4
    <3> QED BY <3>1, <3>2
  <2>2. IsFiniteSet(1 .. n) /\ Cardinality(1 .. n) = n
    <3>1. 1 \in Int /\ n \in Int
      BY <1>1
    <3> HIDE DEF n
    <3>2. Cardinality(1 .. n) = IF 1 > n THEN 0 ELSE (n - 1) + 1
      BY <3>1, FS_Interval
    <3> QED BY <1>1, <3>1, <3>2, FS_Interval
  <2>3. rank \in Injection(S, 1 .. n)
    <3> HIDE DEF rank, n
    <3> QED BY <2>1 DEF Injection, IsInjective
  <2>4. rank \in Surjection(S, 1 .. n)
    <3> HIDE DEF rank
    <3> QED BY <2>2, <2>3, FS_Injection
  <2>5. \A m \in 1 .. n : \E x \in S : rank[x] = m
    <3> HIDE DEF rank
    <3> QED BY <2>4 DEF Surjection
  <2> TAKE k \in 0 .. n - 1
  <2> HIDE DEF n
  <2>6. k + 1 \in 1 .. n /\ k \in Nat
    BY <1>1
  <2>7. PICK x \in S : rank[x] = k + 1
    <3> HIDE DEF rank
    <3> QED BY <2>5, <2>6
  <2>8. Cardinality(U(x)) + 1 = k + 1 /\ Cardinality(U(x)) \in Int
    BY <1>1, <1>2, <2>7
  <2>9. Cardinality(U(x)) = k
    BY <2>6, <2>8
  <2> QED BY <2>9
<1> QED
  BY <1>1, <1>2, <1>3, <1>4, <1>5

Ranked(S, B) ==
  /\ Cardinality(S) \in Nat
  /\ \A x \in S : Cardinality(Under(S, B, x)) \in 0 .. Cardinality(S) - 1
  /\ \A x, y \in S : <<x, y>> \in B => Cardinality(Under(S, B, x)) < Cardinality(Under(S, B, y))
  /\ \A x, y \in S : Cardinality(Under(S, B, x)) = Cardinality(Under(S, B, y)) => x = y
  /\ \A k \in 0 .. Cardinality(S) - 1 : \E x \in S : Cardinality(Under(S, B, x)) = k

LEMMA RanksAll ==
  ASSUME NEW S, IsFiniteSet(S), NEW B, StrictOrder(S, B)
  PROVE  Ranked(S, B)
  BY RanksAre DEF Ranked

(* A sequence of all the members in order gives each the rank before its   *)
(* place.                                                                  *)
LEMMA RankOfPlace ==
  ASSUME NEW S, IsFiniteSet(S), NEW B, StrictOrder(S, B), NEW m, NEW s, Lists(s, m, S, B)
  PROVE  /\ Cardinality(S) = m
         /\ \A i \in 1 .. m : Cardinality(Under(S, B, s[i])) = i - 1
<1>0. /\ m \in Nat /\ s \in [1 .. m -> S]
      /\ \A i, j \in 1 .. m : i < j => <<s[i], s[j]>> \in B
      /\ \A x \in S : \E i \in 1 .. m : s[i] = x
  BY DEF Lists
<1> USE <1>0
<1>1. \A i, j \in 1 .. m : <<s[i], s[j]>> \in B => i < j
  <2> SUFFICES ASSUME NEW i \in 1 .. m, NEW j \in 1 .. m, <<s[i], s[j]>> \in B, ~ (i < j) PROVE FALSE
    OBVIOUS
  <2>1. i = j \/ j < i
    OBVIOUS
  <2>2. s[i] \in S /\ s[j] \in S
    OBVIOUS
  <2>3. <<s[i], s[i]>> \in B
    BY <2>1, <2>2 DEF StrictOrder
  <2> QED BY <2>2, <2>3 DEF StrictOrder
<1>2. \A i, j \in 1 .. m : s[i] = s[j] => i = j
  <2> SUFFICES ASSUME NEW i \in 1 .. m, NEW j \in 1 .. m, s[i] = s[j], i # j PROVE FALSE
    OBVIOUS
  <2>1. i < j \/ j < i
    OBVIOUS
  <2>2. s[i] \in S /\ <<s[i], s[i]>> \in B
    BY <2>1
  <2> QED BY <2>2 DEF StrictOrder
<1>3. \A k \in Nat : IsFiniteSet(1 .. k) /\ Cardinality(1 .. k) = k
  <2> TAKE k \in Nat
  <2>1. Cardinality(1 .. k) = IF 1 > k THEN 0 ELSE (k - 1) + 1
    BY FS_Interval
  <2> QED BY <2>1, FS_Interval
<1>4. Cardinality(S) = m
  <2>1. s \in Bijection(1 .. m, S)
    BY <1>2 DEF Bijection, Injection, Surjection, IsInjective
  <2> QED BY <1>3, <2>1, FS_Bijection DEF ExistsBijection
<1>5. ASSUME NEW i \in 1 .. m
      PROVE  Cardinality(Under(S, B, s[i])) = i - 1
  <2> DEFINE T == Under(S, B, s[i])
             t == [j \in 1 .. i - 1 |-> s[j]]
  <2>1. \A j \in 1 .. i - 1 : j \in 1 .. m /\ s[j] \in T
    BY DEF Under
  <2>2. \A x \in T : \E j \in 1 .. i - 1 : s[j] = x
    BY <1>1 DEF Under
  <2>3. t \in Bijection(1 .. i - 1, T)
    <3> HIDE DEF T
    <3> QED BY <1>2, <2>1, <2>2 DEF Bijection, Injection, Surjection, IsInjective
  <2>4. i - 1 \in Nat
    OBVIOUS
  <2> HIDE DEF T, t
  <2> QED BY <1>3, <2>3, <2>4, FS_Bijection DEF ExistsBijection, T
<1> QED
  BY <1>4, <1>5

-----------------------------------------------------------------------------
(* Runs in order: the proper runs, and the sorted sequences of them.       *)
Proper == {r \in [mask : (SUBSET Bit) \ {{}}, lo : Rel, hi : Rel, tag : Nat] : r.lo <= r.hi}
Piece  == [mask : SUBSET Bit, lo : Rel, hi : Rel, tag : Nat]   \* runs that may have no mask
Keyed(S) == \A r, s \in S : r.lo = s.lo /\ r.tag = s.tag => r = s
Sorted(s) ==
  /\ s \in Seq(Proper)
  /\ \A i, j \in 1 .. Len(s) : i < j => Before(s[i], s[j])
Precedes(S) == {p \in S \X S : Before(p[1], p[2])}

(* The bounds of a run are numbers, and no run is empty.                   *)
LEMMA ProperRun ==
  ASSUME NEW r \in Proper
  PROVE  /\ r.lo \in Nat /\ r.hi \in Nat /\ r.tag \in Nat /\ r.lo \in Rel /\ r.hi \in Rel
         /\ r.lo <= r.hi /\ r.hi <= MaxRel /\ MaxRel \in Nat
         /\ r.mask \subseteq Bit /\ r.mask # {}
         /\ r = Tagged(r.mask, r.lo, r.hi, r.tag)
  BY NullSetsAssumption DEF Proper, Rel, Tagged

LEMMA PieceRun ==
  /\ Proper \subseteq Piece
  /\ \A r \in Piece : /\ r.lo \in Nat /\ r.hi \in Nat /\ r.tag \in Nat /\ r.hi <= MaxRel
                      /\ (r.lo <= r.hi /\ r.mask # {} => r \in Proper)
  BY NullSetsAssumption DEF Piece, Proper, Rel

LEMMA BeforeOrder ==
  ASSUME NEW S \in SUBSET Piece, Keyed(S)
  PROVE  /\ StrictOrder(S, Precedes(S))
         /\ \A x \in S : Under(S, Precedes(S), x) = {q \in S : Before(q, x)}
<1>1. \A r \in S : r.lo \in Nat /\ r.tag \in Nat
  BY PieceRun
<1>2. \A x, y \in S : <<x, y>> \in Precedes(S) <=> Before(x, y)
  BY DEF Precedes
<1>3. \A x, y, z \in S : Before(x, y) /\ Before(y, z) => Before(x, z)
  BY <1>1 DEF Before
<1>4. \A x \in S : ~ Before(x, x)
  BY <1>1 DEF Before
<1>5. \A x, y \in S : x # y => Before(x, y) \/ Before(y, x)
  <2> SUFFICES ASSUME NEW x \in S, NEW y \in S, x # y PROVE Before(x, y) \/ Before(y, x)
    OBVIOUS
  <2>1. x.lo # y.lo \/ x.tag # y.tag
    BY DEF Keyed
  <2>2. x.lo \in Nat /\ y.lo \in Nat /\ x.tag \in Nat /\ y.tag \in Nat
    BY <1>1
  <2> QED BY <2>1, <2>2 DEF Before
<1>6. \A x \in S : Under(S, Precedes(S), x) = {q \in S : Before(q, x)}
  BY <1>2 DEF Under
<1> QED
  BY <1>2, <1>3, <1>4, <1>5, <1>6 DEF StrictOrder

(* Sorting a set of runs that differ by their place or their tag.          *)
LEMMA SortOfPieces ==
  ASSUME NEW S \in SUBSET Piece, Keyed(S), IsFiniteSet(S)
  PROVE  /\ SortRuns(S) \in Seq(S)
         /\ \A i, j \in 1 .. Len(SortRuns(S)) : i < j => Before(SortRuns(S)[i], SortRuns(S)[j])
         /\ ToSet(SortRuns(S)) = S
<1> DEFINE rank(x) == Cardinality({q \in S : Before(q, x)})
           n == Cardinality(S)
           out == SortRuns(S)
<1>1. /\ n \in Nat
      /\ \A x \in S : rank(x) \in 0 .. n - 1
      /\ \A x, y \in S : Before(x, y) => rank(x) < rank(y)
      /\ \A x, y \in S : rank(x) = rank(y) => x = y
      /\ \A k \in 0 .. n - 1 : \E x \in S : rank(x) = k
  <2>1. StrictOrder(S, Precedes(S)) /\ \A x \in S : Under(S, Precedes(S), x) = {q \in S : Before(q, x)}
    BY BeforeOrder
  <2>2. \A x, y \in S : <<x, y>> \in Precedes(S) <=> Before(x, y)
    BY DEF Precedes
  <2> DEFINE B == Precedes(S)
             U(x) == Cardinality(Under(S, B, x))
  <2>3. /\ n \in Nat
        /\ \A x \in S : U(x) \in 0 .. n - 1
        /\ \A x, y \in S : <<x, y>> \in B => U(x) < U(y)
        /\ \A x, y \in S : U(x) = U(y) => x = y
        /\ \A k \in 0 .. n - 1 : \E x \in S : U(x) = k
    <3>1. StrictOrder(S, B)
      BY <2>1
    <3> HIDE DEF B
    <3> QED BY <3>1, RanksAre
  <2>4. \A x \in S : U(x) = rank(x)
    BY <2>1
  <2>5. \A x \in S : rank(x) \in 0 .. n - 1
    <3> HIDE DEF U, rank, n
    <3> QED BY <2>3, <2>4
  <2>6. \A x, y \in S : Before(x, y) => rank(x) < rank(y)
    <3> SUFFICES ASSUME NEW x \in S, NEW y \in S, Before(x, y) PROVE rank(x) < rank(y)
      OBVIOUS
    <3>1. <<x, y>> \in B
      BY <2>2
    <3> HIDE DEF U, rank, n, B
    <3> QED BY <2>3, <2>4, <3>1
  <2>7. \A x, y \in S : rank(x) = rank(y) => x = y
    <3> HIDE DEF U, rank, n, B
    <3> QED BY <2>3, <2>4
  <2>8. \A k \in 0 .. n - 1 : \E x \in S : rank(x) = k
    <3> HIDE DEF U, rank, n, B
    <3> QED BY <2>3, <2>4
  <2> HIDE DEF rank
  <2> QED BY <2>3, <2>5, <2>6, <2>7, <2>8
<1>2. out = [i \in 1 .. n |-> CHOOSE r \in S : rank(r) = i - 1]
  BY DEF SortRuns
<1> HIDE DEF n, out
<1>3. \A i \in 1 .. n : out[i] \in S /\ rank(out[i]) = i - 1
  <2> TAKE i \in 1 .. n
  <2>1. i - 1 \in 0 .. n - 1
    BY <1>1
  <2>2. \E r \in S : rank(r) = i - 1
    BY <1>1, <2>1
  <2>3. out[i] = CHOOSE r \in S : rank(r) = i - 1
    BY <1>2
  <2> HIDE DEF rank
  <2> QED BY <2>2, <2>3
<1> HIDE DEF rank
<1>4. out \in Seq(S) /\ Len(out) = n
  <2>1. out \in [1 .. n -> S]
    BY <1>2, <1>3
  <2> QED BY <1>1, <2>1
<1>5. \A i, j \in 1 .. n : i < j => Before(out[i], out[j])
  <2> SUFFICES ASSUME NEW i \in 1 .. n, NEW j \in 1 .. n, i < j PROVE Before(out[i], out[j])
    OBVIOUS
  <2>1. out[i] \in S /\ out[j] \in S /\ rank(out[i]) = i - 1 /\ rank(out[j]) = j - 1
    BY <1>3
  <2>2. out[i] # out[j] /\ ~ Before(out[j], out[i])
    BY <1>1, <2>1
  <2> QED BY <2>1, <2>2, BeforeOrder DEF StrictOrder, Precedes
<1>6. \A x \in S : \E i \in 1 .. n : out[i] = x
  <2> TAKE x \in S
  <2>1. rank(x) \in 0 .. n - 1
    BY <1>1
  <2>2. rank(x) + 1 \in 1 .. n /\ rank(out[rank(x) + 1]) = rank(x) /\ out[rank(x) + 1] \in S
    BY <1>1, <1>3, <2>1
  <2> QED BY <1>1, <2>2
<1>7. DOMAIN out = 1 .. n
  BY <1>2
<1>8. ToSet(out) = S
  BY <1>3, <1>6, <1>7 DEF ToSet
<1> QED
  BY <1>4, <1>5, <1>8 DEF out, n

LEMMA SortOfSet ==
  ASSUME NEW S \in SUBSET Proper, Keyed(S), IsFiniteSet(S)
  PROVE  Sorted(SortRuns(S)) /\ ToSet(SortRuns(S)) = S
<1>1. S \in SUBSET Piece
  BY PieceRun
<1>2. SortRuns(S) \in Seq(S) => SortRuns(S) \in Seq(Proper)
  OBVIOUS
<1> QED
  BY <1>1, <1>2, SortOfPieces DEF Sorted

(* A sorted sequence of runs is its set, sorted.                           *)
LEMMA SortedIsSort ==
  ASSUME NEW s, Sorted(s)
  PROVE  /\ IsFiniteSet(ToSet(s)) /\ ToSet(s) \subseteq Proper /\ Keyed(ToSet(s))
         /\ SortRuns(ToSet(s)) = s
         /\ Len(s) \in Nat /\ Cardinality(ToSet(s)) = Len(s)
<1> DEFINE S == ToSet(s)
           m == Len(s)
<1>1. m \in Nat /\ s \in [1 .. m -> Proper] /\ DOMAIN s = 1 .. m
  BY DEF Sorted
<1>2. S = {s[i] : i \in 1 .. m}
  BY <1>1 DEF ToSet
<1>3. S \in SUBSET Proper /\ s \in [1 .. m -> S] /\ \A x \in S : \E i \in 1 .. m : s[i] = x
  <2> HIDE DEF m, S
  <2> QED BY <1>1, <1>2
<1>4. \A i, j \in 1 .. m : i < j => Before(s[i], s[j])
  BY DEF Sorted
<1> HIDE DEF m, S
<1>5. IsFiniteSet(S)
  <2>1. IsFiniteSet(1 .. m)
    BY <1>1, FS_Interval
  <2>2. s \in Surjection(1 .. m, S)
    BY <1>3 DEF Surjection
  <2> QED BY <2>1, <2>2, FS_Surjection
<1>6. Keyed(S)
  <2> SUFFICES ASSUME NEW r \in S, NEW q \in S, r.lo = q.lo, r.tag = q.tag PROVE r = q
    BY DEF Keyed
  <2>1. PICK i \in 1 .. m : s[i] = r
    BY <1>3
  <2>2. PICK j \in 1 .. m : s[j] = q
    BY <1>3
  <2>3. r \in Proper /\ q \in Proper
    BY <1>3
  <2>4. ~ Before(r, q) /\ ~ Before(q, r)
    BY <2>3, ProperRun DEF Before
  <2>5. ~ (i < j) /\ ~ (j < i)
    BY <1>4, <2>1, <2>2, <2>4
  <2>6. i = j
    BY <2>5, <1>1
  <2> QED BY <2>1, <2>2, <2>6
<1>7. StrictOrder(S, Precedes(S)) /\ \A x \in S : Under(S, Precedes(S), x) = {q \in S : Before(q, x)}
  <2>1. S \in SUBSET Piece
    BY <1>3, PieceRun
  <2> QED BY <1>6, <2>1, BeforeOrder
<1>8. \A i, j \in 1 .. m : i < j => <<s[i], s[j]>> \in Precedes(S)
  BY <1>3, <1>4 DEF Precedes
<1>9. Cardinality(S) = m /\ \A i \in 1 .. m : Cardinality(Under(S, Precedes(S), s[i])) = i - 1
  <2> DEFINE B == Precedes(S)
  <2>1. StrictOrder(S, B) /\ Lists(s, m, S, B)
    BY <1>1, <1>3, <1>7, <1>8 DEF Lists
  <2> HIDE DEF B
  <2>2. Cardinality(S) = m /\ \A i \in 1 .. m : Cardinality(Under(S, B, s[i])) = i - 1
    BY <1>5, <2>1, RankOfPlace
  <2> QED BY <2>2 DEF B
<1>10. \A i \in 1 .. m : Cardinality({q \in S : Before(q, s[i])}) = i - 1
  BY <1>3, <1>7, <1>9
<1>11. \A x, y \in S : Cardinality({q \in S : Before(q, x)}) = Cardinality({q \in S : Before(q, y)}) => x = y
  <2> DEFINE B == Precedes(S)
  <2>1. StrictOrder(S, B)
    BY <1>7
  <2>2. \A x, y \in S : Cardinality(Under(S, B, x)) = Cardinality(Under(S, B, y)) => x = y
    <3> HIDE DEF B
    <3> QED BY <1>5, <2>1, RanksAre
  <2>3. \A x \in S : Under(S, B, x) = {q \in S : Before(q, x)}
    BY <1>7
  <2> HIDE DEF B
  <2> QED BY <2>2, <2>3
<1>12. SortRuns(S) = [i \in 1 .. m |-> CHOOSE r \in S : Cardinality({q \in S : Before(q, r)}) = i - 1]
  BY <1>9 DEF SortRuns
<1>13. \A i \in 1 .. m : (CHOOSE r \in S : Cardinality({q \in S : Before(q, r)}) = i - 1) = s[i]
  <2> TAKE i \in 1 .. m
  <2> DEFINE rank(x) == Cardinality({q \in S : Before(q, x)})
  <2>1. s[i] \in S /\ rank(s[i]) = i - 1 /\ \A x \in S : rank(x) = i - 1 => x = s[i]
    BY <1>3, <1>10, <1>11
  <2> HIDE DEF rank
  <2>2. (CHOOSE r \in S : rank(r) = i - 1) = s[i]
    BY <2>1
  <2> QED BY <2>2 DEF rank
<1>14. SortRuns(S) = s
  <2> DEFINE at(i) == CHOOSE r \in S : Cardinality({q \in S : Before(q, r)}) = i - 1
  <2>1. SortRuns(S) = [i \in 1 .. m |-> at(i)] /\ \A i \in 1 .. m : at(i) = s[i]
    BY <1>12, <1>13
  <2> HIDE DEF at
  <2> QED BY <1>1, <2>1
<1> QED
  BY <1>1, <1>3, <1>5, <1>6, <1>9, <1>14 DEF S, m

-----------------------------------------------------------------------------
(* Where runs hold; runs that do not meet; normal sequences.               *)
Covers(r, w, t, b) == r.tag = t /\ r.lo <= w /\ w <= r.hi /\ b \in r.mask
On(S, w, t, b) == \E r \in S : Covers(r, w, t, b)
Clear(r, s) == r.hi < s.lo /\ (r.mask = s.mask => r.hi + 1 < s.lo)
Apart(S) == \A r, s \in S : r.tag = s.tag /\ r # s => Clear(r, s) \/ Clear(s, r)
Normal(s) == Sorted(s) /\ Apart(ToSet(s))
Lined(s, t) ==
  /\ s \in Seq(Proper)
  /\ \A i \in 1 .. Len(s) : s[i].tag = t
  /\ \A i, j \in 1 .. Len(s) : i < j => Clear(s[i], s[j])

(* The members of a sequence are what it holds at its places.              *)
LEMMA Members ==
  ASSUME NEW V, NEW s \in Seq(V)
  PROVE  /\ Len(s) \in Nat /\ DOMAIN s = 1 .. Len(s) /\ ToSet(s) \subseteq V
         /\ \A i \in 1 .. Len(s) : s[i] \in ToSet(s) /\ s[i] \in V
         /\ \A x \in ToSet(s) : \E i \in 1 .. Len(s) : x = s[i]
         /\ (s = <<>> <=> Len(s) = 0) /\ (s = <<>> <=> ToSet(s) = {})
<1>1. Len(s) \in Nat /\ DOMAIN s = 1 .. Len(s) /\ s \in [1 .. Len(s) -> V]
  BY LenProperties
<1>2. s = <<>> <=> Len(s) = 0
  BY EmptySeq
<1>3. ToSet(s) = {s[i] : i \in 1 .. Len(s)}
  BY <1>1 DEF ToSet
<1>4. Len(s) = 0 => ToSet(s) = {}
  BY <1>3
<1>5. Len(s) # 0 => s[1] \in ToSet(s)
  BY <1>1, <1>3
<1> QED
  BY <1>1, <1>2, <1>3, <1>4, <1>5

(* What a sequence of runs means, place by place.                          *)
LEMMA MeanIs ==
  ASSUME NEW runs \in Seq(Proper)
  PROVE  /\ RunsMean(runs) \subseteq Rel \X Nat \X Bit
         /\ \A w \in Rel, t \in Nat, b \in Bit :
              <<w, t, b>> \in RunsMean(runs) <=> On(ToSet(runs), w, t, b)
<1> DEFINE S == ToSet(runs)
           at(r) == {<<rel, r.tag, b>> : rel \in r.lo .. r.hi, b \in r.mask}
<1>1. S \subseteq Proper
  BY Members
<1>2. RunsMean(runs) = UNION {at(r) : r \in S}
  BY DEF RunsMean
<1> HIDE DEF S
<1>3. \A r \in Proper : at(r) \subseteq Rel \X Nat \X Bit
  <2> TAKE r \in Proper
  <2>1. r.lo .. r.hi \subseteq Rel /\ r.tag \in Nat /\ r.mask \subseteq Bit
    BY ProperRun DEF Rel
  <2> QED BY <2>1
<1>4. ASSUME NEW w \in Rel, NEW t \in Nat, NEW b \in Bit, NEW r \in Proper
      PROVE  <<w, t, b>> \in at(r) <=> (r.tag = t /\ r.lo <= w /\ w <= r.hi /\ b \in r.mask)
  <2>1. w \in Nat /\ r.lo \in Nat /\ r.hi \in Nat
    BY ProperRun DEF Rel
  <2>2. w \in r.lo .. r.hi <=> (r.lo <= w /\ w <= r.hi)
    BY <2>1
  <2> QED BY <2>2
<1>5. RunsMean(runs) \subseteq Rel \X Nat \X Bit
  <2> HIDE DEF at
  <2> QED BY <1>1, <1>2, <1>3
<1>6. ASSUME NEW w \in Rel, NEW t \in Nat, NEW b \in Bit
      PROVE  <<w, t, b>> \in RunsMean(runs) <=> On(S, w, t, b)
  <2>1. <<w, t, b>> \in RunsMean(runs) <=> \E r \in S : <<w, t, b>> \in at(r)
    <3> HIDE DEF at
    <3> QED BY <1>2
  <2> HIDE DEF at
  <2> QED BY <1>1, <1>4, <2>1 DEF On, Covers
<1> QED
  BY <1>5, <1>6 DEF S

(* Sequences of runs that hold at the same places mean the same, and a set *)
(* of places is what runs mean that hold just there.                       *)
LEMMA MeanOf ==
  ASSUME NEW runs \in Seq(Proper), NEW M \in SUBSET (Rel \X Nat \X Bit),
         \A w \in Rel, t \in Nat, b \in Bit : <<w, t, b>> \in M <=> On(ToSet(runs), w, t, b)
  PROVE  RunsMean(runs) = M
<1>1. \A x \in Rel \X Nat \X Bit : \E w \in Rel, t \in Nat, b \in Bit : x = <<w, t, b>>
  OBVIOUS
<1>2. \A x \in Rel \X Nat \X Bit : x \in RunsMean(runs) <=> x \in M
  BY <1>1, MeanIs
<1> QED
  BY <1>2, MeanIs

LEMMA ClearKey ==
  ASSUME NEW r \in Proper, NEW s \in Proper, Clear(r, s)
  PROVE  r.lo < s.lo /\ r.hi < s.hi /\ ~ Clear(s, r) /\ r.hi < s.lo
  BY ProperRun DEF Clear

(* Runs apart, sorted, are normal; and in normal runs a later run of the   *)
(* same tag is clear of an earlier one.                                    *)
LEMMA SortNormal ==
  ASSUME NEW S \in SUBSET Proper, IsFiniteSet(S), Apart(S)
  PROVE  Normal(SortRuns(S)) /\ ToSet(SortRuns(S)) = S /\ SortRuns(S) \in Seq(Proper)
<1>1. Keyed(S)
  <2> SUFFICES ASSUME NEW r \in S, NEW s \in S, r.lo = s.lo, r.tag = s.tag, r # s PROVE FALSE
    BY DEF Keyed
  <2>1. Clear(r, s) \/ Clear(s, r)
    BY DEF Apart
  <2> QED BY <2>1, ClearKey, ProperRun
<1> QED
  BY <1>1, SortOfSet DEF Normal, Sorted

LEMMA NormalOrder ==
  ASSUME NEW s, Normal(s), NEW i \in 1 .. Len(s), NEW j \in 1 .. Len(s), i < j, s[i].tag = s[j].tag
  PROVE  Clear(s[i], s[j])
<1>1. s \in Seq(Proper) /\ Before(s[i], s[j])
  BY DEF Normal, Sorted
<1>2. s[i] \in Proper /\ s[j] \in Proper /\ s[i] \in ToSet(s) /\ s[j] \in ToSet(s)
  BY <1>1, Members
<1>3. s[i].lo < s[j].lo
  BY <1>1, <1>2, ProperRun DEF Before
<1>4. s[i] # s[j] /\ ~ Clear(s[j], s[i])
  BY <1>2, <1>3, ProperRun, ClearKey
<1>5. Apart(ToSet(s))
  BY DEF Normal
<1> QED
  BY <1>2, <1>4, <1>5 DEF Apart

LEMMA NormalFacts ==
  ASSUME NEW s, Normal(s)
  PROVE  /\ s \in Seq(Proper) /\ IsFiniteSet(ToSet(s)) /\ ToSet(s) \subseteq Proper
         /\ Apart(ToSet(s)) /\ SortRuns(ToSet(s)) = s
  BY SortedIsSort DEF Normal, Sorted

(* A line of runs of one tag is normal, and normal runs of one tag are in  *)
(* line.                                                                   *)
LEMMA LinedNormal ==
  ASSUME NEW s, NEW t, Lined(s, t)
  PROVE  Normal(s) /\ s \in Seq(Proper) /\ \A r \in ToSet(s) : r.tag = t
<1>1. s \in Seq(Proper)
  BY DEF Lined
<1>2. \A i, j \in 1 .. Len(s) : i < j => Before(s[i], s[j])
  <2> SUFFICES ASSUME NEW i \in 1 .. Len(s), NEW j \in 1 .. Len(s), i < j PROVE Before(s[i], s[j])
    OBVIOUS
  <2>1. s[i] \in Proper /\ s[j] \in Proper /\ Clear(s[i], s[j])
    BY <1>1, Members DEF Lined
  <2> QED BY <2>1, ClearKey DEF Before
<1>3. Apart(ToSet(s))
  <2> SUFFICES ASSUME NEW r \in ToSet(s), NEW q \in ToSet(s), r # q PROVE Clear(r, q) \/ Clear(q, r)
    BY DEF Apart
  <2>1. PICK i \in 1 .. Len(s) : r = s[i]
    BY <1>1, Members
  <2>2. PICK j \in 1 .. Len(s) : q = s[j]
    BY <1>1, Members
  <2>3. i < j \/ j < i
    BY <1>1, <2>1, <2>2, Members
  <2> QED BY <2>1, <2>2, <2>3 DEF Lined
<1>4. \A r \in ToSet(s) : r.tag = t
  BY <1>1, Members DEF Lined
<1> QED
  BY <1>1, <1>2, <1>3, <1>4 DEF Normal, Sorted

LEMMA WithTagLined ==
  ASSUME NEW s, Normal(s), NEW t
  PROVE  /\ Lined(WithTag(s, t), t)
         /\ ToSet(WithTag(s, t)) = {r \in ToSet(s) : r.tag = t}
<1> DEFINE S == {r \in ToSet(s) : r.tag = t}
           q == SortRuns(S)
<1>1. S \in SUBSET Proper /\ IsFiniteSet(S) /\ Apart(S)
  <2>1. S \subseteq ToSet(s)
    OBVIOUS
  <2>2. IsFiniteSet(S)
    <3> HIDE DEF S
    <3> QED BY <2>1, NormalFacts, FS_Subset
  <2> QED BY <2>1, <2>2, NormalFacts DEF Apart
<1>2. WithTag(s, t) = q
  BY DEF WithTag
<1> HIDE DEF S
<1>3. Normal(q) /\ ToSet(q) = S /\ q \in Seq(Proper)
  BY <1>1, SortNormal
<1>4. \A i \in 1 .. Len(q) : q[i].tag = t
  <2> HIDE DEF q
  <2>1. \A i \in 1 .. Len(q) : q[i] \in S
    BY <1>3, Members
  <2> QED BY <2>1 DEF S
<1> HIDE DEF q
<1>5. \A i, j \in 1 .. Len(q) : i < j => Clear(q[i], q[j])
  BY <1>3, <1>4, NormalOrder
<1> QED
  BY <1>2, <1>3, <1>4, <1>5 DEF Lined, S

-----------------------------------------------------------------------------
(* Folds from the left: what they are at each prefix of the sequence.      *)
LEMMA PrefixesOf ==
  ASSUME NEW n \in Nat, NEW G, 0 \in G, \A k \in 1 .. n : k - 1 \in G => k \in G
  PROVE  \A k \in 0 .. n : k \in G
<1> DEFINE T == {k \in 0 .. n : k \notin G}
<1> SUFFICES ASSUME T # {} PROVE FALSE
  OBVIOUS
<1>1. PICK k \in T : \A m \in T : k <= m
  <2>1. T \in SUBSET Nat
    OBVIOUS
  <2> HIDE DEF T
  <2> QED BY <2>1, FirstNatural
<1>2. k \in 0 .. n /\ k \notin G /\ k # 0
  BY <1>1
<1>3. k \in 1 .. n /\ k - 1 \in 0 .. n /\ ~ (k <= k - 1)
  BY <1>2
<1>4. k - 1 \in G
  BY <1>1, <1>3
<1> QED
  BY <1>2, <1>3, <1>4

LEMMA LastOfPrefix ==
  ASSUME NEW n \in Nat
  PROVE  /\ \A T \in SUBSET (1 .. n) : T # {} => Max(T) \in T
         /\ \A k \in 1 .. n : 1 .. k # {} /\ Max(1 .. k) = k /\ (1 .. k) \ {k} = 1 .. (k - 1)
<1>1. \A T \in SUBSET (1 .. n) : T # {} => Max(T) \in T /\ \A m \in T : m <= Max(T)
  <2>1. 1 \in Int /\ n \in Int
    OBVIOUS
  <2> QED BY <2>1, GreatestOf
<1>2. ASSUME NEW k \in 1 .. n
      PROVE  1 .. k # {} /\ Max(1 .. k) = k /\ (1 .. k) \ {k} = 1 .. (k - 1)
  <2>1. 1 .. k \in SUBSET (1 .. n) /\ k \in 1 .. k
    OBVIOUS
  <2>2. Max(1 .. k) \in 1 .. k /\ k <= Max(1 .. k)
    BY <1>1, <2>1
  <2>3. Max(1 .. k) = k
    BY <2>2
  <2>4. (1 .. k) \ {k} = 1 .. (k - 1)
    OBVIOUS
  <2> QED BY <2>1, <2>3, <2>4
<1> QED
  BY <1>1, <1>2

Stepwise(n, base, step, g) ==
  [T \in SUBSET (1 .. n) |-> IF T = {} THEN base ELSE step[<<Max(T), g[T \ {Max(T)}]>>]]
StepwiseDefined(n, V, base, step) ==
  \E g \in [SUBSET (1 .. n) -> V] : g = Stepwise(n, base, step, g)

LEMMA StepwiseExists ==
  ASSUME NEW n \in Nat, NEW V, NEW base \in V, NEW step \in [(1 .. n) \X V -> V]
  PROVE  StepwiseDefined(n, V, base, step)
<1> DEFINE S == 1 .. n
           pick == [T \in SUBSET S |-> Max(T)]
<1>1. IsFiniteSet(S)
  BY FS_Interval
<1>2. \A T \in SUBSET S : T # {} => pick[T] \in T
  BY LastOfPrefix
<1>3. FoldDefined(S, V, base, pick, step)
  <2> HIDE DEF S, pick
  <2>1. step \in [S \X V -> V]
    BY DEF S
  <2> QED BY <1>1, <1>2, <2>1, FoldExists
<1>4. PICK g \in [SUBSET S -> V] : g = Folding(S, base, pick, step, g)
  BY <1>3 DEF FoldDefined
<1>5. Folding(S, base, pick, step, g) = Stepwise(n, base, step, g)
  BY DEF Folding, Stepwise
<1> QED
  BY <1>4, <1>5 DEF StepwiseDefined

LEMMA PushCloses ==
  /\ <<>> \in Seq(Piece)
  /\ \A s \in Seq(Piece), r \in Piece : PushCoalesced(s, r) \in Seq(Piece)
<1>1. <<>> \in Seq(Piece)
  BY EmptySeq
<1>2. ASSUME NEW s \in Seq(Piece), NEW r \in Piece PROVE PushCoalesced(s, r) \in Seq(Piece)
  <2>1. Append(s, r) \in Seq(Piece)
    BY AppendProperties
  <2>2. ASSUME s # <<>> PROVE [s EXCEPT ![Len(s)].hi = r.hi] \in Seq(Piece)
    <3>1. Len(s) \in 1 .. Len(s) /\ s[Len(s)] \in Piece
      BY <2>2, Members
    <3>2. [s[Len(s)] EXCEPT !.hi = r.hi] \in Piece
      BY <3>1 DEF Piece
    <3>3. [s EXCEPT ![Len(s)] = [s[Len(s)] EXCEPT !.hi = r.hi]] \in Seq(Piece)
      BY <3>1, <3>2, ExceptSeq
    <3> QED BY <3>3
  <2> QED BY <2>1, <2>2 DEF PushCoalesced
<1> QED
  BY <1>1, <1>2

(* Coalescing, prefix by prefix.                                            *)
LEMMA CoalesceSteps ==
  ASSUME NEW p \in Seq(Piece)
  PROVE  \E F \in [0 .. Len(p) -> Seq(Piece)] :
           /\ F[0] = <<>>
           /\ \A k \in 1 .. Len(p) : F[k] = PushCoalesced(F[k - 1], p[k])
           /\ FoldLeft(PushCoalesced, <<>>, p) = F[Len(p)]
<1> DEFINE n == Len(p)
           step == [q \in (1 .. n) \X Seq(Piece) |-> PushCoalesced(q[2], p[q[1]])]
           Eq(g) == [T \in SUBSET DOMAIN p |-> IF T = {} THEN <<>> ELSE PushCoalesced(g[T \ {Max(T)}], p[Max(T)])]
           iter == CHOOSE g : g = Eq(g)
<1>1. n \in Nat /\ DOMAIN p = 1 .. n /\ \A i \in 1 .. n : p[i] \in Piece
  BY Members
<1>2. step \in [(1 .. n) \X Seq(Piece) -> Seq(Piece)]
  <2> SUFFICES ASSUME NEW q \in (1 .. n) \X Seq(Piece) PROVE PushCoalesced(q[2], p[q[1]]) \in Seq(Piece)
    OBVIOUS
  <2>1. p[q[1]] \in Piece /\ q[2] \in Seq(Piece)
    <3> HIDE DEF n
    <3> QED BY <1>1
  <2> HIDE DEF n, step
  <2> QED BY <2>1, PushCloses
<1>3. PICK g \in [SUBSET (1 .. n) -> Seq(Piece)] : g = Stepwise(n, <<>>, step, g)
  <2>1. <<>> \in Seq(Piece)
    BY PushCloses
  <2> HIDE DEF step, n
  <2>2. StepwiseDefined(n, Seq(Piece), <<>>, step)
    BY <1>1, <1>2, <2>1, StepwiseExists
  <2> QED BY <2>2 DEF StepwiseDefined
<1>4. Stepwise(n, <<>>, step, g) = Eq(g)
  <2>1. SUBSET (1 .. n) = SUBSET DOMAIN p
    BY <1>1
  <2>2. \A T \in SUBSET (1 .. n) : T # {} => Max(T) \in 1 .. n /\ g[T \ {Max(T)}] \in Seq(Piece)
    <3> HIDE DEF n
    <3>1. \A T \in SUBSET (1 .. n) : T # {} => Max(T) \in T /\ T \ {Max(T)} \in SUBSET (1 .. n)
      BY <1>1, LastOfPrefix
    <3> QED BY <3>1, <1>3
  <2>3. \A T \in SUBSET (1 .. n) : T # {} => step[<<Max(T), g[T \ {Max(T)}]>>] = PushCoalesced(g[T \ {Max(T)}], p[Max(T)])
    <3> HIDE DEF n
    <3> QED BY <2>2
  <2> HIDE DEF step, n
  <2> QED BY <2>1, <2>3 DEF Stepwise
<1>5. iter = Eq(iter)
  <2>1. g = Eq(g)
    BY <1>3, <1>4
  <2> HIDE DEF Eq
  <2> QED BY <2>1
<1>6. FoldLeft(PushCoalesced, <<>>, p) = iter[1 .. n]
  <2>1. FoldLeft(PushCoalesced, <<>>, p) = iter[DOMAIN p]
    BY DEF FoldLeft, MapThenFoldSet
  <2> HIDE DEF iter
  <2> QED BY <1>1, <2>1
<1> HIDE DEF n, iter, step
<1>7. iter[{}] = <<>>
  BY <1>5
<1>8. \A k \in 1 .. n : iter[1 .. k] = PushCoalesced(iter[1 .. (k - 1)], p[k])
  <2> TAKE k \in 1 .. n
  <2>1. 1 .. k \in SUBSET DOMAIN p
    BY <1>1
  <2>2. 1 .. k # {} /\ Max(1 .. k) = k /\ (1 .. k) \ {k} = 1 .. (k - 1)
    BY <1>1, LastOfPrefix
  <2>3. iter[1 .. k] = PushCoalesced(iter[(1 .. k) \ {Max(1 .. k)}], p[Max(1 .. k)])
    BY <1>5, <2>1, <2>2
  <2> QED BY <2>2, <2>3
<1> DEFINE G == {k \in 0 .. n : iter[1 .. k] \in Seq(Piece)}
<1>9. \A k \in 0 .. n : k \in G
  <2>1. 0 \in G
    <3>1. 1 .. 0 = {} /\ 0 \in 0 .. n /\ <<>> \in Seq(Piece)
      BY <1>1, PushCloses
    <3> QED BY <3>1, <1>7
  <2>2. \A k \in 1 .. n : k - 1 \in G => k \in G
    <3> SUFFICES ASSUME NEW k \in 1 .. n, k - 1 \in G PROVE iter[1 .. k] \in Seq(Piece)
      BY <1>1
    <3>1. iter[1 .. (k - 1)] \in Seq(Piece) /\ p[k] \in Piece
      BY <1>1
    <3> QED BY <1>8, <3>1, PushCloses
  <2> HIDE DEF G
  <2> QED BY <1>1, <2>1, <2>2, PrefixesOf
<1> DEFINE F == [k \in 0 .. n |-> iter[1 .. k]]
<1>10. F \in [0 .. n -> Seq(Piece)]
  BY <1>9
<1>11. F[0] = <<>>
  <2>1. 1 .. 0 = {} /\ 0 \in 0 .. n
    BY <1>1
  <2> QED BY <2>1, <1>7
<1>12. \A k \in 1 .. n : F[k] = PushCoalesced(F[k - 1], p[k])
  <2> TAKE k \in 1 .. n
  <2>1. k \in 0 .. n /\ k - 1 \in 0 .. n
    BY <1>1
  <2> QED BY <2>1, <1>8
<1>13. FoldLeft(PushCoalesced, <<>>, p) = F[n]
  <2>1. n \in 0 .. n
    BY <1>1
  <2> QED BY <1>6, <2>1
<1> HIDE DEF F
<1> QED
  BY <1>10, <1>11, <1>12, <1>13 DEF n

-----------------------------------------------------------------------------
(* Coalescing pieces of one tag that come in order, each beyond the last.  *)
Pieces(p, t) ==
  /\ p \in Seq(Piece)
  /\ \A i \in 1 .. Len(p) : p[i].tag = t /\ p[i].lo <= p[i].hi
  /\ \A i, j \in 1 .. Len(p) : i < j => p[i].hi < p[j].lo

LEMMA BeyondNext ==
  ASSUME NEW a \in Nat, NEW b \in Nat, NEW c \in Nat, NEW d \in Nat, a < b, b <= c, c < d
  PROVE  a + 1 < d /\ a < d
  OBVIOUS

LEMMA OnPlaces ==
  ASSUME NEW V, NEW s \in Seq(V), NEW w, NEW t, NEW b
  PROVE  On(ToSet(s), w, t, b) <=> \E i \in 1 .. Len(s) : Covers(s[i], w, t, b)
  BY Members DEF On

LEMMA PushKeeps ==
  ASSUME NEW t, NEW s, Lined(s, t), NEW r \in Piece, r.tag = t, r.lo <= r.hi,
         \A i \in 1 .. Len(s) : s[i].hi < r.lo
  PROVE  /\ Lined(PushCoalesced(s, r), t)
         /\ \A i \in 1 .. Len(PushCoalesced(s, r)) : PushCoalesced(s, r)[i].hi <= r.hi
         /\ \A w \in Rel, b \in Bit : On(ToSet(PushCoalesced(s, r)), w, t, b)
                                      <=> (On(ToSet(s), w, t, b) \/ Covers(r, w, t, b))
<1> DEFINE n == Len(s)
           out == PushCoalesced(s, r)
<1>1. s \in Seq(Proper) /\ n \in Nat /\ \A i \in 1 .. n : s[i] \in Proper /\ s[i].tag = t
  BY Members DEF Lined
<1>2. \A i, j \in 1 .. n : i < j => Clear(s[i], s[j])
  BY DEF Lined
<1>3. /\ r.lo \in Nat /\ r.hi \in Nat /\ r.lo <= r.hi
      /\ \A i \in 1 .. n : /\ s[i].lo \in Nat /\ s[i].hi \in Nat /\ s[i].lo <= s[i].hi
                           /\ s[i].hi < r.lo /\ s[i].mask # {}
  BY <1>1, PieceRun, ProperRun
<1>4. \A w \in Rel : w \in Nat
  BY NullSetsAssumption DEF Rel
<1>5. CASE r.mask = {}
  <2>1. out = s
    BY <1>5 DEF PushCoalesced
  <2>2. \A w, b : ~ Covers(r, w, t, b)
    BY <1>5 DEF Covers
  <2>3. \A i \in 1 .. n : s[i].hi <= r.hi
    BY <1>3
  <2> HIDE DEF out, n
  <2> QED BY <2>1, <2>2, <2>3 DEF out, n
<1>6. CASE r.mask # {} /\ s # <<>> /\ Last(s).mask = r.mask /\ Last(s).hi + 1 = r.lo
  <2> DEFINE e == [s[n] EXCEPT !.hi = r.hi]
  <2>1. n \in 1 .. n /\ Last(s) = s[n]
    BY <1>1, <1>6, Members DEF Last
  <2>2. e \in Proper /\ e.lo = s[n].lo /\ e.hi = r.hi /\ e.mask = s[n].mask /\ e.tag = t
    <3>1. s[n] \in Proper /\ s[n].lo <= r.hi /\ r.hi \in Rel
      BY <1>1, <1>3, <2>1 DEF Piece
    <3> QED BY <1>1, <2>1, <3>1 DEF Proper
  <2>3. out = [s EXCEPT ![n] = e]
    <3>1. out = [s EXCEPT ![n].hi = r.hi]
      BY <1>6 DEF PushCoalesced
    <3>2. [s EXCEPT ![n].hi = r.hi] = [s EXCEPT ![n] = [s[n] EXCEPT !.hi = r.hi]]
      OBVIOUS
    <3> HIDE DEF out, n
    <3> QED BY <3>1, <3>2 DEF n
  <2> HIDE DEF out, n, e
  <2>4. out \in Seq(Proper) /\ Len(out) = n /\ \A i \in 1 .. n : out[i] = IF i = n THEN e ELSE s[i]
    BY <1>1, <2>1, <2>2, <2>3, ExceptSeq DEF n
  <2>5. \A i \in 1 .. n : out[i].tag = t /\ out[i].hi <= r.hi
    <3> TAKE i \in 1 .. n
    <3>1. CASE i = n
      BY <1>3, <2>2, <2>4, <3>1
    <3>2. CASE i # n
      <4>1. out[i] = s[i] /\ s[i].tag = t
        BY <1>1, <2>4, <3>2
      <4>2. s[i].hi < r.lo /\ s[i].hi \in Nat /\ r.lo \in Nat /\ r.hi \in Nat /\ r.lo <= r.hi
        BY <1>3
      <4> QED BY <4>1, <4>2
    <3> QED BY <3>1, <3>2
  <2>6. \A i, j \in 1 .. n : i < j => Clear(out[i], out[j])
    <3> SUFFICES ASSUME NEW i \in 1 .. n, NEW j \in 1 .. n, i < j PROVE Clear(out[i], out[j])
      OBVIOUS
    <3>1. i # n /\ out[i] = s[i] /\ Clear(s[i], s[j])
      BY <1>1, <1>2, <2>4
    <3>2. out[j].lo = s[j].lo /\ out[j].mask = s[j].mask
      BY <2>2, <2>4
    <3> QED BY <3>1, <3>2 DEF Clear
  <2>7. ASSUME NEW w \in Rel, NEW b \in Bit
        PROVE  On(ToSet(out), w, t, b) <=> (On(ToSet(s), w, t, b) \/ Covers(r, w, t, b))
    <3>1. Covers(e, w, t, b) <=> (Covers(s[n], w, t, b) \/ Covers(r, w, t, b))
      <4>1. w \in Nat /\ s[n].lo \in Nat /\ s[n].hi \in Nat /\ s[n].hi + 1 = r.lo /\ s[n].lo <= s[n].hi
            /\ s[n].mask = r.mask /\ s[n].tag = t
        BY <1>1, <1>3, <1>4, <1>6, <2>1
      <4>2. r.lo \in Nat /\ r.hi \in Nat /\ r.lo <= r.hi
        BY <1>3
      <4>3. e.lo = s[n].lo /\ e.hi = r.hi /\ e.mask = r.mask /\ e.tag = t
        BY <2>2, <4>1
      <4>4. (e.lo <= w /\ w <= e.hi) <=> ((s[n].lo <= w /\ w <= s[n].hi) \/ (r.lo <= w /\ w <= r.hi))
        BY <4>1, <4>2, <4>3
      <4> QED BY <4>1, <4>3, <4>4 DEF Covers
    <3>2. On(ToSet(out), w, t, b) <=> \E i \in 1 .. n : Covers(out[i], w, t, b)
      BY <2>4, OnPlaces
    <3>3. On(ToSet(s), w, t, b) <=> \E i \in 1 .. n : Covers(s[i], w, t, b)
      BY <1>1, OnPlaces DEF n
    <3> QED BY <2>1, <2>4, <3>1, <3>2, <3>3
  <2> QED BY <2>4, <2>5, <2>6, <2>7 DEF Lined, out
<1>7. CASE r.mask # {} /\ ~ (s # <<>> /\ Last(s).mask = r.mask /\ Last(s).hi + 1 = r.lo)
  <2>1. out = Append(s, r)
    BY <1>7 DEF PushCoalesced
  <2>2. r \in Proper
    BY <1>7, PieceRun
  <2> HIDE DEF out, n
  <2>3. /\ out \in Seq(Proper) /\ Len(out) = n + 1
        /\ out[n + 1] = r /\ \A i \in 1 .. n : out[i] = s[i]
    BY <1>1, <2>1, <2>2, AppendProperties DEF n
  <2>4. \A i \in 1 .. n + 1 : out[i].tag = t /\ out[i].hi <= r.hi
    BY <1>1, <1>3, <2>3
  <2>5. \A i, j \in 1 .. n + 1 : i < j => Clear(out[i], out[j])
    <3> SUFFICES ASSUME NEW i \in 1 .. n + 1, NEW j \in 1 .. n + 1, i < j PROVE Clear(out[i], out[j])
      OBVIOUS
    <3>1. i \in 1 .. n /\ out[i] = s[i]
      BY <1>1, <2>3
    <3>2. CASE j \in 1 .. n
      BY <1>2, <2>3, <3>1, <3>2
    <3>3. CASE j = n + 1
      <4>1. CASE i = n
        <5>1. s # <<>> /\ Last(s) = s[n]
          BY <1>1, <3>1, Members DEF Last, n
        <5>2. s[n].hi < r.lo /\ s[n].hi \in Nat /\ (s[n].mask = r.mask => s[n].hi + 1 # r.lo)
          BY <1>3, <1>7, <3>1, <4>1, <5>1
        <5> QED BY <1>3, <2>3, <3>1, <3>3, <4>1, <5>2 DEF Clear
      <4>2. CASE i # n
        <5>1. n \in 1 .. n /\ i < n
          BY <1>1, <3>1, <4>2
        <5>2. s[i].hi < s[n].lo /\ s[n].lo <= s[n].hi /\ s[n].hi < r.lo
          BY <1>2, <1>3, <3>1, <5>1 DEF Clear
        <5>3. s[i].hi \in Nat /\ s[n].lo \in Nat /\ s[n].hi \in Nat
          BY <1>3, <3>1, <5>1
        <5>6. r.lo \in Nat
          BY <1>3
        <5>4. s[i].hi + 1 < r.lo /\ s[i].hi < r.lo
          BY <5>2, <5>3, <5>6, BeyondNext
        <5>5. out[i] = s[i] /\ out[j] = r
          BY <2>3, <3>1, <3>3
        <5> QED BY <5>4, <5>5 DEF Clear
      <4> QED BY <4>1, <4>2
    <3> QED BY <1>1, <3>2, <3>3
  <2>6. ASSUME NEW w \in Rel, NEW b \in Bit
        PROVE  On(ToSet(out), w, t, b) <=> (On(ToSet(s), w, t, b) \/ Covers(r, w, t, b))
    <3>1. On(ToSet(out), w, t, b) <=> \E i \in 1 .. n + 1 : Covers(out[i], w, t, b)
      BY <2>3, OnPlaces
    <3>2. On(ToSet(s), w, t, b) <=> \E i \in 1 .. n : Covers(s[i], w, t, b)
      BY <1>1, OnPlaces DEF n
    <3>3. n + 1 \in 1 .. n + 1 /\ 1 .. n \subseteq 1 .. n + 1 /\ \A i \in 1 .. n + 1 : i \in 1 .. n \/ i = n + 1
      BY <1>1
    <3> QED BY <2>3, <3>1, <3>2, <3>3
  <2> QED BY <2>3, <2>4, <2>5, <2>6 DEF Lined, out
<1> QED
  BY <1>5, <1>6, <1>7

LEMMA CoalesceLined ==
  ASSUME NEW t, NEW p, Pieces(p, t)
  PROVE  /\ Lined(FoldLeft(PushCoalesced, <<>>, p), t)
         /\ \A w \in Rel, b \in Bit : On(ToSet(FoldLeft(PushCoalesced, <<>>, p)), w, t, b)
                                      <=> On(ToSet(p), w, t, b)
<1> DEFINE n == Len(p)
<1>1. p \in Seq(Piece) /\ n \in Nat
  BY Members DEF Pieces
<1>2. PICK F \in [0 .. n -> Seq(Piece)] :
        /\ F[0] = <<>>
        /\ \A k \in 1 .. n : F[k] = PushCoalesced(F[k - 1], p[k])
        /\ FoldLeft(PushCoalesced, <<>>, p) = F[n]
  BY <1>1, CoalesceSteps
<1> DEFINE upTo(k) == \A w \in Rel, b \in Bit :
             On(ToSet(F[k]), w, t, b) <=> \E i \in 1 .. k : Covers(p[i], w, t, b)
           within(k) == \A j \in 1 .. n : j > k => \A i \in 1 .. Len(F[k]) : F[k][i].hi < p[j].lo
           G == {k \in 0 .. n : Lined(F[k], t) /\ within(k) /\ upTo(k)}
<1>3. \A i \in 1 .. n : /\ p[i] \in Piece /\ p[i].tag = t /\ p[i].lo <= p[i].hi
                        /\ p[i].lo \in Nat /\ p[i].hi \in Nat
  BY <1>1, Members, PieceRun DEF Pieces
<1>4. \A i, j \in 1 .. n : i < j => p[i].hi < p[j].lo
  BY DEF Pieces
<1> HIDE DEF n
<1>5. 0 \in G
  <2>1. <<>> \in Seq(Proper) /\ Len(<<>>) = 0 /\ 1 .. 0 = {}
    BY EmptySeq
  <2>2. Lined(<<>>, t)
    BY <2>1 DEF Lined
  <2>3. \A w, b : ~ On(ToSet(<<>>), w, t, b)
    BY <2>1, OnPlaces
  <2>4. 0 \in 0 .. n
    BY <1>1
  <2> QED BY <1>2, <2>1, <2>2, <2>3, <2>4
<1>6. ASSUME NEW k \in 1 .. n, k - 1 \in G
      PROVE  k \in G
  <2> DEFINE s == F[k - 1]
             r == p[k]
  <2>1. k \in 0 .. n /\ k - 1 \in 0 .. n
    BY <1>1
  <2>2. Lined(s, t) /\ within(k - 1) /\ upTo(k - 1)
    BY <1>6
  <2>3. r \in Piece /\ r.tag = t /\ r.lo <= r.hi
    BY <1>3
  <2>4. \A i \in 1 .. Len(s) : s[i].hi < r.lo
    BY <2>2, <2>1
  <2> HIDE DEF r, s
  <2>5. /\ Lined(PushCoalesced(s, r), t)
        /\ \A i \in 1 .. Len(PushCoalesced(s, r)) : PushCoalesced(s, r)[i].hi <= r.hi
        /\ \A w \in Rel, b \in Bit : On(ToSet(PushCoalesced(s, r)), w, t, b)
                                     <=> (On(ToSet(s), w, t, b) \/ Covers(r, w, t, b))
    BY <2>2, <2>3, <2>4, PushKeeps
  <2>6. F[k] = PushCoalesced(s, r)
    BY <1>2 DEF r, s
  <2>7. within(k)
    <3> SUFFICES ASSUME NEW j \in 1 .. n, j > k, NEW i \in 1 .. Len(F[k]) PROVE F[k][i].hi < p[j].lo
      OBVIOUS
    <3>1. F[k][i].hi <= r.hi /\ r.hi < p[j].lo /\ r.hi \in Nat /\ p[j].lo \in Nat
      BY <1>3, <1>4, <2>5, <2>6 DEF r
    <3>2. F[k] \in Seq(Proper)
      BY <2>5, <2>6 DEF Lined
    <3>3. F[k][i].hi \in Nat
      BY <3>2, Members, ProperRun
    <3> QED BY <3>1, <3>3
  <2>8. upTo(k)
    <3> SUFFICES ASSUME NEW w \in Rel, NEW b \in Bit
                 PROVE  On(ToSet(F[k]), w, t, b) <=> \E i \in 1 .. k : Covers(p[i], w, t, b)
      OBVIOUS
    <3>1. On(ToSet(s), w, t, b) <=> \E i \in 1 .. (k - 1) : Covers(p[i], w, t, b)
      BY <2>2 DEF s
    <3>2. \A i : i \in 1 .. k <=> (i \in 1 .. (k - 1) \/ i = k)
      BY <2>1
    <3> QED BY <2>5, <2>6, <3>1, <3>2 DEF r
  <2>9. Lined(F[k], t)
    BY <2>5, <2>6
  <2> HIDE DEF within, upTo
  <2> QED BY <2>1, <2>7, <2>8, <2>9
<1>7. n \in G
  <2> HIDE DEF G
  <2>1. \A k \in 0 .. n : k \in G
    BY <1>1, <1>5, <1>6, PrefixesOf
  <2> QED BY <1>1, <2>1
<1>8. \A w \in Rel, b \in Bit : On(ToSet(p), w, t, b) <=> \E i \in 1 .. n : Covers(p[i], w, t, b)
  BY <1>1, OnPlaces DEF n
<1> QED
  BY <1>2, <1>7, <1>8

-----------------------------------------------------------------------------
(* The bounds of two lists of runs in order, and the stretches between.    *)
LEMMA AscendingOf ==
  ASSUME NEW S \in SUBSET Nat, IsFiniteSet(S)
  PROVE  /\ Ascending(S) \in Seq(S)
         /\ \A i, j \in 1 .. Len(Ascending(S)) : i < j => Ascending(S)[i] < Ascending(S)[j]
         /\ \A x \in S : \E i \in 1 .. Len(Ascending(S)) : Ascending(S)[i] = x
<1> DEFINE B == {p \in S \X S : p[1] < p[2]}
           rank(x) == Cardinality(Under(S, B, x))
           n == Cardinality(S)
           out == Ascending(S)
<1>1. \A x, y \in S : <<x, y>> \in B <=> x < y
  OBVIOUS
<1>2. StrictOrder(S, B)
  <2>1. \A x, y, z \in S : x < y /\ y < z => x < z
    OBVIOUS
  <2>2. \A x \in S : ~ (x < x)
    OBVIOUS
  <2>3. \A x, y \in S : x # y => x < y \/ y < x
    OBVIOUS
  <2> HIDE DEF B
  <2> QED BY <1>1, <2>1, <2>2, <2>3 DEF StrictOrder
<1>3. \A x \in S : {m \in S : m < x} = Under(S, B, x)
  <2> HIDE DEF B
  <2> QED BY <1>1 DEF Under
<1>4. /\ n \in Nat
      /\ \A x, y \in S : <<x, y>> \in B => rank(x) < rank(y)
      /\ \A x, y \in S : rank(x) = rank(y) => x = y
      /\ \A x \in S : rank(x) \in 0 .. n - 1
      /\ \A k \in 0 .. n - 1 : \E x \in S : rank(x) = k
  <2>1. Ranked(S, B)
    <3> HIDE DEF B
    <3> QED BY <1>2, RanksAll
  <2> HIDE DEF B
  <2> QED BY <2>1 DEF Ranked
<1>5. out = [i \in 1 .. n |-> CHOOSE x \in S : Cardinality({m \in S : m < x}) = i - 1]
  BY DEF Ascending
<1> HIDE DEF out, n
<1>6. \A i \in 1 .. n : out[i] \in S /\ rank(out[i]) = i - 1
  <2> TAKE i \in 1 .. n
  <2> DEFINE less(x) == Cardinality({m \in S : m < x})
  <2>1. i - 1 \in 0 .. n - 1
    BY <1>4
  <2>2. PICK x \in S : rank(x) = i - 1
    BY <1>4, <2>1
  <2>3. \A y \in S : less(y) = rank(y)
    BY <1>3
  <2>4. out[i] = CHOOSE y \in S : less(y) = i - 1
    BY <1>5
  <2> HIDE DEF less, rank
  <2>5. \E y \in S : less(y) = i - 1
    BY <2>2, <2>3
  <2>6. out[i] \in S /\ less(out[i]) = i - 1
    BY <2>4, <2>5
  <2> QED BY <2>3, <2>6
<1> HIDE DEF rank
<1>7. out \in Seq(S) /\ Len(out) = n
  <2>1. n \in Nat
    BY <1>4
  <2>2. out \in [1 .. n -> S]
    BY <1>5, <1>6
  <2> QED BY <2>1, <2>2
<1>8. \A i, j \in 1 .. n : i < j => out[i] < out[j]
  <2> SUFFICES ASSUME NEW i \in 1 .. n, NEW j \in 1 .. n, i < j PROVE out[i] < out[j]
    OBVIOUS
  <2>1. out[i] \in S /\ out[j] \in S /\ rank(out[i]) = i - 1 /\ rank(out[j]) = j - 1
    BY <1>6
  <2>2. out[i] # out[j]
    BY <1>4, <2>1
  <2>3. ~ (out[j] < out[i])
    <3> SUFFICES ASSUME out[j] < out[i] PROVE FALSE
      OBVIOUS
    <3>1. rank(out[j]) < rank(out[i])
      BY <1>1, <1>4, <2>1
    <3> QED BY <1>4, <2>1, <3>1
  <2>4. out[i] \in Nat /\ out[j] \in Nat
    BY <2>1
  <2> QED BY <2>2, <2>3, <2>4
<1>9. \A x \in S : \E i \in 1 .. n : out[i] = x
  <2> TAKE x \in S
  <2>1. rank(x) \in 0 .. n - 1
    BY <1>4
  <2>2. rank(x) + 1 \in 1 .. n /\ out[rank(x) + 1] \in S /\ rank(out[rank(x) + 1]) = (rank(x) + 1) - 1
    BY <1>4, <1>6, <2>1
  <2>3. (rank(x) + 1) - 1 = rank(x)
    BY <1>4, <2>1
  <2> QED BY <1>4, <2>2, <2>3
<1> QED
  BY <1>7, <1>8, <1>9 DEF out

Stretch == [lo : Rel, hi : Rel]
Within(x, r) == r.lo <= x /\ x <= r.hi

LEMMA StretchesAre ==
  ASSUME NEW a \in Seq(Proper), NEW b \in Seq(Proper)
  PROVE  /\ Stretches(a, b) \in Seq(Stretch)
         /\ \A i \in 1 .. Len(Stretches(a, b)) : Stretches(a, b)[i].lo <= Stretches(a, b)[i].hi
         /\ \A i, j \in 1 .. Len(Stretches(a, b)) :
              i < j => Stretches(a, b)[i].hi < Stretches(a, b)[j].lo
         /\ \A r \in ToSet(a) \cup ToSet(b), x \in Nat : \A i \in 1 .. Len(Stretches(a, b)) :
              Within(x, Stretches(a, b)[i]) =>
                (Within(x, r) <=> (r.lo <= Stretches(a, b)[i].lo /\ Stretches(a, b)[i].hi <= r.hi))
         /\ \A r \in ToSet(a) \cup ToSet(b), x \in Nat :
              Within(x, r) => \E i \in 1 .. Len(Stretches(a, b)) : Within(x, Stretches(a, b)[i])
<1> DEFINE runs == ToSet(a) \cup ToSet(b)
           S == {r.lo : r \in runs} \cup {r.hi + 1 : r \in runs}
           q == Ascending(S)
           m == Len(q)
           w == Stretches(a, b)
<1>1. runs \subseteq Proper /\ IsFiniteSet(runs)
  <2>1. ToSet(a) \subseteq Proper /\ ToSet(b) \subseteq Proper
    BY Members
  <2>2. \A s \in Seq(Proper) : IsFiniteSet(ToSet(s))
    <3> TAKE s \in Seq(Proper)
    <3>1. s \in [1 .. Len(s) -> ToSet(s)] /\ \A x \in ToSet(s) : \E i \in 1 .. Len(s) : s[i] = x
      BY Members
    <3>2. IsFiniteSet(1 .. Len(s))
      BY Members, FS_Interval
    <3>3. s \in Surjection(1 .. Len(s), ToSet(s))
      BY <3>1 DEF Surjection
    <3> QED BY <3>2, <3>3, FS_Surjection
  <2> QED BY <2>1, <2>2, FS_Union
<1>2. \A r \in runs : /\ r.lo \in Nat /\ r.hi \in Nat /\ r.lo <= r.hi /\ r.hi <= MaxRel
                      /\ r.lo \in S /\ r.hi + 1 \in S
  BY <1>1, ProperRun
<1>3. MaxRel \in Nat /\ Rel = 0 .. MaxRel
  BY NullSetsAssumption DEF Rel
<1>4. S \in SUBSET Nat /\ \A x \in S : x <= MaxRel + 1
  <2> HIDE DEF runs
  <2> QED BY <1>2, <1>3
<1>5. IsFiniteSet(S)
  <2>1. IsFiniteSet(0 .. MaxRel + 1)
    BY <1>3, FS_Interval
  <2>2. S \subseteq 0 .. MaxRel + 1
    <3> HIDE DEF S
    <3> QED BY <1>3, <1>4
  <2> HIDE DEF S
  <2> QED BY <2>1, <2>2, FS_Subset
<1>6. w = [i \in 1 .. m - 1 |-> [lo |-> q[i], hi |-> q[i + 1] - 1]]
  BY DEF Stretches
<1> HIDE DEF S, q, w
<1>7. /\ q \in Seq(S) /\ m \in Nat
      /\ \A i, j \in 1 .. m : i < j => q[i] < q[j]
      /\ \A x \in S : \E i \in 1 .. m : q[i] = x
  BY <1>4, <1>5, AscendingOf, LenProperties DEF q
<1>a. m \in Nat /\ MaxRel \in Nat
  BY <1>3, <1>7
<1> HIDE DEF m, runs
<1> USE <1>a
<1>8. \A i \in 1 .. m : q[i] \in Nat /\ q[i] <= MaxRel + 1
  <2>1. \A i \in 1 .. m : q[i] \in S
    BY <1>7 DEF m
  <2> QED BY <1>4, <2>1
<1>9. \A i \in 1 .. m - 1 : /\ i \in 1 .. m /\ i + 1 \in 1 .. m
                            /\ w[i].lo = q[i] /\ w[i].hi = q[i + 1] - 1
                            /\ w[i].lo \in Rel /\ w[i].hi \in Rel /\ w[i].lo <= w[i].hi
                            /\ w[i] \in Stretch
  <2> TAKE i \in 1 .. m - 1
  <2>1. i \in 1 .. m /\ i + 1 \in 1 .. m /\ i < i + 1
    BY <1>7
  <2>2. w[i] = [lo |-> q[i], hi |-> q[i + 1] - 1]
    BY <1>6
  <2>3. q[i] < q[i + 1] /\ q[i] \in Nat /\ q[i + 1] \in Nat /\ q[i + 1] <= MaxRel + 1
    BY <1>7, <1>8, <2>1
  <2>4. q[i] \in Rel /\ q[i + 1] - 1 \in Rel /\ q[i] <= q[i + 1] - 1
    BY <1>3, <2>3
  <2> QED BY <2>1, <2>2, <2>4 DEF Stretch
<1>10. (w \in Seq(Stretch) /\ Len(w) = m - 1) \/ (m = 0 /\ w \in Seq(Stretch) /\ Len(w) = 0)
  <2>1. CASE m = 0
    <3>1. 1 .. m - 1 = {}
      BY <2>1
    <3>2. w = <<>>
      BY <1>6, <3>1
    <3> QED BY <2>1, <3>2, EmptySeq
  <2>2. CASE m # 0
    <3>1. m - 1 \in Nat
      BY <1>7, <2>2
    <3>2. w \in [1 .. m - 1 -> Stretch]
      BY <1>6, <1>9
    <3> QED BY <3>1, <3>2
  <2> QED BY <2>1, <2>2
<1>11. 1 .. Len(w) = 1 .. m - 1
  BY <1>10
<1>12. \A i, j \in 1 .. m : i <= j => q[i] <= q[j]
  BY <1>7, <1>8
<1>13. \A i, j \in 1 .. m - 1 : i < j => w[i].hi < w[j].lo
  <2> SUFFICES ASSUME NEW i \in 1 .. m - 1, NEW j \in 1 .. m - 1, i < j PROVE w[i].hi < w[j].lo
    OBVIOUS
  <2>1. i + 1 \in 1 .. m /\ j \in 1 .. m /\ i + 1 <= j
    BY <1>7, <1>9
  <2>2. q[i + 1] <= q[j] /\ q[i + 1] \in Nat /\ q[j] \in Nat
    BY <1>8, <1>12, <2>1
  <2>3. w[i].hi = q[i + 1] - 1 /\ w[j].lo = q[j]
    BY <1>9
  <2> QED BY <2>2, <2>3
<1>14. ASSUME NEW r \in runs, NEW x \in Nat, NEW i \in 1 .. m - 1, Within(x, w[i])
       PROVE  Within(x, r) <=> (r.lo <= w[i].lo /\ w[i].hi <= r.hi)
  <2>1. i \in 1 .. m /\ i + 1 \in 1 .. m /\ w[i].lo = q[i] /\ w[i].hi = q[i + 1] - 1
    BY <1>9
  <2>2. q[i] \in Nat /\ q[i + 1] \in Nat /\ q[i] <= x /\ x < q[i + 1]
    BY <1>8, <1>14, <2>1 DEF Within
  <2>3. PICK j \in 1 .. m : q[j] = r.lo
    BY <1>2, <1>7
  <2>4. PICK k \in 1 .. m : q[k] = r.hi + 1
    BY <1>2, <1>7
  <2>5. r.lo \in Nat /\ r.hi \in Nat
    BY <1>2
  <2>6. ASSUME r.lo <= x /\ x <= r.hi
        PROVE  r.lo <= w[i].lo /\ w[i].hi <= r.hi
    <3>1. j <= i
      <4>1. i + 1 <= j => q[i + 1] <= q[j]
        BY <1>12, <2>1
      <4>2. ~ (i + 1 <= j)
        BY <2>2, <2>3, <2>5, <2>6, <4>1
      <4> QED BY <1>7, <2>1, <4>2
    <3>2. i + 1 <= k
      <4>1. k <= i => q[k] <= q[i]
        BY <1>12, <2>1
      <4>2. ~ (k <= i)
        BY <2>2, <2>4, <2>5, <2>6, <4>1
      <4> QED BY <1>7, <2>1, <4>2
    <3>3. q[j] <= q[i] /\ q[i + 1] <= q[k]
      BY <1>12, <2>1, <3>1, <3>2
    <3>4. r.lo <= w[i].lo
      BY <2>1, <2>3, <3>3
    <3>5. w[i].hi <= r.hi
      BY <2>1, <2>2, <2>4, <2>5, <3>3
    <3> QED BY <3>4, <3>5
  <2>7. ASSUME r.lo <= w[i].lo /\ w[i].hi <= r.hi
        PROVE  r.lo <= x /\ x <= r.hi
    BY <2>1, <2>2, <2>5, <2>7
  <2> QED BY <2>6, <2>7 DEF Within
<1>15. ASSUME NEW r \in runs, NEW x \in Nat, Within(x, r)
       PROVE  \E i \in 1 .. m - 1 : Within(x, w[i])
  <2>1. r.lo <= x /\ x <= r.hi /\ r.lo \in Nat /\ r.hi \in Nat
    BY <1>2, <1>15 DEF Within
  <2>2. PICK j \in 1 .. m : q[j] = r.lo
    BY <1>2, <1>7
  <2>3. PICK k \in 1 .. m : q[k] = r.hi + 1
    BY <1>2, <1>7
  <2> DEFINE T == {i \in 1 .. m : x < q[i]}
  <2>4. PICK f \in T : \A i \in T : f <= i
    <3>1. T \in SUBSET Nat /\ k \in T
      BY <2>1, <2>3
    <3> HIDE DEF T
    <3> QED BY <3>1, FirstNatural
  <2>5. f \in 1 .. m /\ x < q[f]
    BY <2>4
  <2>6. ~ (f <= j)
    <3>1. f <= j => q[f] <= q[j]
      BY <1>12, <2>5
    <3>2. q[f] \in Nat
      BY <1>8, <2>5
    <3> QED BY <2>1, <2>2, <2>5, <3>1, <3>2
  <2>7. f - 1 \in 1 .. m - 1 /\ f - 1 \in 1 .. m /\ (f - 1) + 1 = f /\ ~ (f <= f - 1)
    BY <1>7, <2>5, <2>6
  <2>8. ~ (x < q[f - 1])
    BY <2>4, <2>7
  <2>9. q[f - 1] \in Nat /\ q[f] \in Nat
    BY <1>8, <2>5, <2>7
  <2>10. w[f - 1].lo = q[f - 1] /\ w[f - 1].hi = q[f] - 1
    BY <1>9, <2>7
  <2>11. Within(x, w[f - 1])
    BY <2>5, <2>8, <2>9, <2>10 DEF Within
  <2> QED BY <2>7, <2>11
<1> QED
  BY <1>9, <1>10, <1>11, <1>13, <1>14, <1>15 DEF runs, w

-----------------------------------------------------------------------------
(* Union and intersection of the runs of one tag.                          *)
Shows(S, x, b) == \E r \in S : Within(x, r) /\ b \in r.mask

LEMMA CoveringIs ==
  ASSUME NEW a \in Seq(Proper), NEW w, NEW x,
         \A r \in ToSet(a) : Within(x, r) <=> (r.lo <= w.lo /\ w.hi <= r.hi)
  PROVE  /\ Covering(a, w) \in SUBSET Bit
         /\ \A b : b \in Covering(a, w) <=> Shows(ToSet(a), x, b)
<1>1. \A r \in ToSet(a) : r.mask \subseteq Bit
  BY Members, ProperRun
<1>2. Covering(a, w) = UNION {r.mask : r \in {r \in ToSet(a) : r.lo <= w.lo /\ w.hi <= r.hi}}
  BY DEF Covering
<1>3. \A b : b \in Covering(a, w) <=> \E r \in ToSet(a) : r.lo <= w.lo /\ w.hi <= r.hi /\ b \in r.mask
  BY <1>2
<1> QED
  BY <1>1, <1>3 DEF Shows

LEMMA CoveringType ==
  ASSUME NEW a \in Seq(Proper), NEW w
  PROVE  Covering(a, w) \in SUBSET Bit
<1>1. \A r \in ToSet(a) : r.mask \subseteq Bit
  BY Members, ProperRun
<1> QED
  BY <1>1 DEF Covering

LEMMA LinedShows ==
  ASSUME NEW t, NEW s, Lined(s, t), NEW x, NEW b
  PROVE  On(ToSet(s), x, t, b) <=> Shows(ToSet(s), x, b)
<1>1. \A r \in ToSet(s) : r.tag = t
  BY LinedNormal
<1> QED
  BY <1>1 DEF On, Covers, Shows, Within

Stretched(a, b, mk, tag) ==
  [i \in DOMAIN Stretches(a, b) |-> Tagged(mk[i], Stretches(a, b)[i].lo, Stretches(a, b)[i].hi, tag)]

LEMMA StretchFold ==
  ASSUME NEW a \in Seq(Proper), NEW b \in Seq(Proper), NEW tag \in Nat,
         NEW mk \in [1 .. Len(Stretches(a, b)) -> SUBSET Bit]
  PROVE  /\ Lined(FoldLeft(PushCoalesced, <<>>, Stretched(a, b, mk, tag)), tag)
         /\ \A x \in Rel, y \in Bit :
              On(ToSet(FoldLeft(PushCoalesced, <<>>, Stretched(a, b, mk, tag))), x, tag, y)
              <=> \E i \in 1 .. Len(Stretches(a, b)) : Within(x, Stretches(a, b)[i]) /\ y \in mk[i]
<1> DEFINE w == Stretches(a, b)
           n == Len(w)
           p == Stretched(a, b, mk, tag)
<1>1. w \in Seq(Stretch) /\ n \in Nat /\ DOMAIN w = 1 .. n /\ \A i \in 1 .. n : w[i] \in Stretch
  BY StretchesAre, Members
<1>2. /\ \A i \in 1 .. n : w[i].lo <= w[i].hi
      /\ \A i, j \in 1 .. n : i < j => w[i].hi < w[j].lo
  BY StretchesAre
<1> HIDE DEF w
<1>3. p = [i \in 1 .. n |-> Tagged(mk[i], w[i].lo, w[i].hi, tag)]
  BY <1>1 DEF w, Stretched
<1>4. mk \in [1 .. n -> SUBSET Bit]
  BY DEF w
<1> HIDE DEF n, p
<1>5. \A i \in 1 .. n : /\ p[i] \in Piece /\ p[i].tag = tag /\ p[i].mask = mk[i]
                        /\ p[i].lo = w[i].lo /\ p[i].hi = w[i].hi
  BY <1>1, <1>3, <1>4 DEF Piece, Stretch, Tagged
<1>6. p \in Seq(Piece) /\ Len(p) = n
  <2>1. p \in [1 .. n -> Piece]
    BY <1>3, <1>5
  <2> QED BY <1>1, <2>1
<1>7. Pieces(p, tag)
  <2>1. \A i \in 1 .. n : p[i].tag = tag /\ p[i].lo <= p[i].hi
    BY <1>2, <1>5
  <2>2. \A i, j \in 1 .. n : i < j => p[i].hi < p[j].lo
    BY <1>2, <1>5
  <2> QED BY <1>6, <2>1, <2>2 DEF Pieces
<1>8. ASSUME NEW x \in Rel, NEW y \in Bit
      PROVE  On(ToSet(p), x, tag, y) <=> \E i \in 1 .. n : Within(x, w[i]) /\ y \in mk[i]
  <2>1. On(ToSet(p), x, tag, y) <=> \E i \in 1 .. n : Covers(p[i], x, tag, y)
    BY <1>6, OnPlaces
  <2>2. \A i \in 1 .. n : Covers(p[i], x, tag, y) <=> (Within(x, w[i]) /\ y \in mk[i])
    BY <1>5 DEF Covers, Within
  <2> QED BY <2>1, <2>2
<1> QED
  BY <1>7, <1>8, CoalesceLined DEF n, w, p

LEMMA OrTagKeeps ==
  ASSUME NEW t \in Nat, NEW a, Lined(a, t), NEW b, Lined(b, t)
  PROVE  /\ Lined(OrTag(a, b, t), t)
         /\ \A x \in Rel, y \in Bit : On(ToSet(OrTag(a, b, t)), x, t, y)
                                      <=> (On(ToSet(a), x, t, y) \/ On(ToSet(b), x, t, y))
<1>1. a \in Seq(Proper) /\ b \in Seq(Proper)
  BY DEF Lined
<1>2. \A x, y : ~ On(ToSet(<<>>), x, t, y)
  <2>1. <<>> \in Seq(Proper)
    BY EmptySeq
  <2>2. ToSet(<<>>) = {}
    BY <2>1, Members
  <2> QED BY <2>2 DEF On
<1>3. CASE a = <<>>
  <2>1. OrTag(a, b, t) = b
    BY <1>3 DEF OrTag
  <2> QED BY <1>2, <1>3, <2>1
<1>4. CASE a # <<>> /\ b = <<>>
  <2>1. OrTag(a, b, t) = a
    BY <1>4 DEF OrTag
  <2> QED BY <1>2, <1>4, <2>1
<1>5. CASE a # <<>> /\ b # <<>>
  <2> DEFINE w == Stretches(a, b)
             n == Len(w)
             mk == [i \in 1 .. n |-> Covering(a, w[i]) \cup Covering(b, w[i])]
             p == [i \in DOMAIN w |-> Tagged(Covering(a, w[i]) \cup Covering(b, w[i]), w[i].lo, w[i].hi, t)]
             q == [i \in DOMAIN w |-> Tagged(mk[i], w[i].lo, w[i].hi, t)]
  <2>1. OrTag(a, b, t) = FoldLeft(PushCoalesced, <<>>, p)
    BY <1>5 DEF OrTag
  <2>2. DOMAIN w = 1 .. n
    BY <1>1, StretchesAre, Members
  <2>3. p = q
    BY <2>2
  <2>4. mk \in [1 .. n -> SUBSET Bit]
    <3>1. \A i \in 1 .. n : Covering(a, w[i]) \in SUBSET Bit /\ Covering(b, w[i]) \in SUBSET Bit
      <4> HIDE DEF w, n
      <4> QED BY <1>1, CoveringType
    <3> HIDE DEF w, n
    <3> QED BY <3>1
  <2>5. /\ Lined(FoldLeft(PushCoalesced, <<>>, q), t)
        /\ \A x \in Rel, y \in Bit :
             On(ToSet(FoldLeft(PushCoalesced, <<>>, q)), x, t, y)
             <=> \E i \in 1 .. n : Within(x, w[i]) /\ y \in mk[i]
    <3> HIDE DEF mk
    <3>1. q = Stretched(a, b, mk, t)
      BY DEF Stretched
    <3>2. mk \in [1 .. Len(Stretches(a, b)) -> SUBSET Bit]
      BY <2>4
    <3> HIDE DEF q
    <3> QED BY <1>1, <3>1, <3>2, StretchFold
  <2>6. ASSUME NEW x \in Rel, NEW y \in Bit
        PROVE  (\E i \in 1 .. n : Within(x, w[i]) /\ y \in mk[i])
               <=> (On(ToSet(a), x, t, y) \/ On(ToSet(b), x, t, y))
    <3>1. x \in Nat
      BY NullSetsAssumption DEF Rel
    <3>2. \A i \in 1 .. n : Within(x, w[i]) =>
            (y \in mk[i] <=> (Shows(ToSet(a), x, y) \/ Shows(ToSet(b), x, y)))
      <4> SUFFICES ASSUME NEW i \in 1 .. n, Within(x, w[i])
                   PROVE  y \in mk[i] <=> (Shows(ToSet(a), x, y) \/ Shows(ToSet(b), x, y))
        OBVIOUS
      <4>1. \A r \in ToSet(a) \cup ToSet(b) : Within(x, r) <=> (r.lo <= w[i].lo /\ w[i].hi <= r.hi)
        BY <1>1, <3>1, StretchesAre
      <4>2. y \in Covering(a, w[i]) <=> Shows(ToSet(a), x, y)
        <5> HIDE DEF w
        <5> QED BY <1>1, <4>1, CoveringIs
      <4>3. y \in Covering(b, w[i]) <=> Shows(ToSet(b), x, y)
        <5> HIDE DEF w
        <5> QED BY <1>1, <4>1, CoveringIs
      <4> HIDE DEF w, n
      <4> QED BY <4>2, <4>3
    <3>3. \A r \in ToSet(a) \cup ToSet(b) : Within(x, r) => \E i \in 1 .. n : Within(x, w[i])
      BY <1>1, <3>1, StretchesAre
    <3>4. On(ToSet(a), x, t, y) <=> Shows(ToSet(a), x, y)
      BY LinedShows
    <3>5. On(ToSet(b), x, t, y) <=> Shows(ToSet(b), x, y)
      BY LinedShows
    <3> HIDE DEF mk, w, n
    <3> QED BY <3>2, <3>3, <3>4, <3>5 DEF Shows
  <2> HIDE DEF p, q, mk, w, n
  <2> QED BY <2>1, <2>3, <2>5, <2>6
<1> QED
  BY <1>3, <1>4, <1>5

LEMMA AndTagKeeps ==
  ASSUME NEW s \in Nat, NEW t \in Nat, NEW a, Lined(a, s), NEW b, Lined(b, t)
  PROVE  /\ Lined(AndTag(a, b, s), s)
         /\ \A x \in Rel, y \in Bit : On(ToSet(AndTag(a, b, s)), x, s, y)
                                      <=> (On(ToSet(a), x, s, y) /\ On(ToSet(b), x, t, y))
<1>1. a \in Seq(Proper) /\ b \in Seq(Proper)
  BY DEF Lined
<1> DEFINE w == Stretches(a, b)
           n == Len(w)
           mk == [i \in 1 .. n |-> Covering(a, w[i]) \cap Covering(b, w[i])]
           p == [i \in DOMAIN w |-> Tagged(Covering(a, w[i]) \cap Covering(b, w[i]), w[i].lo, w[i].hi, s)]
           q == [i \in DOMAIN w |-> Tagged(mk[i], w[i].lo, w[i].hi, s)]
<1>2. AndTag(a, b, s) = FoldLeft(PushCoalesced, <<>>, p)
  BY DEF AndTag
<1>3. p = q
  <2>1. DOMAIN w = 1 .. n
    BY <1>1, StretchesAre, Members
  <2> QED BY <2>1
<1>4. mk \in [1 .. n -> SUBSET Bit]
  <2>1. \A i \in 1 .. n : Covering(a, w[i]) \in SUBSET Bit /\ Covering(b, w[i]) \in SUBSET Bit
    <3> HIDE DEF w, n
    <3> QED BY <1>1, CoveringType
  <2> HIDE DEF w, n
  <2> QED BY <2>1
<1>5. /\ Lined(FoldLeft(PushCoalesced, <<>>, q), s)
      /\ \A x \in Rel, y \in Bit :
           On(ToSet(FoldLeft(PushCoalesced, <<>>, q)), x, s, y)
           <=> \E i \in 1 .. n : Within(x, w[i]) /\ y \in mk[i]
  <2> HIDE DEF mk
  <2>1. q = Stretched(a, b, mk, s)
    BY DEF Stretched
  <2>2. mk \in [1 .. Len(Stretches(a, b)) -> SUBSET Bit]
    BY <1>4
  <2> HIDE DEF q
  <2> QED BY <1>1, <2>1, <2>2, StretchFold
<1>6. ASSUME NEW x \in Rel, NEW y \in Bit
      PROVE  (\E i \in 1 .. n : Within(x, w[i]) /\ y \in mk[i])
             <=> (On(ToSet(a), x, s, y) /\ On(ToSet(b), x, t, y))
  <2>1. x \in Nat
    BY NullSetsAssumption DEF Rel
  <2>2. \A i \in 1 .. n : Within(x, w[i]) =>
          (y \in mk[i] <=> (Shows(ToSet(a), x, y) /\ Shows(ToSet(b), x, y)))
    <3> SUFFICES ASSUME NEW i \in 1 .. n, Within(x, w[i])
                 PROVE  y \in mk[i] <=> (Shows(ToSet(a), x, y) /\ Shows(ToSet(b), x, y))
      OBVIOUS
    <3>1. \A r \in ToSet(a) \cup ToSet(b) : Within(x, r) <=> (r.lo <= w[i].lo /\ w[i].hi <= r.hi)
      BY <1>1, <2>1, StretchesAre
    <3>2. y \in Covering(a, w[i]) <=> Shows(ToSet(a), x, y)
      <4> HIDE DEF w
      <4> QED BY <1>1, <3>1, CoveringIs
    <3>3. y \in Covering(b, w[i]) <=> Shows(ToSet(b), x, y)
      <4> HIDE DEF w
      <4> QED BY <1>1, <3>1, CoveringIs
    <3> HIDE DEF w, n
    <3> QED BY <3>2, <3>3
  <2>3. \A r \in ToSet(a) \cup ToSet(b) : Within(x, r) => \E i \in 1 .. n : Within(x, w[i])
    BY <1>1, <2>1, StretchesAre
  <2>4. On(ToSet(a), x, s, y) <=> Shows(ToSet(a), x, y)
    BY LinedShows
  <2>5. On(ToSet(b), x, t, y) <=> Shows(ToSet(b), x, y)
    BY LinedShows
  <2> HIDE DEF mk, w, n
  <2> QED BY <2>2, <2>3, <2>4, <2>5 DEF Shows
<1> HIDE DEF p, q, mk, w, n
<1> QED
  BY <1>2, <1>3, <1>5, <1>6

-----------------------------------------------------------------------------
(* The runs of several tags together, and the union of two normal          *)
(* sequences.                                                              *)
LEMMA FiniteRange ==
  ASSUME NEW T, IsFiniteSet(T), NEW f
  PROVE  IsFiniteSet({f[x] : x \in T})
<1> DEFINE g == [x \in T |-> f[x]]
           R == {f[x] : x \in T}
<1>1. g \in Surjection(T, R)
  BY DEF Surjection
<1> HIDE DEF g, R
<1>2. IsFiniteSet(R)
  BY <1>1, FS_Surjection
<1> QED
  BY <1>2 DEF R

Together(T, f) == UNION {ToSet(f[t]) : t \in T}

LEMMA TagUnion ==
  ASSUME NEW T \in SUBSET Nat, IsFiniteSet(T), NEW f, \A t \in T : Lined(f[t], t)
  PROVE  /\ Together(T, f) \in SUBSET Proper /\ IsFiniteSet(Together(T, f)) /\ Apart(Together(T, f))
         /\ \A x, t, y : On(Together(T, f), x, t, y) <=> (t \in T /\ On(ToSet(f[t]), x, t, y))
<1> DEFINE S == Together(T, f)
<1>0. S = UNION {ToSet(f[t]) : t \in T}
  BY DEF Together
<1> HIDE DEF S
<1>1. \A t \in T : /\ f[t] \in Seq(Proper) /\ ToSet(f[t]) \subseteq Proper /\ Apart(ToSet(f[t]))
                   /\ IsFiniteSet(ToSet(f[t])) /\ \A r \in ToSet(f[t]) : r.tag = t
  <2> TAKE t \in T
  <2>1. Normal(f[t]) /\ f[t] \in Seq(Proper) /\ \A r \in ToSet(f[t]) : r.tag = t
    BY LinedNormal
  <2> QED BY <2>1, NormalFacts
<1>2. S \in SUBSET Proper
  BY <1>0, <1>1
<1>3. IsFiniteSet(S)
  <2> DEFINE g == [t \in T |-> ToSet(f[t])]
             R == {g[t] : t \in T}
  <2>1. S = UNION R
    BY <1>0
  <2>2. \A Q \in R : IsFiniteSet(Q)
    BY <1>1
  <2>3. IsFiniteSet(R)
    <3> HIDE DEF g
    <3> QED BY FiniteRange
  <2> HIDE DEF R
  <2>4. IsFiniteSet(UNION R)
    BY <2>2, <2>3, FS_UNION
  <2> QED BY <2>1, <2>4
<1>4. \A r \in S : r.tag \in T /\ r \in ToSet(f[r.tag])
  BY <1>0, <1>1
<1>5. Apart(S)
  <2> SUFFICES ASSUME NEW r \in S, NEW q \in S, r.tag = q.tag, r # q PROVE Clear(r, q) \/ Clear(q, r)
    BY DEF Apart
  <2>1. r.tag \in T /\ r \in ToSet(f[r.tag]) /\ q \in ToSet(f[r.tag])
    BY <1>4
  <2> QED BY <1>1, <2>1 DEF Apart
<1>6. ASSUME NEW x, NEW t, NEW y
      PROVE  On(S, x, t, y) <=> (t \in T /\ On(ToSet(f[t]), x, t, y))
  <2>1. \A t1 \in T : \A r \in ToSet(f[t1]) : r \in S
    BY <1>0
  <2> QED BY <1>4, <2>1 DEF On, Covers
<1> QED
  BY <1>2, <1>3, <1>5, <1>6 DEF S

LEMMA TagsFinite ==
  ASSUME NEW s \in Seq(Proper)
  PROVE  /\ TagsOf(s) \in SUBSET Nat /\ IsFiniteSet(TagsOf(s))
         /\ TagsOf(s) = {r.tag : r \in ToSet(s)}
<1>1. DOMAIN s = 1 .. Len(s) /\ Len(s) \in Nat /\ \A i \in 1 .. Len(s) : s[i] \in Proper
  BY Members
<1>2. TagsOf(s) = {s[i].tag : i \in 1 .. Len(s)}
  BY <1>1 DEF TagsOf
<1>3. \A i \in 1 .. Len(s) : s[i].tag \in Nat
  BY <1>1, ProperRun
<1>4. IsFiniteSet(TagsOf(s))
  <2> DEFINE f == [i \in 1 .. Len(s) |-> s[i].tag]
  <2>1. IsFiniteSet(1 .. Len(s))
    BY <1>1, FS_Interval
  <2>2. TagsOf(s) = {f[i] : i \in 1 .. Len(s)}
    BY <1>2
  <2> HIDE DEF f
  <2> QED BY <2>1, <2>2, FiniteRange
<1>5. TagsOf(s) = {r.tag : r \in ToSet(s)}
  <2>1. /\ \A i \in 1 .. Len(s) : s[i] \in ToSet(s)
        /\ \A x \in ToSet(s) : \E i \in 1 .. Len(s) : x = s[i]
    BY Members
  <2> QED BY <1>2, <2>1
<1> QED
  BY <1>2, <1>3, <1>4, <1>5

LEMMA WithTagOn ==
  ASSUME NEW s, Normal(s), NEW x, NEW t, NEW y
  PROVE  /\ On(ToSet(WithTag(s, t)), x, t, y) <=> On(ToSet(s), x, t, y)
         /\ On(ToSet(s), x, t, y) => t \in TagsOf(s)
<1>1. ToSet(WithTag(s, t)) = {r \in ToSet(s) : r.tag = t}
  BY WithTagLined
<1>2. TagsOf(s) = {r.tag : r \in ToSet(s)}
  BY NormalFacts, TagsFinite
<1> QED
  BY <1>1, <1>2 DEF On, Covers

LEMMA OrRunsKeeps ==
  ASSUME NEW a, Normal(a), NEW b, Normal(b)
  PROVE  /\ Normal(OrRuns(a, b)) /\ OrRuns(a, b) \in Seq(Proper)
         /\ \A x \in Rel, t \in Nat, y \in Bit :
              On(ToSet(OrRuns(a, b)), x, t, y) <=> (On(ToSet(a), x, t, y) \/ On(ToSet(b), x, t, y))
<1> DEFINE T == TagsOf(a) \cup TagsOf(b)
           f == [t \in T |-> OrTag(WithTag(a, t), WithTag(b, t), t)]
           S == UNION {ToSet(f[t]) : t \in T}
<1>1. T \in SUBSET Nat /\ IsFiniteSet(T)
  BY NormalFacts, TagsFinite, FS_Union
<1>2. OrRuns(a, b) = SortRuns(S)
  BY DEF OrRuns
<1>3. \A t \in T : /\ Lined(f[t], t)
                   /\ \A x \in Rel, y \in Bit :
                        On(ToSet(f[t]), x, t, y) <=> (On(ToSet(a), x, t, y) \/ On(ToSet(b), x, t, y))
  <2> TAKE t \in T
  <2>1. f[t] = OrTag(WithTag(a, t), WithTag(b, t), t)
    OBVIOUS
  <2>2. t \in Nat
    BY <1>1
  <2>3. Lined(WithTag(a, t), t) /\ Lined(WithTag(b, t), t)
    BY WithTagLined
  <2> HIDE DEF f
  <2> QED BY <2>1, <2>2, <2>3, OrTagKeeps, WithTagOn
<1> HIDE DEF f
<1>4. /\ S \in SUBSET Proper /\ IsFiniteSet(S) /\ Apart(S)
      /\ \A x, t, y : On(S, x, t, y) <=> (t \in T /\ On(ToSet(f[t]), x, t, y))
  <2> HIDE DEF S, T
  <2>1. S = Together(T, f)
    BY DEF S, Together
  <2> QED BY <1>1, <1>3, <2>1, TagUnion
<1> HIDE DEF S
<1>5. Normal(SortRuns(S)) /\ ToSet(SortRuns(S)) = S /\ SortRuns(S) \in Seq(Proper)
  BY <1>4, SortNormal
<1>6. \A x \in Rel, t \in Nat, y \in Bit :
        On(S, x, t, y) <=> (On(ToSet(a), x, t, y) \/ On(ToSet(b), x, t, y))
  <2>1. \A x, t, y : (On(ToSet(a), x, t, y) \/ On(ToSet(b), x, t, y)) => t \in T
    BY WithTagOn
  <2> HIDE DEF T
  <2> QED BY <1>3, <1>4, <2>1
<1> QED
  BY <1>2, <1>5, <1>6

-----------------------------------------------------------------------------
(* The union of a set of normal sequences, and the intersection of two.    *)
Normals == {s \in Seq(Proper) : Normal(s)}

LEMMA EmptyNormal ==
  /\ <<>> \in Normals /\ <<>> \in Seq(Proper) /\ Normal(<<>>)
  /\ ToSet(<<>>) = {} /\ \A x, t, y : ~ On(ToSet(<<>>), x, t, y)
<1>1. <<>> \in Seq(Proper) /\ Len(<<>>) = 0
  BY EmptySeq
<1>2. ToSet(<<>>) = {}
  BY <1>1, Members
<1>3. Normal(<<>>)
  BY <1>1, <1>2 DEF Normal, Sorted, Apart
<1> QED
  BY <1>1, <1>2, <1>3 DEF Normals, On

LEMMA OrFold ==
  ASSUME NEW S \in SUBSET Normals, IsFiniteSet(S)
  PROVE  /\ FoldSet(OrRuns, <<>>, S) \in Normals
         /\ \A x \in Rel, t \in Nat, y \in Bit :
              On(ToSet(FoldSet(OrRuns, <<>>, S)), x, t, y) <=> \E q \in S : On(ToSet(q), x, t, y)
<1> DEFINE choice(T) == CHOOSE q \in T : TRUE
           pick == [T \in SUBSET S |-> choice(T)]
           step == [p \in S \X Normals |-> OrRuns(p[1], p[2])]
           Eq(g) == [T \in SUBSET S |-> IF T = {} THEN <<>>
                                        ELSE OrRuns(choice(T), g[T \ {choice(T)}])]
           iter == CHOOSE g : g = Eq(g)
<1>1. \A T \in SUBSET S : T # {} => choice(T) \in T /\ pick[T] = choice(T) /\ pick[T] \in T
  OBVIOUS
<1>2. \A q \in Normals, v \in Normals : OrRuns(q, v) \in Normals
  BY OrRunsKeeps DEF Normals
<1>3. step \in [S \X Normals -> Normals]
  BY <1>2
<1> HIDE DEF choice, pick
<1>4. PICK g \in [SUBSET S -> Normals] : g = Folding(S, <<>>, pick, step, g)
  <2>1. FoldDefined(S, Normals, <<>>, pick, step)
    <3> HIDE DEF step
    <3>1. <<>> \in Normals
      BY EmptyNormal
    <3> QED BY <1>1, <1>3, <3>1, FoldExists
  <2> QED BY <2>1 DEF FoldDefined
<1>5. Folding(S, <<>>, pick, step, g) = Eq(g)
  <2> SUFFICES ASSUME NEW T \in SUBSET S, T # {}
               PROVE  step[<<pick[T], g[T \ {pick[T]}]>>] = OrRuns(choice(T), g[T \ {choice(T)}])
    BY DEF Folding
  <2>1. pick[T] = choice(T) /\ pick[T] \in S /\ T \ {pick[T]} \in SUBSET S
    BY <1>1
  <2>2. g[T \ {pick[T]}] \in Normals
    BY <2>1
  <2> QED BY <2>1, <2>2
<1>6. iter = Eq(iter)
  <2>1. g = Eq(g)
    BY <1>4, <1>5
  <2> HIDE DEF Eq
  <2> QED BY <2>1
<1>7. FoldSet(OrRuns, <<>>, S) = iter[S]
  BY DEF FoldSet, MapThenFoldSet, choice
<1> HIDE DEF iter
<1>8. \A T \in SUBSET S : iter[T] = IF T = {} THEN <<>> ELSE OrRuns(choice(T), iter[T \ {choice(T)}])
  BY <1>6
<1> DEFINE Fine(T) == /\ iter[T] \in Normals
                      /\ \A x \in Rel, t \in Nat, y \in Bit :
                           On(ToSet(iter[T]), x, t, y) <=> \E q \in T : On(ToSet(q), x, t, y)
           Good == {T \in SUBSET S : Fine(T)}
<1>9. {} \in Good
  <2>1. iter[{}] = <<>>
    BY <1>8
  <2> QED BY <2>1, EmptyNormal
<1>10. ASSUME NEW T \in SUBSET S, T # {}, T \ {pick[T]} \in Good
       PROVE  T \in Good
  <2> DEFINE q == pick[T]
             v == iter[T \ {q}]
  <2>1. q \in T /\ q = choice(T)
    BY <1>1, <1>10
  <2>2. iter[T] = OrRuns(q, v)
    BY <1>8, <1>10, <2>1
  <2>3. Normal(q) /\ v \in Normals /\ Normal(v)
    <3>1. q \in Normals
      BY <2>1
    <3> QED BY <1>10, <3>1 DEF Normals
  <2>4. \A x \in Rel, t \in Nat, y \in Bit :
          On(ToSet(v), x, t, y) <=> \E r \in T \ {q} : On(ToSet(r), x, t, y)
    BY <1>10
  <2> HIDE DEF q, v
  <2>5. OrRuns(q, v) \in Normals
    BY <2>3, OrRunsKeeps DEF Normals
  <2>6. \A x \in Rel, t \in Nat, y \in Bit :
          On(ToSet(OrRuns(q, v)), x, t, y) <=> (On(ToSet(q), x, t, y) \/ On(ToSet(v), x, t, y))
    BY <2>3, OrRunsKeeps
  <2>7. \A x \in Rel, t \in Nat, y \in Bit :
          On(ToSet(iter[T]), x, t, y) <=> \E r \in T : On(ToSet(r), x, t, y)
    BY <2>1, <2>2, <2>4, <2>6
  <2> QED BY <2>2, <2>5, <2>7
<1>11. S \in Good
  <2>1. \A T \in SUBSET S : T # {} => pick[T] \in T
    BY <1>1
  <2>2. \A T \in SUBSET S : T # {} /\ T \ {pick[T]} \in Good => T \in Good
    BY <1>10
  <2> HIDE DEF Good
  <2> QED BY <1>9, <2>1, <2>2, FoldInduction
<1> QED
  BY <1>7, <1>11

Retag(s, u) == [i \in DOMAIN s |-> [s[i] EXCEPT !.tag = u]]

LEMMA RetagKeeps ==
  ASSUME NEW s \in Nat, NEW u \in Nat, NEW r, Lined(r, s)
  PROVE  /\ Lined(Retag(r, u), u)
         /\ \A x, y : On(ToSet(Retag(r, u)), x, u, y) <=> On(ToSet(r), x, s, y)
<1> DEFINE q == Retag(r, u)
           n == Len(r)
<1>1. r \in Seq(Proper) /\ n \in Nat /\ DOMAIN r = 1 .. n /\ \A i \in 1 .. n : r[i] \in Proper /\ r[i].tag = s
  BY Members DEF Lined
<1>2. \A i \in 1 .. n : q[i] = [r[i] EXCEPT !.tag = u]
  BY <1>1 DEF Retag
<1>3. \A i \in 1 .. n : /\ q[i] \in Proper /\ q[i].tag = u /\ q[i].mask = r[i].mask
                        /\ q[i].lo = r[i].lo /\ q[i].hi = r[i].hi
  BY <1>1, <1>2 DEF Proper
<1>4. q = [i \in 1 .. n |-> q[i]]
  BY <1>1 DEF Retag
<1> HIDE DEF q, n
<1>5. q \in Seq(Proper) /\ Len(q) = n
  <2>1. q \in [1 .. n -> Proper]
    BY <1>3, <1>4
  <2> QED BY <1>1, <2>1
<1>6. \A i, j \in 1 .. n : i < j => Clear(q[i], q[j])
  BY <1>3 DEF Lined, Clear, n
<1>7. ASSUME NEW x, NEW y PROVE On(ToSet(q), x, u, y) <=> On(ToSet(r), x, s, y)
  <2>1. On(ToSet(q), x, u, y) <=> \E i \in 1 .. n : Covers(q[i], x, u, y)
    BY <1>5, OnPlaces
  <2>2. On(ToSet(r), x, s, y) <=> \E i \in 1 .. n : Covers(r[i], x, s, y)
    BY <1>1, OnPlaces DEF n
  <2>3. \A i \in 1 .. n : Covers(q[i], x, u, y) <=> Covers(r[i], x, s, y)
    BY <1>1, <1>3 DEF Covers
  <2> QED BY <2>1, <2>2, <2>3
<1> QED
  BY <1>3, <1>5, <1>6, <1>7 DEF Lined, q

LEMMA AndRunsKeeps ==
  ASSUME NEW a, Normal(a), NEW b, Normal(b)
  PROVE  /\ Normal(AndRuns(a, b)) /\ AndRuns(a, b) \in Seq(Proper)
         /\ \A x \in Rel, u \in Nat, y \in Bit :
              On(ToSet(AndRuns(a, b)), x, u, y) <=>
                \E s \in TagsOf(a), t \in TagsOf(b) :
                  u \in {s, t} /\ On(ToSet(a), x, s, y) /\ On(ToSet(b), x, t, y)
<1> DEFINE A == TagsOf(a)
           B == TagsOf(b)
           meet(s, t) == AndTag(WithTag(a, s), WithTag(b, t), s)
           both == {[runs |-> meet(s, t), tags |-> {s, t}] : s \in A, t \in B}
           under(p, t) == [i \in DOMAIN p.runs |-> [p.runs[i] EXCEPT !.tag = t]]
           S == UNION {{under(p, t) : t \in p.tags} : p \in both}
<1>1. AndRuns(a, b) = FoldSet(OrRuns, <<>>, S)
  BY DEF AndRuns
<1>2. \A s, t, u : under([runs |-> meet(s, t), tags |-> {s, t}], u) = Retag(meet(s, t), u)
  BY DEF Retag
<1>3. A \in SUBSET Nat /\ IsFiniteSet(A) /\ B \in SUBSET Nat /\ IsFiniteSet(B)
  BY NormalFacts, TagsFinite
<1>4. ASSUME NEW q
      PROVE  q \in S <=> \E s \in A, t \in B : \E u \in {s, t} : q = Retag(meet(s, t), u)
  <2>1. q \in S <=> \E p \in both : \E u \in p.tags : q = under(p, u)
    <3> HIDE DEF both, under
    <3> QED OBVIOUS
  <2>2. \A p : p \in both <=> \E s \in A, t \in B : p = [runs |-> meet(s, t), tags |-> {s, t}]
    <3> HIDE DEF meet, A, B
    <3> QED OBVIOUS
  <2> HIDE DEF both, under, meet, A, B, S
  <2>3. ASSUME q \in S
        PROVE  \E s \in A, t \in B : \E u \in {s, t} : q = Retag(meet(s, t), u)
    <3>1. PICK p \in both : \E u \in p.tags : q = under(p, u)
      BY <2>1, <2>3
    <3>2. PICK u \in p.tags : q = under(p, u)
      BY <3>1
    <3>3. PICK s \in A, t \in B : p = [runs |-> meet(s, t), tags |-> {s, t}]
      BY <2>2
    <3>4. u \in {s, t} /\ q = Retag(meet(s, t), u)
      BY <1>2, <3>2, <3>3
    <3> QED BY <3>4
  <2>4. ASSUME NEW s \in A, NEW t \in B, NEW u \in {s, t}, q = Retag(meet(s, t), u)
        PROVE  q \in S
    <3> DEFINE p == [runs |-> meet(s, t), tags |-> {s, t}]
    <3>1. p \in both /\ u \in p.tags /\ q = under(p, u)
      BY <1>2, <2>2, <2>4
    <3> HIDE DEF p
    <3> QED BY <2>1, <3>1
  <2> QED BY <2>3, <2>4
<1>5. \A s \in A, t \in B :
        /\ Lined(meet(s, t), s)
        /\ \A x \in Rel, y \in Bit : On(ToSet(meet(s, t)), x, s, y)
                                     <=> (On(ToSet(a), x, s, y) /\ On(ToSet(b), x, t, y))
  <2> TAKE s \in A, t \in B
  <2>1. s \in Nat /\ t \in Nat
    BY <1>3
  <2>2. Lined(WithTag(a, s), s) /\ Lined(WithTag(b, t), t)
    BY WithTagLined
  <2> QED BY <2>1, <2>2, AndTagKeeps, WithTagOn
<1> HIDE DEF meet, A, B, S
<1>6. \A s \in A, t \in B : \A u \in {s, t} :
        /\ Retag(meet(s, t), u) \in Normals
        /\ Lined(Retag(meet(s, t), u), u)
        /\ \A x \in Rel, y \in Bit : On(ToSet(Retag(meet(s, t), u)), x, u, y)
                                     <=> (On(ToSet(a), x, s, y) /\ On(ToSet(b), x, t, y))
  <2> TAKE s \in A, t \in B
  <2> TAKE u \in {s, t}
  <2>1. s \in Nat /\ t \in Nat /\ u \in Nat /\ Lined(meet(s, t), s)
    BY <1>3, <1>5
  <2>2. /\ Lined(Retag(meet(s, t), u), u)
        /\ \A x, y : On(ToSet(Retag(meet(s, t), u)), x, u, y) <=> On(ToSet(meet(s, t)), x, s, y)
    BY <2>1, RetagKeeps
  <2>3. Retag(meet(s, t), u) \in Normals
    BY <2>2, LinedNormal DEF Normals
  <2> QED BY <1>5, <2>2, <2>3
<1>7. S \in SUBSET Normals
  BY <1>4, <1>6
<1>8. IsFiniteSet(S)
  <2> DEFINE f == [z \in A \X B |-> Retag(meet(z[1], z[2]), z[1])]
             g == [z \in A \X B |-> Retag(meet(z[1], z[2]), z[2])]
             F == {f[z] : z \in A \X B}
             G == {g[z] : z \in A \X B}
  <2>1. IsFiniteSet(A \X B)
    BY <1>3, FS_Product
  <2>2. IsFiniteSet(F) /\ IsFiniteSet(G)
    <3> HIDE DEF f, g
    <3> QED BY <2>1, FiniteRange
  <2>3. S \subseteq F \cup G
    <3> SUFFICES ASSUME NEW q \in S PROVE q \in F \cup G
      OBVIOUS
    <3>1. PICK s \in A, t \in B : \E u \in {s, t} : q = Retag(meet(s, t), u)
      BY <1>4
    <3>2. <<s, t>> \in A \X B
      OBVIOUS
    <3>3. f[<<s, t>>] \in F /\ g[<<s, t>>] \in G
      BY <3>2
    <3>4. q = f[<<s, t>>] \/ q = g[<<s, t>>]
      BY <3>1, <3>2
    <3> QED BY <3>3, <3>4
  <2> HIDE DEF F, G
  <2>4. IsFiniteSet(F \cup G)
    BY <2>2, FS_Union
  <2> QED BY <2>3, <2>4, FS_Subset
<1>9. /\ FoldSet(OrRuns, <<>>, S) \in Normals
      /\ \A x \in Rel, t \in Nat, y \in Bit :
           On(ToSet(FoldSet(OrRuns, <<>>, S)), x, t, y) <=> \E q \in S : On(ToSet(q), x, t, y)
  BY <1>7, <1>8, OrFold
<1>10. ASSUME NEW x \in Rel, NEW u \in Nat, NEW y \in Bit
       PROVE  (\E q \in S : On(ToSet(q), x, u, y)) <=>
                \E s \in A, t \in B : u \in {s, t} /\ On(ToSet(a), x, s, y) /\ On(ToSet(b), x, t, y)
  <2>1. ASSUME NEW q \in S, On(ToSet(q), x, u, y)
        PROVE  \E s \in A, t \in B : u \in {s, t} /\ On(ToSet(a), x, s, y) /\ On(ToSet(b), x, t, y)
    <3>1. PICK s \in A, t \in B : \E v \in {s, t} : q = Retag(meet(s, t), v)
      BY <1>4
    <3>2. PICK v \in {s, t} : q = Retag(meet(s, t), v)
      BY <3>1
    <3>3. Lined(q, v)
      BY <1>6, <3>2
    <3>4. u = v
      <4>1. \A r \in ToSet(q) : r.tag = v
        BY <3>3, LinedNormal
      <4> QED BY <2>1, <4>1 DEF On, Covers
    <3>5. On(ToSet(a), x, s, y) /\ On(ToSet(b), x, t, y)
      BY <1>6, <2>1, <3>2, <3>4
    <3> QED BY <3>2, <3>4, <3>5
  <2>2. ASSUME NEW s \in A, NEW t \in B, u \in {s, t}, On(ToSet(a), x, s, y), On(ToSet(b), x, t, y)
        PROVE  \E q \in S : On(ToSet(q), x, u, y)
    <3>1. Retag(meet(s, t), u) \in S
      BY <1>4, <2>2
    <3>2. On(ToSet(Retag(meet(s, t), u)), x, u, y)
      BY <1>6, <2>2
    <3> QED BY <3>1, <3>2
  <2> QED BY <2>1, <2>2
<1> QED
  BY <1>1, <1>9, <1>10 DEF Normals, A, B

-----------------------------------------------------------------------------
(* The runs of a normal sequence with other masks, coalesced.              *)
Remasked(a, mk) == {[r EXCEPT !.mask = mk[r]] : r \in ToSet(a)}

LEMMA CanonicalKeeps ==
  ASSUME NEW a, Normal(a), NEW mk \in [ToSet(a) -> SUBSET Bit]
  PROVE  /\ Normal(Canonical(Remasked(a, mk))) /\ Canonical(Remasked(a, mk)) \in Seq(Proper)
         /\ \A x \in Rel, t \in Nat, y \in Bit :
              On(ToSet(Canonical(Remasked(a, mk))), x, t, y)
              <=> \E r \in ToSet(a) : r.tag = t /\ Within(x, r) /\ y \in mk[r]
<1> DEFINE A == ToSet(a)
           new(r) == [r EXCEPT !.mask = mk[r]]
           S == Remasked(a, mk)
           T == {r.tag : r \in S}
           of(t) == {r \in S : r.tag = t}
           f == [t \in T |-> FoldLeft(PushCoalesced, <<>>, SortRuns(of(t)))]
<1>1. A \subseteq Proper /\ IsFiniteSet(A) /\ Apart(A)
  BY NormalFacts
<1>2. \A r \in A : /\ new(r) \in Piece /\ new(r).mask = mk[r] /\ new(r).lo = r.lo /\ new(r).hi = r.hi
                   /\ new(r).tag = r.tag /\ r.lo <= r.hi /\ r.lo \in Nat /\ r.hi \in Nat /\ r.tag \in Nat
  <2> TAKE r \in A
  <2>1. r \in Proper /\ r.lo <= r.hi /\ r.lo \in Nat /\ r.hi \in Nat /\ r.tag \in Nat
    BY <1>1, ProperRun
  <2> QED BY <2>1 DEF Proper, Piece
<1>3. S = {new(r) : r \in A}
  BY DEF Remasked
<1>4. IsFiniteSet(S)
  <2> DEFINE g == [r \in A |-> new(r)]
  <2>1. S = {g[r] : r \in A}
    BY <1>3
  <2> HIDE DEF g, A
  <2> QED BY <1>1, <2>1, FiniteRange
<1> HIDE DEF new, S, A
<1>5. S \in SUBSET Piece /\ \A q \in S : \E r \in A : q = new(r)
  BY <1>2, <1>3
<1>6. ASSUME NEW q \in S, NEW p \in S, q.tag = p.tag
      PROVE  q # p => (q.hi < p.lo \/ p.hi < q.lo)
  <2>1. PICK r \in A : q = new(r)
    BY <1>5
  <2>2. PICK s \in A : p = new(s)
    BY <1>5
  <2>3. CASE r = s
    BY <2>1, <2>2, <2>3
  <2>4. CASE r # s
    BY <1>1, <1>2, <2>1, <2>2, <2>4, <1>6 DEF Apart, Clear
  <2> QED BY <2>3, <2>4
<1>7. \A q \in S : q.lo \in Nat /\ q.hi \in Nat /\ q.lo <= q.hi /\ q.tag \in Nat
  BY <1>2, <1>5
<1>8. ASSUME NEW t \in T
      PROVE  /\ Lined(FoldLeft(PushCoalesced, <<>>, SortRuns(of(t))), t)
             /\ \A x \in Rel, y \in Bit : On(ToSet(FoldLeft(PushCoalesced, <<>>, SortRuns(of(t)))), x, t, y)
                                          <=> On(of(t), x, t, y)
  <2> DEFINE p == SortRuns(of(t))
             n == Len(p)
  <2>1. of(t) \in SUBSET Piece /\ of(t) \subseteq S /\ \A q \in of(t) : q.tag = t
    BY <1>5
  <2>2. IsFiniteSet(of(t))
    <3> HIDE DEF of
    <3> QED BY <1>4, <2>1, FS_Subset
  <2>3. Keyed(of(t))
    <3> SUFFICES ASSUME NEW q \in of(t), NEW r \in of(t), q.lo = r.lo, q # r PROVE FALSE
      BY DEF Keyed
    <3>1. q.hi < r.lo \/ r.hi < q.lo
      BY <1>6, <2>1
    <3> QED BY <1>7, <2>1, <3>1
  <2> HIDE DEF of
  <2>4. /\ p \in Seq(of(t)) /\ ToSet(p) = of(t)
        /\ \A i, j \in 1 .. n : i < j => Before(p[i], p[j])
    BY <2>1, <2>2, <2>3, SortOfPieces
  <2> HIDE DEF p
  <2>5. \A i \in 1 .. n : p[i] \in of(t) /\ p[i] \in S /\ p[i].tag = t
    BY <2>1, <2>4, Members
  <2>6. p \in Seq(Piece)
    BY <2>1, <2>4
  <2>7. \A i, j \in 1 .. n : i < j => p[i].hi < p[j].lo
    <3> SUFFICES ASSUME NEW i \in 1 .. n, NEW j \in 1 .. n, i < j PROVE p[i].hi < p[j].lo
      OBVIOUS
    <3>1. p[i] \in S /\ p[j] \in S /\ p[i].tag = t /\ p[j].tag = t
      BY <2>5
    <3>2. p[i].lo < p[j].lo
      <4>1. p[i].tag \in Nat /\ p[i].lo \in Nat /\ p[j].lo \in Nat
        BY <1>7, <3>1
      <4> QED BY <2>4, <3>1, <4>1 DEF Before
    <3>3. /\ p[i].lo \in Nat /\ p[j].lo \in Nat /\ p[i].hi \in Nat /\ p[j].hi \in Nat
          /\ p[i].lo <= p[i].hi /\ p[j].lo <= p[j].hi
      BY <1>7, <3>1
    <3>4. p[i] # p[j]
      BY <3>2, <3>3
    <3>5. p[i].hi < p[j].lo \/ p[j].hi < p[i].lo
      BY <1>6, <3>1, <3>4
    <3> QED BY <3>2, <3>3, <3>5
  <2>8. Pieces(p, t)
    BY <1>7, <2>5, <2>6, <2>7 DEF Pieces
  <2>9. /\ Lined(FoldLeft(PushCoalesced, <<>>, p), t)
        /\ \A x \in Rel, y \in Bit : On(ToSet(FoldLeft(PushCoalesced, <<>>, p)), x, t, y) <=> On(ToSet(p), x, t, y)
    BY <2>8, CoalesceLined
  <2> QED BY <2>4, <2>9 DEF p
<1>9. Canonical(S) = SortRuns(Together(T, f))
  <2> DEFINE fold(t) == FoldLeft(PushCoalesced, <<>>, SortRuns({r \in S : r.tag = t}))
  <2>1. Canonical(S) = SortRuns(UNION {ToSet(fold(t)) : t \in {r.tag : r \in S}})
    BY DEF Canonical
  <2>2. f = [t \in T |-> fold(t)]
    OBVIOUS
  <2> HIDE DEF fold
  <2>3. \A t \in T : f[t] = fold(t)
    BY <2>2
  <2> HIDE DEF f
  <2>4. Together(T, f) = UNION {ToSet(fold(t)) : t \in T}
    BY <2>3 DEF Together
  <2> QED BY <2>1, <2>4
<1>10. T \in SUBSET Nat /\ IsFiniteSet(T)
  <2>1. T \in SUBSET Nat
    BY <1>7
  <2>2. IsFiniteSet(T)
    <3> DEFINE g == [q \in S |-> q.tag]
    <3>1. T = {g[q] : q \in S}
      OBVIOUS
    <3> HIDE DEF g, T
    <3> QED BY <1>4, <3>1, FiniteRange
  <2> QED BY <2>1, <2>2
<1>11. \A t \in T : /\ Lined(f[t], t)
                    /\ \A x \in Rel, y \in Bit : On(ToSet(f[t]), x, t, y) <=> On(of(t), x, t, y)
  <2> TAKE t \in T
  <2>1. f[t] = FoldLeft(PushCoalesced, <<>>, SortRuns(of(t)))
    OBVIOUS
  <2> HIDE DEF f, of
  <2> QED BY <1>8, <2>1
<1> HIDE DEF f
<1>12. ASSUME NEW x \in Rel, NEW t \in Nat, NEW y \in Bit
       PROVE  (t \in T /\ On(of(t), x, t, y))
              <=> \E r \in A : r.tag = t /\ Within(x, r) /\ y \in mk[r]
  <2>1. (t \in T /\ On(of(t), x, t, y)) <=> \E q \in S : Covers(q, x, t, y)
    BY DEF On, Covers
  <2>2. (\E q \in S : Covers(q, x, t, y)) <=> \E r \in A : Covers(new(r), x, t, y)
    BY <1>3
  <2>3. \A r \in A : Covers(new(r), x, t, y) <=> (r.tag = t /\ Within(x, r) /\ y \in mk[r])
    BY <1>2 DEF Covers, Within
  <2> QED BY <2>1, <2>2, <2>3
<1> HIDE DEF T, of
<1> DEFINE U == Together(T, f)
<1>13. /\ U \in SUBSET Proper /\ IsFiniteSet(U) /\ Apart(U)
       /\ \A x, t, y : On(U, x, t, y) <=> (t \in T /\ On(ToSet(f[t]), x, t, y))
  BY <1>10, <1>11, TagUnion
<1> HIDE DEF U
<1>14. Normal(SortRuns(U)) /\ ToSet(SortRuns(U)) = U /\ SortRuns(U) \in Seq(Proper)
  BY <1>13, SortNormal
<1>15. \A x \in Rel, t \in Nat, y \in Bit :
         On(U, x, t, y) <=> \E r \in A : r.tag = t /\ Within(x, r) /\ y \in mk[r]
  BY <1>11, <1>12, <1>13
<1>16. Canonical(S) = SortRuns(U)
  BY <1>9 DEF U
<1> QED
  BY <1>14, <1>15, <1>16 DEF S, A

-----------------------------------------------------------------------------
(* What the operations on runs mean.                                       *)
Places == Rel \X Nat \X Bit

LEMMA MeanPlaces ==
  ASSUME NEW a, Normal(a)
  PROVE  /\ RunsMean(a) \in SUBSET Places
         /\ \A x \in RunsMean(a) : \E w \in Rel, t \in Nat, b \in Bit :
              x = <<w, t, b>> /\ On(ToSet(a), w, t, b)
         /\ \A w \in Rel, t \in Nat, b \in Bit : <<w, t, b>> \in RunsMean(a) <=> On(ToSet(a), w, t, b)
<1>1. a \in Seq(Proper)
  BY NormalFacts
<1>2. RunsMean(a) \subseteq Rel \X Nat \X Bit
  BY <1>1, MeanIs
<1>3. \A w \in Rel, t \in Nat, b \in Bit : <<w, t, b>> \in RunsMean(a) <=> On(ToSet(a), w, t, b)
  BY <1>1, MeanIs
<1>4. \A x \in Rel \X Nat \X Bit : \E w \in Rel, t \in Nat, b \in Bit : x = <<w, t, b>>
  OBVIOUS
<1> QED
  BY <1>2, <1>3, <1>4 DEF Places

(* The runs of a set are not none when it means something, and the places  *)
(* of a run are places of the set.                                         *)
LEMMA RunPlaces ==
  ASSUME NEW a, Normal(a), NEW r \in ToSet(a), NEW w \in Rel, Within(w, r)
  PROVE  /\ \A b \in Bit : <<w, r.tag, b>> \in RunsMean(a) <=> b \in r.mask
         /\ r.tag \in Nat /\ r.mask \subseteq Bit /\ r.mask # {}
<1>1. r \in Proper /\ Apart(ToSet(a)) /\ ToSet(a) \subseteq Proper
  BY NormalFacts
<1>2. r.tag \in Nat /\ r.mask \subseteq Bit /\ r.mask # {}
  BY <1>1, ProperRun
<1>3. ASSUME NEW b \in Bit, On(ToSet(a), w, r.tag, b) PROVE b \in r.mask
  <2>1. PICK q \in ToSet(a) : Covers(q, w, r.tag, b)
    BY <1>3 DEF On
  <2>2. q = r
    <3> SUFFICES ASSUME q # r PROVE FALSE
      OBVIOUS
    <3>1. Clear(q, r) \/ Clear(r, q)
      BY <1>1, <2>1 DEF Apart, Covers
    <3>2. w \in Nat /\ q \in Proper
      BY <1>1, NullSetsAssumption DEF Rel
    <3>3. q.lo \in Nat /\ q.hi \in Nat /\ r.lo \in Nat /\ r.hi \in Nat
      BY <1>1, <3>2, ProperRun
    <3>4. q.lo <= w /\ w <= q.hi /\ r.lo <= w /\ w <= r.hi
      BY <2>1 DEF Covers, Within
    <3>5. q.hi < r.lo \/ r.hi < q.lo
      BY <3>1 DEF Clear
    <3> QED BY <3>2, <3>3, <3>4, <3>5
  <2> QED BY <2>1, <2>2 DEF Covers
<1>4. ASSUME NEW b \in r.mask PROVE On(ToSet(a), w, r.tag, b)
  BY DEF On, Covers, Within
<1>5. \A b \in Bit : <<w, r.tag, b>> \in RunsMean(a) <=> On(ToSet(a), w, r.tag, b)
  BY <1>2, MeanPlaces
<1> QED
  BY <1>2, <1>3, <1>4, <1>5

LEMMA EmptyMean ==
  ASSUME NEW a, Normal(a)
  PROVE  RunsMean(a) = {} <=> a = <<>>
<1>1. a \in Seq(Proper) /\ (a = <<>> <=> ToSet(a) = {})
  BY NormalFacts, Members
<1>2. ASSUME ToSet(a) # {} PROVE RunsMean(a) # {}
  <2>1. PICK r \in ToSet(a) : TRUE
    BY <1>2
  <2>2. r \in Proper
    BY NormalFacts
  <2>3. r.lo \in Rel /\ Within(r.lo, r)
    BY <2>2, ProperRun DEF Within
  <2>4. PICK b \in r.mask : TRUE
    BY <2>3, RunPlaces
  <2>5. b \in Bit
    BY <2>3, RunPlaces
  <2>6. <<r.lo, r.tag, b>> \in RunsMean(a)
    BY <2>3, <2>5, RunPlaces
  <2> QED BY <2>6
<1>3. ASSUME ToSet(a) = {} PROVE RunsMean(a) = {}
  BY <1>3 DEF RunsMean
<1> QED
  BY <1>1, <1>2, <1>3

LEMMA MeansThat ==
  ASSUME NEW a, Normal(a), NEW M \in SUBSET Places,
         \A w \in Rel, t \in Nat, b \in Bit : <<w, t, b>> \in M <=> On(ToSet(a), w, t, b)
  PROVE  RunsMean(a) = M
<1>1. a \in Seq(Proper) /\ M \in SUBSET (Rel \X Nat \X Bit)
  BY NormalFacts DEF Places
<1> QED
  BY <1>1, MeanOf

LEMMA OrRunsMean ==
  ASSUME NEW a, Normal(a), NEW b, Normal(b)
  PROVE  Normal(OrRuns(a, b)) /\ RunsMean(OrRuns(a, b)) = RunsMean(a) \cup RunsMean(b)
<1> DEFINE M == RunsMean(a) \cup RunsMean(b)
<1>1. Normal(OrRuns(a, b))
  BY OrRunsKeeps
<1>2. M \in SUBSET Places
  BY MeanPlaces
<1>3. \A w \in Rel, t \in Nat, y \in Bit : <<w, t, y>> \in M <=> On(ToSet(OrRuns(a, b)), w, t, y)
  BY MeanPlaces, OrRunsKeeps
<1> HIDE DEF M
<1>4. RunsMean(OrRuns(a, b)) = M
  BY <1>1, <1>2, <1>3, MeansThat
<1> QED
  BY <1>1, <1>4 DEF M

LEMMA AndMeansAt ==
  ASSUME NEW M \in SUBSET Places, NEW N \in SUBSET Places
  PROVE  /\ AndMeans(M, N) \in SUBSET Places
         /\ \A w \in Rel, u \in Nat, y \in Bit :
              <<w, u, y>> \in AndMeans(M, N) <=>
                \/ <<w, u, y>> \in M /\ \E t \in Nat : <<w, t, y>> \in N
                \/ <<w, u, y>> \in N /\ \E s \in Nat : <<w, s, y>> \in M
<1> DEFINE both == {p \in M \X N : p[1][1] = p[2][1] /\ p[1][3] = p[2][3]}
<1>1. AndMeans(M, N) = {p[1] : p \in both} \cup {p[2] : p \in both}
  BY DEF AndMeans
<1>2. AndMeans(M, N) \in SUBSET Places
  BY <1>1
<1>3. \A x \in Places : \E w \in Rel, t \in Nat, y \in Bit : x = <<w, t, y>>
  BY DEF Places
<1>4. ASSUME NEW w \in Rel, NEW u \in Nat, NEW y \in Bit, <<w, u, y>> \in AndMeans(M, N)
      PROVE  \/ <<w, u, y>> \in M /\ \E t \in Nat : <<w, t, y>> \in N
             \/ <<w, u, y>> \in N /\ \E s \in Nat : <<w, s, y>> \in M
  <2>1. PICK p \in both : <<w, u, y>> = p[1] \/ <<w, u, y>> = p[2]
    BY <1>1, <1>4
  <2>2. p[1] \in M /\ p[2] \in N /\ p[1][1] = p[2][1] /\ p[1][3] = p[2][3]
    BY <2>1
  <2>3. PICK w1 \in Rel, t1 \in Nat, y1 \in Bit : p[1] = <<w1, t1, y1>>
    BY <1>3, <2>2
  <2>4. PICK w2 \in Rel, t2 \in Nat, y2 \in Bit : p[2] = <<w2, t2, y2>>
    BY <1>3, <2>2
  <2>5. w1 = w2 /\ y1 = y2
    BY <2>2, <2>3, <2>4
  <2>6. w = w1 /\ y = y1
    BY <2>1, <2>3, <2>4, <2>5
  <2>7. <<w, t1, y>> \in M /\ <<w, t2, y>> \in N
    BY <2>2, <2>3, <2>4, <2>5, <2>6
  <2>8. u = t1 \/ u = t2
    BY <2>1, <2>3, <2>4
  <2> QED BY <2>7, <2>8
<1>5. ASSUME NEW w \in Rel, NEW u \in Nat, NEW y \in Bit, NEW t \in Nat,
             <<w, u, y>> \in M, <<w, t, y>> \in N
      PROVE  <<w, u, y>> \in AndMeans(M, N) /\ <<w, t, y>> \in AndMeans(M, N)
  <2> DEFINE p == <<<<w, u, y>>, <<w, t, y>>>>
  <2>1. p \in both /\ p[1] = <<w, u, y>> /\ p[2] = <<w, t, y>>
    BY <1>5
  <2> HIDE DEF p, both
  <2>2. p[1] \in AndMeans(M, N) /\ p[2] \in AndMeans(M, N)
    BY <1>1, <2>1
  <2> QED BY <2>1, <2>2
<1> QED
  BY <1>2, <1>4, <1>5

LEMMA AndRunsMean ==
  ASSUME NEW a, Normal(a), NEW b, Normal(b)
  PROVE  Normal(AndRuns(a, b)) /\ RunsMean(AndRuns(a, b)) = AndMeans(RunsMean(a), RunsMean(b))
<1> DEFINE M == RunsMean(a)
           N == RunsMean(b)
<1>1. Normal(AndRuns(a, b))
  BY AndRunsKeeps
<1>2. M \in SUBSET Places /\ N \in SUBSET Places
  BY MeanPlaces
<1>3. /\ \A w \in Rel, t \in Nat, y \in Bit : <<w, t, y>> \in M <=> On(ToSet(a), w, t, y)
      /\ \A w \in Rel, t \in Nat, y \in Bit : <<w, t, y>> \in N <=> On(ToSet(b), w, t, y)
  BY MeanPlaces
<1>4. TagsOf(a) \subseteq Nat /\ TagsOf(b) \subseteq Nat
  BY NormalFacts, TagsFinite
<1>5. \A w, t, y : /\ On(ToSet(a), w, t, y) => t \in TagsOf(a)
                   /\ On(ToSet(b), w, t, y) => t \in TagsOf(b)
  BY WithTagOn
<1> HIDE DEF M, N
<1>6. AndMeans(M, N) \in SUBSET Places
  BY <1>2, AndMeansAt
<1>7. ASSUME NEW w \in Rel, NEW u \in Nat, NEW y \in Bit
      PROVE  <<w, u, y>> \in AndMeans(M, N) <=> On(ToSet(AndRuns(a, b)), w, u, y)
  <2>1. On(ToSet(AndRuns(a, b)), w, u, y) <=>
          \E s \in TagsOf(a), t \in TagsOf(b) :
            u \in {s, t} /\ On(ToSet(a), w, s, y) /\ On(ToSet(b), w, t, y)
    BY AndRunsKeeps
  <2>2. <<w, u, y>> \in AndMeans(M, N) <=>
          \/ <<w, u, y>> \in M /\ \E t \in Nat : <<w, t, y>> \in N
          \/ <<w, u, y>> \in N /\ \E s \in Nat : <<w, s, y>> \in M
    BY <1>2, AndMeansAt
  <2>3. <<w, u, y>> \in AndMeans(M, N) <=>
          \/ On(ToSet(a), w, u, y) /\ \E t \in Nat : On(ToSet(b), w, t, y)
          \/ On(ToSet(b), w, u, y) /\ \E s \in Nat : On(ToSet(a), w, s, y)
    BY <1>3, <2>2
  <2> QED BY <1>4, <1>5, <2>1, <2>3
<1>8. RunsMean(AndRuns(a, b)) = AndMeans(M, N)
  BY <1>1, <1>6, <1>7, MeansThat
<1> QED
  BY <1>1, <1>8 DEF M, N

LEMMA AndMaskMean ==
  ASSUME NEW a, Normal(a), NEW mask \in SUBSET Bit
  PROVE  /\ Normal(AndMaskRuns(a, mask))
         /\ RunsMean(AndMaskRuns(a, mask)) = {x \in RunsMean(a) : x[3] \in mask}
<1> DEFINE mk == [r \in ToSet(a) |-> r.mask \cap mask]
           M == {x \in RunsMean(a) : x[3] \in mask}
           out == AndMaskRuns(a, mask)
<1>1. mk \in [ToSet(a) -> SUBSET Bit]
  OBVIOUS
<1>2. out = Canonical(Remasked(a, mk))
  <2>1. {[r EXCEPT !.mask = @ \cap mask] : r \in ToSet(a)} = {[r EXCEPT !.mask = mk[r]] : r \in ToSet(a)}
    OBVIOUS
  <2> HIDE DEF mk
  <2> QED BY <2>1 DEF AndMaskRuns, Remasked
<1>3. /\ Normal(out)
      /\ \A x \in Rel, t \in Nat, y \in Bit :
           On(ToSet(out), x, t, y) <=> \E r \in ToSet(a) : r.tag = t /\ Within(x, r) /\ y \in mk[r]
  <2> HIDE DEF mk, out
  <2> QED BY <1>1, <1>2, CanonicalKeeps
<1>4. M \in SUBSET Places
  BY MeanPlaces
<1>5. ASSUME NEW w \in Rel, NEW t \in Nat, NEW y \in Bit
      PROVE  <<w, t, y>> \in M <=> On(ToSet(out), w, t, y)
  <2>1. <<w, t, y>> \in M <=> (On(ToSet(a), w, t, y) /\ y \in mask)
    BY MeanPlaces
  <2>2. \A r \in ToSet(a) : y \in mk[r] <=> (y \in r.mask /\ y \in mask)
    OBVIOUS
  <2> HIDE DEF mk, out, M
  <2> QED BY <1>3, <2>1, <2>2 DEF On, Covers, Within
<1> HIDE DEF M, out
<1>6. RunsMean(out) = M
  BY <1>3, <1>4, <1>5, MeansThat
<1> QED
  BY <1>3, <1>6 DEF M, out

LEMMA NotRunsMean ==
  ASSUME NEW a, Normal(a), a # <<>>
  PROVE  Normal(NotRuns(a)) /\ RunsMean(NotRuns(a)) = NotMeans(RunsMean(a))
<1> DEFINE mk == [r \in ToSet(a) |-> Bit \ r.mask]
           N == RunsMean(a)
           M == {x \in {<<m[1], m[2], b>> : m \in N, b \in Bit} : x \notin N}
           out == NotRuns(a)
<1>1. mk \in [ToSet(a) -> SUBSET Bit]
  OBVIOUS
<1>2. out = Canonical(Remasked(a, mk))
  <2>1. {[r EXCEPT !.mask = Bit \ @] : r \in ToSet(a)} = {[r EXCEPT !.mask = mk[r]] : r \in ToSet(a)}
    OBVIOUS
  <2> HIDE DEF mk
  <2> QED BY <2>1 DEF NotRuns, Always, Remasked
<1>3. /\ Normal(out)
      /\ \A x \in Rel, t \in Nat, y \in Bit :
           On(ToSet(out), x, t, y) <=> \E r \in ToSet(a) : r.tag = t /\ Within(x, r) /\ y \in mk[r]
  <2> HIDE DEF mk, out
  <2> QED BY <1>1, <1>2, CanonicalKeeps
<1>4. N # {}
  BY EmptyMean
<1>5. NotMeans(N) = M
  <2> HIDE DEF N
  <2> QED BY <1>4 DEF NotMeans, Always
<1>6. M \in SUBSET Places
  <2>1. \A m \in N : m[1] \in Rel /\ m[2] \in Nat
    BY MeanPlaces DEF Places
  <2> HIDE DEF N
  <2> QED BY <2>1 DEF Places
<1>7. ASSUME NEW w \in Rel, NEW t \in Nat, NEW y \in Bit
      PROVE  <<w, t, y>> \in M <=> On(ToSet(out), w, t, y)
  <2>1. ASSUME <<w, t, y>> \in M
        PROVE  On(ToSet(out), w, t, y)
    <3>1. <<w, t, y>> \notin N /\ \E m \in N : m[1] = w /\ m[2] = t
      <4> HIDE DEF N
      <4> QED BY <2>1
    <3>2. PICK m \in N : m[1] = w /\ m[2] = t
      BY <3>1
    <3>3. PICK w1 \in Rel, t1 \in Nat, b1 \in Bit : m = <<w1, t1, b1>> /\ On(ToSet(a), w1, t1, b1)
      BY <3>2, MeanPlaces
    <3>4. On(ToSet(a), w, t, b1)
      BY <3>2, <3>3
    <3>5. PICK r \in ToSet(a) : r.tag = t /\ Within(w, r)
      BY <3>4 DEF On, Covers, Within
    <3>6. y \notin r.mask
      BY <3>1, <3>5, RunPlaces
    <3> HIDE DEF out, N, M
    <3> QED BY <1>3, <3>5, <3>6
  <2>2. ASSUME On(ToSet(out), w, t, y)
        PROVE  <<w, t, y>> \in M
    <3>1. PICK r \in ToSet(a) : r.tag = t /\ Within(w, r) /\ y \in mk[r]
      <4> HIDE DEF mk, out
      <4> QED BY <1>3, <2>2
    <3>2. y \notin r.mask
      BY <3>1
    <3>3. /\ \A b \in Bit : <<w, t, b>> \in N <=> b \in r.mask
          /\ r.mask \subseteq Bit /\ r.mask # {}
      BY <3>1, RunPlaces
    <3>4. PICK b \in r.mask : TRUE
      BY <3>3
    <3>5. <<w, t, b>> \in N /\ <<w, t, y>> \notin N
      BY <3>2, <3>3, <3>4
    <3> HIDE DEF N
    <3>6. <<w, t, y>> \in {<<m[1], m[2], c>> : m \in N, c \in Bit}
      <4> DEFINE m == <<w, t, b>>
      <4>1. m \in N /\ m[1] = w /\ m[2] = t
        BY <3>5
      <4> HIDE DEF m
      <4> QED BY <4>1
    <3> QED BY <3>5, <3>6
  <2> QED BY <2>1, <2>2
<1> HIDE DEF M, out, N
<1>8. RunsMean(out) = M
  BY <1>3, <1>6, <1>7, MeansThat
<1> QED
  BY <1>3, <1>5, <1>8 DEF M, out, N

-----------------------------------------------------------------------------
(* Sums of rels: without a wrap when they stay below MaxRel.               *)
LEMMA PlusIs ==
  ASSUME NEW m \in Nat, NEW n \in Nat, m + n <= MaxRel
  PROVE  Plus(m, n) = m + n /\ m + n \in Rel
<1>1. MaxRel \in Nat
  BY NullSetsAssumption
<1> DEFINE s == m + n
           k == MaxRel + 1
<1>2. s \in Nat /\ k \in Nat /\ 0 < k /\ s < k
  BY <1>1
<1> HIDE DEF s, k
<1>3. s % k = s
  BY <1>2
<1> QED
  BY <1>1, <1>3 DEF Plus, Rel, s, k

LEMMA MergeCloses ==
  /\ <<>> \in Seq(Piece)
  /\ \A s \in Seq(Piece), r \in Piece : MergeOverlapping(s, r) \in Seq(Piece)
<1>1. <<>> \in Seq(Piece)
  BY EmptySeq
<1>2. ASSUME NEW s \in Seq(Piece), NEW r \in Piece PROVE MergeOverlapping(s, r) \in Seq(Piece)
  <2>1. Append(s, r) \in Seq(Piece)
    BY AppendProperties
  <2> DEFINE most == IF r.hi > s[Len(s)].hi THEN r.hi ELSE s[Len(s)].hi
  <2>2. ASSUME s # <<>> PROVE [s EXCEPT ![Len(s)].hi = IF r.hi > @ THEN r.hi ELSE @] \in Seq(Piece)
    <3>1. Len(s) \in 1 .. Len(s) /\ s[Len(s)] \in Piece
      BY <2>2, Members
    <3>2. [s[Len(s)] EXCEPT !.hi = most] \in Piece
      BY <3>1 DEF Piece
    <3>3. [s EXCEPT ![Len(s)] = [s[Len(s)] EXCEPT !.hi = most]] \in Seq(Piece)
      <4> HIDE DEF most
      <4> QED BY <3>1, <3>2, ExceptSeq
    <3>4. [s EXCEPT ![Len(s)].hi = IF r.hi > @ THEN r.hi ELSE @]
          = [s EXCEPT ![Len(s)] = [s[Len(s)] EXCEPT !.hi = most]]
      OBVIOUS
    <3> QED BY <3>3, <3>4
  <2> QED BY <2>1, <2>2 DEF MergeOverlapping
<1> QED
  BY <1>1, <1>2

(* Merging, prefix by prefix.                                               *)
LEMMA MergeSteps ==
  ASSUME NEW p \in Seq(Piece)
  PROVE  \E F \in [0 .. Len(p) -> Seq(Piece)] :
           /\ F[0] = <<>>
           /\ \A k \in 1 .. Len(p) : F[k] = MergeOverlapping(F[k - 1], p[k])
           /\ FoldLeft(MergeOverlapping, <<>>, p) = F[Len(p)]
<1> DEFINE n == Len(p)
           step == [q \in (1 .. n) \X Seq(Piece) |-> MergeOverlapping(q[2], p[q[1]])]
           Eq(g) == [T \in SUBSET DOMAIN p |-> IF T = {} THEN <<>> ELSE MergeOverlapping(g[T \ {Max(T)}], p[Max(T)])]
           iter == CHOOSE g : g = Eq(g)
<1>1. n \in Nat /\ DOMAIN p = 1 .. n /\ \A i \in 1 .. n : p[i] \in Piece
  BY Members
<1>2. step \in [(1 .. n) \X Seq(Piece) -> Seq(Piece)]
  <2> SUFFICES ASSUME NEW q \in (1 .. n) \X Seq(Piece) PROVE MergeOverlapping(q[2], p[q[1]]) \in Seq(Piece)
    OBVIOUS
  <2>1. p[q[1]] \in Piece /\ q[2] \in Seq(Piece)
    <3> HIDE DEF n
    <3> QED BY <1>1
  <2> HIDE DEF n, step
  <2> QED BY <2>1, MergeCloses
<1>3. PICK g \in [SUBSET (1 .. n) -> Seq(Piece)] : g = Stepwise(n, <<>>, step, g)
  <2>1. <<>> \in Seq(Piece)
    BY MergeCloses
  <2> HIDE DEF step, n
  <2>2. StepwiseDefined(n, Seq(Piece), <<>>, step)
    BY <1>1, <1>2, <2>1, StepwiseExists
  <2> QED BY <2>2 DEF StepwiseDefined
<1>4. Stepwise(n, <<>>, step, g) = Eq(g)
  <2>1. SUBSET (1 .. n) = SUBSET DOMAIN p
    BY <1>1
  <2>2. \A T \in SUBSET (1 .. n) : T # {} => Max(T) \in 1 .. n /\ g[T \ {Max(T)}] \in Seq(Piece)
    <3> HIDE DEF n
    <3>1. \A T \in SUBSET (1 .. n) : T # {} => Max(T) \in T /\ T \ {Max(T)} \in SUBSET (1 .. n)
      BY <1>1, LastOfPrefix
    <3> QED BY <3>1, <1>3
  <2>3. \A T \in SUBSET (1 .. n) : T # {} => step[<<Max(T), g[T \ {Max(T)}]>>] = MergeOverlapping(g[T \ {Max(T)}], p[Max(T)])
    <3> HIDE DEF n
    <3> QED BY <2>2
  <2> HIDE DEF step, n
  <2> QED BY <2>1, <2>3 DEF Stepwise
<1>5. iter = Eq(iter)
  <2>1. g = Eq(g)
    BY <1>3, <1>4
  <2> HIDE DEF Eq
  <2> QED BY <2>1
<1>6. FoldLeft(MergeOverlapping, <<>>, p) = iter[1 .. n]
  <2>1. FoldLeft(MergeOverlapping, <<>>, p) = iter[DOMAIN p]
    BY DEF FoldLeft, MapThenFoldSet
  <2> HIDE DEF iter
  <2> QED BY <1>1, <2>1
<1> HIDE DEF n, iter, step
<1>7. iter[{}] = <<>>
  BY <1>5
<1>8. \A k \in 1 .. n : iter[1 .. k] = MergeOverlapping(iter[1 .. (k - 1)], p[k])
  <2> TAKE k \in 1 .. n
  <2>1. 1 .. k \in SUBSET DOMAIN p
    BY <1>1
  <2>2. 1 .. k # {} /\ Max(1 .. k) = k /\ (1 .. k) \ {k} = 1 .. (k - 1)
    BY <1>1, LastOfPrefix
  <2>3. iter[1 .. k] = MergeOverlapping(iter[(1 .. k) \ {Max(1 .. k)}], p[Max(1 .. k)])
    BY <1>5, <2>1, <2>2
  <2> QED BY <2>2, <2>3
<1> DEFINE G == {k \in 0 .. n : iter[1 .. k] \in Seq(Piece)}
<1>9. \A k \in 0 .. n : k \in G
  <2>1. 0 \in G
    <3>1. 1 .. 0 = {} /\ 0 \in 0 .. n /\ <<>> \in Seq(Piece)
      BY <1>1, MergeCloses
    <3> QED BY <3>1, <1>7
  <2>2. \A k \in 1 .. n : k - 1 \in G => k \in G
    <3> SUFFICES ASSUME NEW k \in 1 .. n, k - 1 \in G PROVE iter[1 .. k] \in Seq(Piece)
      BY <1>1
    <3>1. iter[1 .. (k - 1)] \in Seq(Piece) /\ p[k] \in Piece
      BY <1>1
    <3> QED BY <1>8, <3>1, MergeCloses
  <2> HIDE DEF G
  <2> QED BY <1>1, <2>1, <2>2, PrefixesOf
<1> DEFINE F == [k \in 0 .. n |-> iter[1 .. k]]
<1>10. F \in [0 .. n -> Seq(Piece)]
  BY <1>9
<1>11. F[0] = <<>>
  <2>1. 1 .. 0 = {} /\ 0 \in 0 .. n
    BY <1>1
  <2> QED BY <2>1, <1>7
<1>12. \A k \in 1 .. n : F[k] = MergeOverlapping(F[k - 1], p[k])
  <2> TAKE k \in 1 .. n
  <2>1. k \in 0 .. n /\ k - 1 \in 0 .. n
    BY <1>1
  <2> QED BY <2>1, <1>8
<1>13. FoldLeft(MergeOverlapping, <<>>, p) = F[n]
  <2>1. n \in 0 .. n
    BY <1>1
  <2> QED BY <1>6, <2>1
<1> HIDE DEF F
<1> QED
  BY <1>10, <1>11, <1>12, <1>13 DEF n

(* Runs of one tag and one mask that come with rising bounds, merged.      *)
Mergeable(t, mask, s, r) ==
  /\ Lined(s, t) /\ \A i \in 1 .. Len(s) : s[i].mask = mask
  /\ r \in Proper /\ r.tag = t /\ r.mask = mask
  /\ s # <<>> => Last(s).lo <= r.lo /\ Last(s).hi <= r.hi

MergedTo(t, mask, s, r, out) ==
  /\ Lined(out, t) /\ out # <<>>
  /\ \A i \in 1 .. Len(out) : out[i].mask = mask
  /\ Last(out).lo <= r.lo /\ Last(out).hi = r.hi
  /\ \A w \in Rel, b \in Bit :
       On(ToSet(out), w, t, b) <=> (On(ToSet(s), w, t, b) \/ Covers(r, w, t, b))

LEMMA MergeKeeps ==
  ASSUME NEW t, NEW mask, NEW s, NEW r, Mergeable(t, mask, s, r)
  PROVE  MergedTo(t, mask, s, r, MergeOverlapping(s, r))
<1> SUFFICES ASSUME Lined(s, t), \A i \in 1 .. Len(s) : s[i].mask = mask,
                    r \in Proper, r.tag = t, r.mask = mask,
                    s # <<>> => Last(s).lo <= r.lo /\ Last(s).hi <= r.hi
             PROVE  MergedTo(t, mask, s, r, MergeOverlapping(s, r))
  BY DEF Mergeable
<1> DEFINE n == Len(s)
           out == MergeOverlapping(s, r)
<1>1. s \in Seq(Proper) /\ n \in Nat /\ \A i \in 1 .. n : s[i] \in Proper /\ s[i].tag = t
  BY Members DEF Lined
<1>2. \A i, j \in 1 .. n : i < j => Clear(s[i], s[j])
  BY DEF Lined
<1>3. /\ r.lo \in Nat /\ r.hi \in Nat /\ r.lo <= r.hi
      /\ \A i \in 1 .. n : s[i].lo \in Nat /\ s[i].hi \in Nat /\ s[i].lo <= s[i].hi
  BY <1>1, ProperRun
<1>4. \A w \in Rel : w \in Nat
  BY NullSetsAssumption DEF Rel
<1>5. s # <<>> => n \in 1 .. n /\ Last(s) = s[n] /\ s[n].lo <= r.lo /\ s[n].hi <= r.hi
  BY <1>1, Members DEF Last
<1>6. CASE s # <<>> /\ r.lo <= Last(s).hi + 1
  <2> DEFINE e == [s[n] EXCEPT !.hi = r.hi]
  <2>1. n \in 1 .. n /\ Last(s) = s[n] /\ s[n].lo <= r.lo /\ s[n].hi <= r.hi /\ r.lo <= s[n].hi + 1
    BY <1>5, <1>6
  <2>2. e \in Proper /\ e.lo = s[n].lo /\ e.hi = r.hi /\ e.mask = s[n].mask /\ e.tag = t
    <3>1. s[n] \in Proper /\ s[n].lo <= r.hi /\ r.hi \in Rel
      BY <1>1, <1>3, <2>1 DEF Proper
    <3> QED BY <1>1, <2>1, <3>1 DEF Proper
  <2>3. out = [s EXCEPT ![n] = e]
    <3>1. out = [s EXCEPT ![n].hi = IF r.hi > @ THEN r.hi ELSE @]
      BY <1>6 DEF MergeOverlapping
    <3>2. [s EXCEPT ![n].hi = IF r.hi > @ THEN r.hi ELSE @]
          = [s EXCEPT ![n] = [s[n] EXCEPT !.hi = IF r.hi > s[n].hi THEN r.hi ELSE s[n].hi]]
      OBVIOUS
    <3>3. (IF r.hi > s[n].hi THEN r.hi ELSE s[n].hi) = r.hi
      BY <1>3, <2>1
    <3> HIDE DEF out, n
    <3> QED BY <3>1, <3>2, <3>3 DEF n
  <2> HIDE DEF out, n, e
  <2>4. out \in Seq(Proper) /\ Len(out) = n /\ \A i \in 1 .. n : out[i] = IF i = n THEN e ELSE s[i]
    BY <1>1, <2>1, <2>2, <2>3, ExceptSeq DEF n
  <2>5. \A i \in 1 .. n : out[i].tag = t /\ out[i].mask = mask /\ out[i].lo = s[i].lo
    <3>1. \A i \in 1 .. n : s[i].mask = mask
      BY DEF n
    <3> QED BY <1>1, <2>2, <2>4, <3>1
  <2>6. \A i, j \in 1 .. n : i < j => Clear(out[i], out[j])
    <3> SUFFICES ASSUME NEW i \in 1 .. n, NEW j \in 1 .. n, i < j PROVE Clear(out[i], out[j])
      OBVIOUS
    <3>1. i # n /\ out[i] = s[i] /\ Clear(s[i], s[j])
      BY <1>1, <1>2, <2>4
    <3>2. out[j].lo = s[j].lo /\ s[i].mask = s[j].mask
      <4>1. \A k \in 1 .. n : s[k].mask = mask
        BY DEF n
      <4> QED BY <2>5, <4>1
    <3> QED BY <3>1, <3>2 DEF Clear
  <2>7. ASSUME NEW w \in Rel, NEW b \in Bit
        PROVE  On(ToSet(out), w, t, b) <=> (On(ToSet(s), w, t, b) \/ Covers(r, w, t, b))
    <3>1. Covers(e, w, t, b) <=> (Covers(s[n], w, t, b) \/ Covers(r, w, t, b))
      <4>1. w \in Nat /\ s[n].lo \in Nat /\ s[n].hi \in Nat /\ s[n].lo <= s[n].hi /\ s[n].tag = t
        BY <1>1, <1>3, <1>4, <2>1
      <4>2. r.lo \in Nat /\ r.hi \in Nat /\ r.lo <= r.hi
        BY <1>3
      <4>3. e.mask = mask /\ s[n].mask = mask
        BY <2>1, <2>2 DEF n
      <4>4. (e.lo <= w /\ w <= e.hi) <=> ((s[n].lo <= w /\ w <= s[n].hi) \/ (r.lo <= w /\ w <= r.hi))
        BY <2>1, <2>2, <4>1, <4>2
      <4> QED BY <2>2, <4>1, <4>3, <4>4 DEF Covers
    <3>2. On(ToSet(out), w, t, b) <=> \E i \in 1 .. n : Covers(out[i], w, t, b)
      BY <2>4, OnPlaces
    <3>3. On(ToSet(s), w, t, b) <=> \E i \in 1 .. n : Covers(s[i], w, t, b)
      BY <1>1, OnPlaces DEF n
    <3> QED BY <2>1, <2>4, <3>1, <3>2, <3>3
  <2>8. out # <<>> /\ Last(out) = e
    <3>1. out # <<>>
      BY <1>1, <2>1, <2>4, Members
    <3> QED BY <2>1, <2>4, <3>1 DEF Last
  <2> QED BY <2>1, <2>2, <2>4, <2>5, <2>6, <2>7, <2>8 DEF Lined, MergedTo, out
<1>7. CASE ~ (s # <<>> /\ r.lo <= Last(s).hi + 1)
  <2>1. out = Append(s, r)
    BY <1>7 DEF MergeOverlapping
  <2> HIDE DEF out
  <2>2. /\ out \in Seq(Proper) /\ Len(out) = n + 1 /\ out # <<>>
        /\ out[n + 1] = r /\ \A i \in 1 .. n : out[i] = s[i]
    BY <1>1, <2>1, AppendProperties
  <2>3. Last(out) = r
    BY <2>2 DEF Last
  <2>4. \A i \in 1 .. n + 1 : out[i].tag = t /\ out[i].mask = mask
    BY <1>1, <2>2
  <2>5. \A i \in 1 .. n : s[i].hi + 1 < r.lo
    <3> SUFFICES ASSUME NEW i \in 1 .. n PROVE s[i].hi + 1 < r.lo
      OBVIOUS
    <3>1. s # <<>>
      BY <1>1, Members
    <3>2. s[n].hi + 1 < r.lo /\ n \in 1 .. n
      <4>1. n \in 1 .. n /\ Last(s) = s[n]
        BY <1>5, <3>1
      <4>2. s[n].hi \in Nat /\ r.lo \in Nat
        BY <1>3, <4>1
      <4> QED BY <1>7, <3>1, <4>1, <4>2
    <3>3. CASE i = n
      BY <3>2, <3>3
    <3>4. CASE i # n
      <4>1. i < n
        BY <1>1, <3>4
      <4>2. s[i].hi < s[n].lo /\ s[n].lo <= s[n].hi
        BY <1>2, <1>3, <3>2, <4>1 DEF Clear
      <4>3. s[i].hi \in Nat /\ s[n].lo \in Nat /\ s[n].hi \in Nat /\ r.lo \in Nat /\ s[n].hi < r.lo
        BY <1>3, <3>2
      <4> QED BY <4>2, <4>3, BeyondNext
    <3> QED BY <3>3, <3>4
  <2>6. \A i, j \in 1 .. n + 1 : i < j => Clear(out[i], out[j])
    <3> SUFFICES ASSUME NEW i \in 1 .. n + 1, NEW j \in 1 .. n + 1, i < j PROVE Clear(out[i], out[j])
      OBVIOUS
    <3>1. i \in 1 .. n /\ out[i] = s[i]
      BY <1>1, <2>2
    <3>2. CASE j \in 1 .. n
      BY <1>2, <2>2, <3>1, <3>2
    <3>3. CASE j = n + 1
      <4>1. s[i].hi + 1 < r.lo /\ s[i].hi \in Nat /\ r.lo \in Nat
        BY <1>3, <2>5, <3>1
      <4>2. s[i].hi < r.lo
        BY <4>1
      <4> QED BY <2>2, <3>1, <3>3, <4>1, <4>2 DEF Clear
    <3> QED BY <1>1, <3>2, <3>3
  <2>7. ASSUME NEW w \in Rel, NEW b \in Bit
        PROVE  On(ToSet(out), w, t, b) <=> (On(ToSet(s), w, t, b) \/ Covers(r, w, t, b))
    <3>1. On(ToSet(out), w, t, b) <=> \E i \in 1 .. n + 1 : Covers(out[i], w, t, b)
      BY <2>2, OnPlaces
    <3>2. On(ToSet(s), w, t, b) <=> \E i \in 1 .. n : Covers(s[i], w, t, b)
      BY <1>1, OnPlaces
    <3> HIDE DEF n
    <3>3. n + 1 \in 1 .. n + 1 /\ 1 .. n \subseteq 1 .. n + 1 /\ \A i \in 1 .. n + 1 : i \in 1 .. n \/ i = n + 1
      BY <1>1
    <3> QED BY <2>2, <3>1, <3>2, <3>3
  <2>8. Last(out).lo <= r.lo /\ Last(out).hi = r.hi
    BY <1>3, <2>3
  <2> HIDE DEF n
  <2> QED BY <2>2, <2>4, <2>6, <2>7, <2>8 DEF Lined, MergedTo, out
<1> QED
  BY <1>6, <1>7

Rising(p, t, mask) ==
  /\ p \in Seq(Proper)
  /\ \A i \in 1 .. Len(p) : p[i].tag = t /\ p[i].mask = mask
  /\ \A i, j \in 1 .. Len(p) : i < j => p[i].lo <= p[j].lo /\ p[i].hi <= p[j].hi

LEMMA MergeLined ==
  ASSUME NEW t, NEW mask, NEW p, Rising(p, t, mask)
  PROVE  /\ Lined(FoldLeft(MergeOverlapping, <<>>, p), t)
         /\ \A w \in Rel, b \in Bit : On(ToSet(FoldLeft(MergeOverlapping, <<>>, p)), w, t, b)
                                      <=> On(ToSet(p), w, t, b)
<1> DEFINE n == Len(p)
<1>1. p \in Seq(Proper) /\ p \in Seq(Piece) /\ n \in Nat
  BY Members, PieceRun DEF Rising
<1>2. PICK F \in [0 .. n -> Seq(Piece)] :
        /\ F[0] = <<>>
        /\ \A k \in 1 .. n : F[k] = MergeOverlapping(F[k - 1], p[k])
        /\ FoldLeft(MergeOverlapping, <<>>, p) = F[n]
  BY <1>1, MergeSteps
<1> DEFINE upTo(k) == \A w \in Rel, b \in Bit :
             On(ToSet(F[k]), w, t, b) <=> \E i \in 1 .. k : Covers(p[i], w, t, b)
           plain(k) == \A i \in 1 .. Len(F[k]) : F[k][i].mask = mask
           ends(k) == F[k] # <<>> => k > 0 /\ Last(F[k]).lo <= p[k].lo /\ Last(F[k]).hi = p[k].hi
           G == {k \in 0 .. n : Lined(F[k], t) /\ plain(k) /\ ends(k) /\ upTo(k)}
<1>3. \A i \in 1 .. n : /\ p[i] \in Proper /\ p[i].tag = t /\ p[i].mask = mask
                        /\ p[i].lo \in Nat /\ p[i].hi \in Nat
  BY <1>1, Members, ProperRun DEF Rising
<1>4. \A i, j \in 1 .. n : i < j => p[i].lo <= p[j].lo /\ p[i].hi <= p[j].hi
  BY DEF Rising
<1> HIDE DEF n
<1>5. 0 \in G
  <2>1. <<>> \in Seq(Proper) /\ Len(<<>>) = 0 /\ 1 .. 0 = {}
    BY EmptySeq
  <2>2. Lined(<<>>, t)
    BY <2>1 DEF Lined
  <2>3. \A w, b : ~ On(ToSet(<<>>), w, t, b)
    BY EmptyNormal
  <2>4. 0 \in 0 .. n
    BY <1>1
  <2>5. plain(0) /\ upTo(0) /\ ends(0)
    BY <1>2, <2>1, <2>3
  <2> HIDE DEF plain, upTo, ends
  <2> QED BY <1>2, <2>2, <2>4, <2>5
<1>6. ASSUME NEW k \in 1 .. n, k - 1 \in G
      PROVE  k \in G
  <2> DEFINE s == F[k - 1]
             r == p[k]
  <2>1. k \in 0 .. n /\ k - 1 \in 0 .. n /\ k > 0
    BY <1>1
  <2>2. Lined(s, t) /\ plain(k - 1) /\ ends(k - 1) /\ upTo(k - 1)
    BY <1>6
  <2>3. r \in Proper /\ r.tag = t /\ r.mask = mask
    BY <1>3
  <2>4. s # <<>> => Last(s).lo <= r.lo /\ Last(s).hi <= r.hi
    <3> SUFFICES ASSUME s # <<>> PROVE Last(s).lo <= r.lo /\ Last(s).hi <= r.hi
      OBVIOUS
    <3>1. k - 1 > 0 /\ Last(s).lo <= p[k - 1].lo /\ Last(s).hi = p[k - 1].hi
      BY <2>2
    <3>2. k - 1 \in 1 .. n /\ k - 1 < k
      BY <1>1, <3>1
    <3>3. p[k - 1].lo <= r.lo /\ p[k - 1].hi <= r.hi /\ p[k - 1].lo \in Nat /\ r.lo \in Nat
      BY <1>3, <1>4, <3>2
    <3>4. Last(s).lo \in Nat
      <4>1. s \in Seq(Proper) /\ Len(s) \in 1 .. Len(s)
        BY <2>2, Members DEF Lined
      <4> QED BY <4>1, Members, ProperRun DEF Last
    <3> HIDE DEF r, s
    <3> QED BY <3>1, <3>3, <3>4
  <2>5. \A i \in 1 .. Len(s) : s[i].mask = mask
    BY <2>2
  <2> HIDE DEF r, s
  <2> DEFINE out == MergeOverlapping(s, r)
  <2>6. /\ Lined(out, t) /\ out # <<>>
        /\ \A i \in 1 .. Len(out) : out[i].mask = mask
        /\ Last(out).lo <= r.lo /\ Last(out).hi = r.hi
        /\ \A w \in Rel, b \in Bit : On(ToSet(out), w, t, b) <=> (On(ToSet(s), w, t, b) \/ Covers(r, w, t, b))
    <3>1. Mergeable(t, mask, s, r)
      BY <2>2, <2>3, <2>4, <2>5 DEF Mergeable
    <3>2. MergedTo(t, mask, s, r, out)
      BY <3>1, MergeKeeps
    <3> QED BY <3>2 DEF MergedTo
  <2>7. F[k] = out
    BY <1>2 DEF r, s
  <2> HIDE DEF out
  <2>8. upTo(k)
    <3> SUFFICES ASSUME NEW w \in Rel, NEW b \in Bit
                 PROVE  On(ToSet(F[k]), w, t, b) <=> \E i \in 1 .. k : Covers(p[i], w, t, b)
      OBVIOUS
    <3>1. On(ToSet(s), w, t, b) <=> \E i \in 1 .. (k - 1) : Covers(p[i], w, t, b)
      BY <2>2 DEF s
    <3>2. \A i : i \in 1 .. k <=> (i \in 1 .. (k - 1) \/ i = k)
      BY <2>1
    <3> QED BY <2>6, <2>7, <3>1, <3>2 DEF r
  <2>9. plain(k) /\ ends(k)
    BY <2>1, <2>6, <2>7 DEF r
  <2>10. Lined(F[k], t)
    BY <2>6, <2>7
  <2> HIDE DEF plain, ends, upTo
  <2> QED BY <2>1, <2>8, <2>9, <2>10
<1>7. n \in G
  <2> HIDE DEF G
  <2>1. \A k \in 0 .. n : k \in G
    BY <1>1, <1>5, <1>6, PrefixesOf
  <2> QED BY <1>1, <2>1
<1>8. \A w \in Rel, b \in Bit : On(ToSet(p), w, t, b) <=> \E i \in 1 .. n : Covers(p[i], w, t, b)
  BY <1>1, OnPlaces DEF n
<1> QED
  BY <1>2, <1>7, <1>8

-----------------------------------------------------------------------------
(* Runs shifted by a distance that wraps none of them.                     *)
ShiftRun(r, d) == Tagged(r.mask, r.lo + d, r.hi + d, r.tag)

LEMMA ShiftedRun ==
  ASSUME NEW r \in Proper, NEW d \in Nat, r.hi + d <= MaxRel
  PROVE  /\ [r EXCEPT !.lo = Plus(@, d), !.hi = Plus(@, d)] = ShiftRun(r, d)
         /\ ShiftRun(r, d) \in Proper
         /\ ShiftRun(r, d).lo = r.lo + d /\ ShiftRun(r, d).hi = r.hi + d
         /\ ShiftRun(r, d).tag = r.tag /\ ShiftRun(r, d).mask = r.mask
<1>1. /\ r.lo \in Nat /\ r.hi \in Nat /\ r.lo <= r.hi /\ MaxRel \in Nat
      /\ r = Tagged(r.mask, r.lo, r.hi, r.tag)
  BY ProperRun
<1>2. r.lo + d <= MaxRel
  BY <1>1
<1>3. Plus(r.hi, d) = r.hi + d /\ r.hi + d \in Rel
  BY <1>1, PlusIs
<1>4. Plus(r.lo, d) = r.lo + d /\ r.lo + d \in Rel
  BY <1>1, <1>2, PlusIs
<1>5. [r EXCEPT !.lo = Plus(@, d), !.hi = Plus(@, d)] = [r EXCEPT !.lo = r.lo + d, !.hi = r.hi + d]
  BY <1>3, <1>4
<1>7. [r EXCEPT !.lo = r.lo + d, !.hi = r.hi + d] = ShiftRun(r, d)
  <2> DEFINE u == r.lo + d
             v == r.hi + d
  <2> HIDE DEF u, v
  <2>1. [r EXCEPT !.lo = u, !.hi = v] = Tagged(r.mask, u, v, r.tag)
    <3> DEFINE q == [r EXCEPT !.lo = u, !.hi = v]
    <3>1. r \in [mask : SUBSET Bit, lo : Rel, hi : Rel, tag : Nat]
      BY DEF Proper
    <3>2. q \in [mask : SUBSET Bit, lo : {u} \cup Rel, hi : {v} \cup Rel, tag : Nat]
      BY <3>1
    <3>3. q.mask = r.mask /\ q.lo = u /\ q.hi = v /\ q.tag = r.tag
      BY <3>1
    <3> HIDE DEF q
    <3>4. q = Tagged(q.mask, q.lo, q.hi, q.tag)
      BY <3>2 DEF Tagged
    <3> QED BY <3>3, <3>4 DEF q
  <2> QED BY <2>1 DEF ShiftRun, u, v
<1>8. /\ ShiftRun(r, d).lo = r.lo + d /\ ShiftRun(r, d).hi = r.hi + d
      /\ ShiftRun(r, d).tag = r.tag /\ ShiftRun(r, d).mask = r.mask
  BY DEF ShiftRun, Tagged
<1>9. ShiftRun(r, d) \in Proper
  <2>1. r.lo + d <= r.hi + d
    BY <1>1
  <2>2. r.mask \in (SUBSET Bit) \ {{}} /\ r.tag \in Nat
    BY DEF Proper
  <2> QED BY <1>3, <1>4, <2>1, <2>2 DEF Proper, ShiftRun, Tagged
<1> QED
  BY <1>5, <1>7, <1>8, <1>9

LEMMA AddRelRunsAre ==
  ASSUME NEW a \in Seq(Proper), NEW d \in Nat, \A i \in 1 .. Len(a) : a[i].hi + d <= MaxRel
  PROVE  /\ AddRelRuns(a, d) \in Seq(Proper) /\ Len(AddRelRuns(a, d)) = Len(a)
         /\ \A i \in 1 .. Len(a) : AddRelRuns(a, d)[i] = ShiftRun(a[i], d)
<1> DEFINE n == Len(a)
           q == AddRelRuns(a, d)
<1>1. n \in Nat /\ DOMAIN a = 1 .. n /\ \A i \in 1 .. n : a[i] \in Proper
  BY Members
<1>2. q = [i \in 1 .. n |-> [a[i] EXCEPT !.lo = Plus(@, d), !.hi = Plus(@, d)]]
  BY <1>1 DEF AddRelRuns
<1> HIDE DEF q
<1>3. \A i \in 1 .. n : q[i] = ShiftRun(a[i], d) /\ q[i] \in Proper
  <2> SUFFICES ASSUME NEW i \in 1 .. n PROVE q[i] = ShiftRun(a[i], d) /\ q[i] \in Proper
    OBVIOUS
  <2>1. a[i] \in Proper /\ a[i].hi + d <= MaxRel
    BY <1>1
  <2>2. [a[i] EXCEPT !.lo = Plus(@, d), !.hi = Plus(@, d)] = ShiftRun(a[i], d) /\ ShiftRun(a[i], d) \in Proper
    BY <2>1, ShiftedRun
  <2> QED BY <1>2, <2>2
<1> HIDE DEF n
<1>4. q \in Seq(Proper) /\ Len(q) = n
  <2>1. q \in [1 .. n -> Proper]
    <3>1. q = [i \in 1 .. n |-> q[i]]
      BY <1>2
    <3> QED BY <1>3, <3>1
  <2> QED BY <1>1, <2>1
<1> QED
  BY <1>3, <1>4 DEF n, q

LEMMA AddRelNone ==
  ASSUME NEW a \in Seq(Proper)
  PROVE  AddRelRuns(a, 0) = a
<1> DEFINE n == Len(a)
           q == AddRelRuns(a, 0)
<1>1. n \in Nat /\ DOMAIN a = 1 .. n /\ \A i \in 1 .. n : a[i] \in Proper
  BY Members
<1>2. \A i \in 1 .. n : /\ a[i].hi + 0 <= MaxRel /\ a[i].lo + 0 = a[i].lo /\ a[i].hi + 0 = a[i].hi
                        /\ a[i] = Tagged(a[i].mask, a[i].lo, a[i].hi, a[i].tag)
  BY <1>1, ProperRun
<1>3. q \in Seq(Proper) /\ Len(q) = n /\ \A i \in 1 .. n : q[i] = ShiftRun(a[i], 0)
  BY <1>2, AddRelRunsAre
<1>4. \A i \in 1 .. n : q[i] = a[i]
  BY <1>2, <1>3 DEF ShiftRun
<1> HIDE DEF n, q
<1>5. q = a
  BY <1>1, <1>3, <1>4, SeqEqual DEF n
<1> QED
  BY <1>5 DEF q

LEMMA AddRelMean ==
  ASSUME NEW a, Normal(a), NEW d \in Nat, \A i \in 1 .. Len(a) : a[i].hi + d <= MaxRel
  PROVE  /\ Normal(AddRelRuns(a, d))
         /\ RunsMean(AddRelRuns(a, d)) = ShiftMeans(RunsMean(a), {d})
<1> DEFINE n == Len(a)
           q == AddRelRuns(a, d)
           N == RunsMean(a)
           M == ShiftMeans(N, {d})
<1>1. a \in Seq(Proper) /\ n \in Nat /\ \A i \in 1 .. n : a[i] \in Proper /\ a[i] \in ToSet(a)
  BY NormalFacts, Members
<1>2. q \in Seq(Proper) /\ Len(q) = n /\ \A i \in 1 .. n : q[i] = ShiftRun(a[i], d)
  BY <1>1, AddRelRunsAre
<1>3. \A i \in 1 .. n : /\ q[i].lo = a[i].lo + d /\ q[i].hi = a[i].hi + d
                        /\ q[i].tag = a[i].tag /\ q[i].mask = a[i].mask
                        /\ a[i].lo \in Nat /\ a[i].hi \in Nat /\ a[i].tag \in Nat
  <2> SUFFICES ASSUME NEW i \in 1 .. n
               PROVE  /\ q[i].lo = a[i].lo + d /\ q[i].hi = a[i].hi + d
                      /\ q[i].tag = a[i].tag /\ q[i].mask = a[i].mask
                      /\ a[i].lo \in Nat /\ a[i].hi \in Nat /\ a[i].tag \in Nat
    OBVIOUS
  <2>1. a[i] \in Proper /\ a[i].hi + d <= MaxRel /\ q[i] = ShiftRun(a[i], d)
    BY <1>1, <1>2
  <2>2. a[i].lo \in Nat /\ a[i].hi \in Nat /\ a[i].tag \in Nat
    BY <2>1, ProperRun
  <2> HIDE DEF n, q
  <2> QED BY <2>1, <2>2 DEF ShiftRun, Tagged
<1>4. \A x \in ToSet(q) : \E i \in 1 .. n : x = q[i]
  BY <1>2, Members
<1> HIDE DEF q, n
<1>5. \A i, j \in 1 .. n : i < j => Before(q[i], q[j])
  <2> SUFFICES ASSUME NEW i \in 1 .. n, NEW j \in 1 .. n, i < j PROVE Before(q[i], q[j])
    OBVIOUS
  <2>1. Before(a[i], a[j])
    BY DEF Normal, Sorted, n
  <2> QED BY <1>3, <2>1 DEF Before
<1>6. Apart(ToSet(q))
  <2> SUFFICES ASSUME NEW r \in ToSet(q), NEW s \in ToSet(q), r.tag = s.tag, r # s
               PROVE  Clear(r, s) \/ Clear(s, r)
    BY DEF Apart
  <2>1. PICK i \in 1 .. n, j \in 1 .. n : r = q[i] /\ s = q[j]
    BY <1>4
  <2>2. a[i] # a[j] /\ a[i].tag = a[j].tag
    BY <1>2, <1>3, <2>1
  <2>3. Clear(a[i], a[j]) \/ Clear(a[j], a[i])
    BY <1>1, <2>2 DEF Normal, Apart
  <2>4. /\ a[i].lo \in Nat /\ a[i].hi \in Nat /\ a[j].lo \in Nat /\ a[j].hi \in Nat
        /\ r.lo = a[i].lo + d /\ r.hi = a[i].hi + d /\ s.lo = a[j].lo + d /\ s.hi = a[j].hi + d
        /\ r.mask = a[i].mask /\ s.mask = a[j].mask
    BY <1>3, <2>1
  <2>5. ASSUME NEW h \in Nat, NEW l \in Nat PROVE (h < l => h + d < l + d) /\ (h + 1 < l => (h + d) + 1 < l + d)
    OBVIOUS
  <2> QED BY <2>3, <2>4, <2>5 DEF Clear
<1>7. Normal(q)
  BY <1>2, <1>5, <1>6 DEF Normal, Sorted
<1>8. \A w, t, b : On(ToSet(q), w, t, b) <=> \E i \in 1 .. n : Covers(q[i], w, t, b)
  BY <1>2, OnPlaces
<1>9. \A w, t, b : On(ToSet(a), w, t, b) <=> \E i \in 1 .. n : Covers(a[i], w, t, b)
  BY <1>1, OnPlaces DEF n
<1>10. MaxRel \in Nat /\ \A w \in Rel : w \in Nat
  BY NullSetsAssumption DEF Rel
<1>11. ASSUME NEW w \in Rel, NEW t \in Nat, NEW b \in Bit, <<w, t, b>> \in N
       PROVE  w + d \in Rel /\ On(ToSet(q), w + d, t, b)
  <2>1. PICK i \in 1 .. n : Covers(a[i], w, t, b)
    BY <1>9, <1>11, MeanPlaces
  <2>2. w + d <= a[i].hi + d /\ a[i].lo + d <= w + d /\ a[i].hi + d <= MaxRel
    BY <1>3, <1>10, <2>1 DEF Covers, n
  <2>3. w + d \in Rel
    BY <1>3, <1>10, <2>2 DEF Rel
  <2>4. Covers(q[i], w + d, t, b)
    BY <1>3, <2>1, <2>2 DEF Covers
  <2> QED BY <1>8, <2>3, <2>4
<1>12. ASSUME NEW w \in Rel, NEW t \in Nat, NEW b \in Bit, On(ToSet(q), w, t, b)
       PROVE  \E v \in Rel : w = v + d /\ <<v, t, b>> \in N
  <2>1. PICK i \in 1 .. n : Covers(q[i], w, t, b)
    BY <1>8, <1>12
  <2> DEFINE v == w - d
  <2>2. w \in Nat /\ a[i].lo + d <= w /\ w <= a[i].hi + d /\ b \in a[i].mask /\ t = a[i].tag
    BY <1>3, <1>10, <2>1 DEF Covers
  <2>3. v \in Nat /\ w = v + d /\ a[i].lo <= v /\ v <= a[i].hi
    BY <1>3, <2>2
  <2>4. v \in Rel
    <3>1. a[i].hi <= MaxRel
      BY <1>1, ProperRun
    <3> QED BY <1>3, <1>10, <2>3, <3>1 DEF Rel
  <2> HIDE DEF v
  <2>5. Covers(a[i], v, t, b)
    BY <2>2, <2>3 DEF Covers
  <2>6. <<v, t, b>> \in N
    BY <1>9, <2>4, <2>5, MeanPlaces
  <2> QED BY <2>3, <2>4, <2>6
<1>13. M = {<<x[1] + d, x[2], x[3]>> : x \in N}
  BY DEF ShiftMeans
<1>14. \A x \in N : \E w \in Rel, t \in Nat, b \in Bit : x = <<w, t, b>>
  BY MeanPlaces
<1> HIDE DEF N, M
<1>15. M \in SUBSET Places
  <2> SUFFICES ASSUME NEW x \in N PROVE <<x[1] + d, x[2], x[3]>> \in Places
    BY <1>13
  <2>1. PICK w \in Rel, t \in Nat, b \in Bit : x = <<w, t, b>>
    BY <1>14
  <2> QED BY <1>11, <2>1 DEF Places
<1>16. ASSUME NEW w \in Rel, NEW t \in Nat, NEW b \in Bit
       PROVE  <<w, t, b>> \in M <=> On(ToSet(q), w, t, b)
  <2>1. ASSUME <<w, t, b>> \in M PROVE On(ToSet(q), w, t, b)
    <3>1. PICK x \in N : <<w, t, b>> = <<x[1] + d, x[2], x[3]>>
      BY <1>13, <2>1
    <3>2. PICK w1 \in Rel, t1 \in Nat, b1 \in Bit : x = <<w1, t1, b1>>
      BY <1>14
    <3>3. On(ToSet(q), w1 + d, t1, b1)
      BY <1>11, <3>2
    <3> QED BY <3>1, <3>2, <3>3
  <2>2. ASSUME On(ToSet(q), w, t, b) PROVE <<w, t, b>> \in M
    <3>1. PICK v \in Rel : w = v + d /\ <<v, t, b>> \in N
      BY <1>12, <2>2
    <3> DEFINE x == <<v, t, b>>
    <3>2. x \in N /\ <<x[1] + d, x[2], x[3]>> = <<w, t, b>>
      BY <3>1
    <3> HIDE DEF x
    <3> QED BY <1>13, <3>2
  <2> QED BY <2>1, <2>2
<1>17. RunsMean(q) = M
  BY <1>7, <1>15, <1>16, MeansThat
<1> QED
  BY <1>7, <1>17 DEF q, M, N

-----------------------------------------------------------------------------
(* Every run of a body shifted by every rel of a set of shifts.            *)
LEMMA OrCloses ==
  /\ <<>> \in Normals
  /\ \A s \in Normals, r \in Normals : OrRuns(s, r) \in Normals
  BY EmptyNormal, OrRunsKeeps DEF Normals

(* Unions, prefix by prefix.                                               *)
LEMMA OrSteps ==
  ASSUME NEW p \in Seq(Normals)
  PROVE  \E F \in [0 .. Len(p) -> Normals] :
           /\ F[0] = <<>>
           /\ \A k \in 1 .. Len(p) : F[k] = OrRuns(F[k - 1], p[k])
           /\ FoldLeft(OrRuns, <<>>, p) = F[Len(p)]
<1> DEFINE n == Len(p)
           step == [q \in (1 .. n) \X Normals |-> OrRuns(q[2], p[q[1]])]
           Eq(g) == [T \in SUBSET DOMAIN p |-> IF T = {} THEN <<>> ELSE OrRuns(g[T \ {Max(T)}], p[Max(T)])]
           iter == CHOOSE g : g = Eq(g)
<1>1. n \in Nat /\ DOMAIN p = 1 .. n /\ \A i \in 1 .. n : p[i] \in Normals
  BY Members
<1>2. step \in [(1 .. n) \X Normals -> Normals]
  <2> SUFFICES ASSUME NEW q \in (1 .. n) \X Normals PROVE OrRuns(q[2], p[q[1]]) \in Normals
    OBVIOUS
  <2>1. p[q[1]] \in Normals /\ q[2] \in Normals
    <3> HIDE DEF n
    <3> QED BY <1>1
  <2> HIDE DEF n, step
  <2> QED BY <2>1, OrCloses
<1>3. PICK g \in [SUBSET (1 .. n) -> Normals] : g = Stepwise(n, <<>>, step, g)
  <2>1. <<>> \in Normals
    BY OrCloses
  <2> HIDE DEF step, n
  <2>2. StepwiseDefined(n, Normals, <<>>, step)
    BY <1>1, <1>2, <2>1, StepwiseExists
  <2> QED BY <2>2 DEF StepwiseDefined
<1>4. Stepwise(n, <<>>, step, g) = Eq(g)
  <2>1. SUBSET (1 .. n) = SUBSET DOMAIN p
    BY <1>1
  <2>2. \A T \in SUBSET (1 .. n) : T # {} => Max(T) \in 1 .. n /\ g[T \ {Max(T)}] \in Normals
    <3> HIDE DEF n
    <3>1. \A T \in SUBSET (1 .. n) : T # {} => Max(T) \in T /\ T \ {Max(T)} \in SUBSET (1 .. n)
      BY <1>1, LastOfPrefix
    <3> QED BY <3>1, <1>3
  <2>3. \A T \in SUBSET (1 .. n) : T # {} => step[<<Max(T), g[T \ {Max(T)}]>>] = OrRuns(g[T \ {Max(T)}], p[Max(T)])
    <3> HIDE DEF n
    <3> QED BY <2>2
  <2> HIDE DEF step, n
  <2> QED BY <2>1, <2>3 DEF Stepwise
<1>5. iter = Eq(iter)
  <2>1. g = Eq(g)
    BY <1>3, <1>4
  <2> HIDE DEF Eq
  <2> QED BY <2>1
<1>6. FoldLeft(OrRuns, <<>>, p) = iter[1 .. n]
  <2>1. FoldLeft(OrRuns, <<>>, p) = iter[DOMAIN p]
    BY DEF FoldLeft, MapThenFoldSet
  <2> HIDE DEF iter
  <2> QED BY <1>1, <2>1
<1> HIDE DEF n, iter, step
<1>7. iter[{}] = <<>>
  BY <1>5
<1>8. \A k \in 1 .. n : iter[1 .. k] = OrRuns(iter[1 .. (k - 1)], p[k])
  <2> TAKE k \in 1 .. n
  <2>1. 1 .. k \in SUBSET DOMAIN p
    BY <1>1
  <2>2. 1 .. k # {} /\ Max(1 .. k) = k /\ (1 .. k) \ {k} = 1 .. (k - 1)
    BY <1>1, LastOfPrefix
  <2>3. iter[1 .. k] = OrRuns(iter[(1 .. k) \ {Max(1 .. k)}], p[Max(1 .. k)])
    BY <1>5, <2>1, <2>2
  <2> QED BY <2>2, <2>3
<1> DEFINE G == {k \in 0 .. n : iter[1 .. k] \in Normals}
<1>9. \A k \in 0 .. n : k \in G
  <2>1. 0 \in G
    <3>1. 1 .. 0 = {} /\ 0 \in 0 .. n /\ <<>> \in Normals
      BY <1>1, OrCloses
    <3> QED BY <3>1, <1>7
  <2>2. \A k \in 1 .. n : k - 1 \in G => k \in G
    <3> SUFFICES ASSUME NEW k \in 1 .. n, k - 1 \in G PROVE iter[1 .. k] \in Normals
      BY <1>1
    <3>1. iter[1 .. (k - 1)] \in Normals /\ p[k] \in Normals
      BY <1>1
    <3> QED BY <1>8, <3>1, OrCloses
  <2> HIDE DEF G
  <2> QED BY <1>1, <2>1, <2>2, PrefixesOf
<1> DEFINE F == [k \in 0 .. n |-> iter[1 .. k]]
<1>10. F \in [0 .. n -> Normals]
  BY <1>9
<1>11. F[0] = <<>>
  <2>1. 1 .. 0 = {} /\ 0 \in 0 .. n
    BY <1>1
  <2> QED BY <2>1, <1>7
<1>12. \A k \in 1 .. n : F[k] = OrRuns(F[k - 1], p[k])
  <2> TAKE k \in 1 .. n
  <2>1. k \in 0 .. n /\ k - 1 \in 0 .. n
    BY <1>1
  <2> QED BY <2>1, <1>8
<1>13. FoldLeft(OrRuns, <<>>, p) = F[n]
  <2>1. n \in 0 .. n
    BY <1>1
  <2> QED BY <1>6, <2>1
<1> HIDE DEF F
<1> QED
  BY <1>10, <1>11, <1>12, <1>13 DEF n

LEMMA OrLine ==
  ASSUME NEW p \in Seq(Normals)
  PROVE  /\ FoldLeft(OrRuns, <<>>, p) \in Normals
         /\ \A w \in Rel, t \in Nat, b \in Bit :
              On(ToSet(FoldLeft(OrRuns, <<>>, p)), w, t, b) <=> \E i \in 1 .. Len(p) : On(ToSet(p[i]), w, t, b)
<1> DEFINE n == Len(p)
<1>1. n \in Nat /\ \A i \in 1 .. n : p[i] \in Normals
  BY Members
<1>2. PICK F \in [0 .. n -> Normals] :
        /\ F[0] = <<>>
        /\ \A k \in 1 .. n : F[k] = OrRuns(F[k - 1], p[k])
        /\ FoldLeft(OrRuns, <<>>, p) = F[n]
  BY OrSteps
<1> DEFINE upTo(k) == \A w \in Rel, t \in Nat, b \in Bit :
             On(ToSet(F[k]), w, t, b) <=> \E i \in 1 .. k : On(ToSet(p[i]), w, t, b)
           G == {k \in 0 .. n : upTo(k)}
<1> HIDE DEF n
<1>3. 0 \in G
  <2>1. 0 \in 0 .. n /\ 1 .. 0 = {}
    BY <1>1
  <2>2. upTo(0)
    BY <1>2, <2>1, EmptyNormal
  <2> QED BY <2>1, <2>2
<1>4. ASSUME NEW k \in 1 .. n, k - 1 \in G PROVE k \in G
  <2>1. k \in 0 .. n /\ k - 1 \in 0 .. n /\ \A i : i \in 1 .. k <=> (i \in 1 .. (k - 1) \/ i = k)
    BY <1>1
  <2> DEFINE s == F[k - 1]
             r == p[k]
  <2>2. Normal(s) /\ Normal(r) /\ F[k] = OrRuns(s, r)
    BY <1>1, <1>2, <2>1 DEF Normals
  <2>3. upTo(k - 1)
    BY <1>4
  <2> HIDE DEF s, r
  <2>4. \A w \in Rel, t \in Nat, b \in Bit :
          On(ToSet(F[k]), w, t, b) <=> (On(ToSet(s), w, t, b) \/ On(ToSet(r), w, t, b))
    BY <2>2, OrRunsKeeps
  <2>5. upTo(k)
    BY <2>1, <2>3, <2>4 DEF s, r
  <2> QED BY <2>1, <2>5
<1>5. n \in G
  <2> HIDE DEF G
  <2>1. \A k \in 0 .. n : k \in G
    BY <1>1, <1>3, <1>4, PrefixesOf
  <2> QED BY <1>1, <2>1
<1>6. F[n] \in Normals
  BY <1>1, <1>2
<1> QED
  BY <1>2, <1>5, <1>6 DEF n

(* Sets of rels that are null everywhere, without a tag: what others are   *)
(* shifted by.                                                             *)
AllRels(s) ==
  /\ Normal(s)
  /\ RunsMean(s) = {<<rel, NoTag, x>> : rel \in Rels(RunsMean(s)), x \in Always}

LEMMA AllRelsRise ==
  ASSUME NEW s, AllRels(s)
  PROVE  /\ s \in Seq(Proper)
         /\ \A i \in 1 .. Len(s) : s[i].tag = NoTag /\ s[i].mask = Bit
         /\ \A i, j \in 1 .. Len(s) : i < j => s[i].lo <= s[j].lo /\ s[i].hi <= s[j].hi
         /\ Rels(RunsMean(s)) \subseteq Rel
         /\ \A w \in Rel : w \in Rels(RunsMean(s)) <=> \E i \in 1 .. Len(s) : Within(w, s[i])
<1> DEFINE n == Len(s)
           N == RunsMean(s)
           R == Rels(N)
<1>1. Normal(s) /\ s \in Seq(Proper) /\ n \in Nat
  BY NormalFacts, Members DEF AllRels
<1>2. \A i \in 1 .. n : s[i] \in Proper /\ s[i] \in ToSet(s)
  BY <1>1, Members
<1>3. N = {<<rel, NoTag, x>> : rel \in R, x \in Bit}
  BY DEF AllRels, Always
<1>4. \A rel \in R, x \in Bit : <<rel, NoTag, x>> \in N
  BY <1>3
<1>5. R = {x[1] : x \in N}
  BY DEF Rels
<1>6. \A x \in N : \E w \in Rel, t \in Nat, b \in Bit : x = <<w, t, b>>
  BY <1>1, MeanPlaces
<1>7. NoTag \in Nat
  BY NullSetsAssumption
<1> HIDE DEF N, R
<1>8. \A w, t, b : <<w, t, b>> \in N => w \in R
  <2> SUFFICES ASSUME NEW w, NEW t, NEW b, <<w, t, b>> \in N PROVE w \in R
    OBVIOUS
  <2> DEFINE x == <<w, t, b>>
  <2>1. x \in N /\ x[1] = w
    OBVIOUS
  <2> HIDE DEF x
  <2> QED BY <1>5, <2>1
<1>9. \A w, t, b : <<w, t, b>> \in N => t = NoTag
  <2> SUFFICES ASSUME NEW w, NEW t, NEW b, <<w, t, b>> \in N PROVE t = NoTag
    OBVIOUS
  <2>1. PICK rel \in R, x \in Bit : <<w, t, b>> = <<rel, NoTag, x>>
    BY <1>3
  <2> QED BY <2>1
<1>10. ASSUME NEW i \in 1 .. n PROVE s[i].tag = NoTag /\ s[i].mask = Bit
  <2> DEFINE r == s[i]
  <2>1. r \in ToSet(s) /\ r.lo \in Rel /\ Within(r.lo, r)
    BY <1>2, ProperRun DEF Within
  <2> HIDE DEF r
  <2>2. /\ \A b \in Bit : <<r.lo, r.tag, b>> \in N <=> b \in r.mask
        /\ r.mask \subseteq Bit /\ r.mask # {}
    BY <1>1, <2>1, RunPlaces DEF N
  <2>3. PICK b \in r.mask : TRUE
    BY <2>2
  <2>4. <<r.lo, r.tag, b>> \in N
    BY <2>2, <2>3
  <2>5. r.tag = NoTag /\ r.lo \in R
    BY <1>8, <1>9, <2>4
  <2>6. r.mask = Bit
    BY <1>4, <2>2, <2>5
  <2> QED BY <2>5, <2>6 DEF r
<1>11. ASSUME NEW i \in 1 .. n, NEW j \in 1 .. n, i < j
       PROVE  s[i].lo <= s[j].lo /\ s[i].hi <= s[j].hi
  <2>1. Clear(s[i], s[j])
    BY <1>1, <1>10, <1>11, NormalOrder DEF n
  <2>2. s[i].lo < s[j].lo /\ s[i].hi < s[j].hi
    BY <1>2, <2>1, ClearKey
  <2>3. /\ s[i].lo \in Nat /\ s[j].lo \in Nat /\ s[i].hi \in Nat /\ s[j].hi \in Nat
    BY <1>2, ProperRun
  <2> QED BY <2>2, <2>3
<1>12. R \subseteq Rel
  BY <1>5, <1>6
<1>13. ASSUME NEW w \in Rel PROVE w \in R <=> \E i \in 1 .. n : Within(w, s[i])
  <2>1. PICK b \in Bit : TRUE
    BY DEF Bit
  <2>2. w \in R <=> <<w, NoTag, b>> \in N
    BY <1>4, <1>8
  <2>3. <<w, NoTag, b>> \in N <=> On(ToSet(s), w, NoTag, b)
    BY <1>1, <1>7, MeanPlaces DEF N
  <2>4. On(ToSet(s), w, NoTag, b) <=> \E i \in 1 .. n : Covers(s[i], w, NoTag, b)
    BY <1>1, OnPlaces
  <2> HIDE DEF n
  <2> QED BY <1>10, <2>2, <2>3, <2>4 DEF Covers, Within
<1> QED
  BY <1>1, <1>10, <1>11, <1>12, <1>13 DEF N, R

(* One run shifted by all of them.                                         *)
Spread(r, s, i) == Tagged(r.mask, r.lo + s[i].lo, r.hi + s[i].hi, r.tag)
SpreadAll(r, s) ==
  FoldLeft(MergeOverlapping, <<>>, [i \in DOMAIN s |->
    Tagged(r.mask, Plus(r.lo, s[i].lo), Plus(r.hi, s[i].hi), r.tag)])
Spreads(r, s) == AllRels(s) /\ r \in Proper /\ \A i \in 1 .. Len(s) : r.hi + s[i].hi <= MaxRel

LEMMA SpreadRun ==
  ASSUME NEW r \in Proper, NEW q \in Proper, r.hi + q.hi <= MaxRel
  PROVE  /\ Tagged(r.mask, Plus(r.lo, q.lo), Plus(r.hi, q.hi), r.tag)
            = Tagged(r.mask, r.lo + q.lo, r.hi + q.hi, r.tag)
         /\ Tagged(r.mask, r.lo + q.lo, r.hi + q.hi, r.tag) \in Proper
<1>1. /\ r.lo \in Nat /\ r.hi \in Nat /\ r.lo <= r.hi /\ MaxRel \in Nat
      /\ q.lo \in Nat /\ q.hi \in Nat /\ q.lo <= q.hi
  BY ProperRun
<1>2. r.lo + q.lo <= r.hi + q.hi /\ r.lo + q.lo <= MaxRel
  BY <1>1
<1>3. Plus(r.hi, q.hi) = r.hi + q.hi /\ r.hi + q.hi \in Rel
  BY <1>1, PlusIs
<1>4. Plus(r.lo, q.lo) = r.lo + q.lo /\ r.lo + q.lo \in Rel
  BY <1>1, <1>2, PlusIs
<1>5. r.mask \in (SUBSET Bit) \ {{}} /\ r.tag \in Nat
  BY DEF Proper
<1> QED
  BY <1>2, <1>3, <1>4, <1>5 DEF Proper, Tagged

LEMMA SpreadRising ==
  ASSUME NEW r, NEW s, Spreads(r, s)
  PROVE  /\ [i \in DOMAIN s |-> Tagged(r.mask, Plus(r.lo, s[i].lo), Plus(r.hi, s[i].hi), r.tag)]
            = [i \in 1 .. Len(s) |-> Spread(r, s, i)]
         /\ Len([i \in 1 .. Len(s) |-> Spread(r, s, i)]) = Len(s)
         /\ Rising([i \in 1 .. Len(s) |-> Spread(r, s, i)], r.tag, r.mask)
<1> DEFINE n == Len(s)
           p == [i \in 1 .. n |-> Spread(r, s, i)]
<1>1. s \in Seq(Proper) /\ r \in Proper /\ n \in Nat /\ DOMAIN s = 1 .. n /\ \A i \in 1 .. n : s[i] \in Proper
  <2>1. s \in Seq(Proper)
    BY AllRelsRise DEF Spreads
  <2> QED BY <2>1, Members DEF Spreads
<1>2. \A i \in 1 .. n : r.hi + s[i].hi <= MaxRel
  BY DEF Spreads
<1>3. ASSUME NEW i \in 1 .. n
      PROVE  /\ Tagged(r.mask, Plus(r.lo, s[i].lo), Plus(r.hi, s[i].hi), r.tag) = Spread(r, s, i)
             /\ Spread(r, s, i) \in Proper
  BY <1>1, <1>2, SpreadRun DEF Spread
<1>4. [i \in DOMAIN s |-> Tagged(r.mask, Plus(r.lo, s[i].lo), Plus(r.hi, s[i].hi), r.tag)] = p
  BY <1>1, <1>3
<1>5. \A i, j \in 1 .. n : i < j => s[i].lo <= s[j].lo /\ s[i].hi <= s[j].hi
  BY AllRelsRise DEF Spreads
<1> HIDE DEF n
<1>6. p \in Seq(Proper) /\ Len(p) = n /\ \A i \in 1 .. n : p[i] = Spread(r, s, i)
  BY <1>1, <1>3
<1> HIDE DEF p
<1>7. \A i \in 1 .. n : p[i].tag = r.tag /\ p[i].mask = r.mask
                        /\ p[i].lo = r.lo + s[i].lo /\ p[i].hi = r.hi + s[i].hi
  BY <1>6 DEF Spread, Tagged
<1>8. ASSUME NEW i \in 1 .. n, NEW j \in 1 .. n, i < j
      PROVE  p[i].lo <= p[j].lo /\ p[i].hi <= p[j].hi
  <2>1. s[i].lo <= s[j].lo /\ s[i].hi <= s[j].hi
    BY <1>5, <1>8
  <2>2. /\ s[i].lo \in Nat /\ s[j].lo \in Nat /\ s[i].hi \in Nat /\ s[j].hi \in Nat
        /\ r.lo \in Nat /\ r.hi \in Nat
    BY <1>1, ProperRun
  <2>3. /\ p[i].lo = r.lo + s[i].lo /\ p[i].hi = r.hi + s[i].hi
        /\ p[j].lo = r.lo + s[j].lo /\ p[j].hi = r.hi + s[j].hi
    BY <1>7
  <2> QED BY <2>1, <2>2, <2>3
<1>9. Rising(p, r.tag, r.mask)
  BY <1>6, <1>7, <1>8 DEF Rising
<1> QED
  BY <1>4, <1>6, <1>9 DEF n, p

LEMMA IntervalSum ==
  ASSUME NEW a \in Nat, NEW b \in Nat, NEW c \in Nat, NEW d \in Nat, a <= b, c <= d,
         NEW w \in Nat, a + c <= w, w <= b + d
  PROVE  \E m \in Nat, k \in Nat : w = m + k /\ a <= m /\ m <= b /\ c <= k /\ k <= d
<1>1. CASE w - c <= b
  <2>1. w - c \in Nat /\ a <= w - c /\ w = (w - c) + c
    OBVIOUS
  <2> QED BY <1>1, <2>1
<1>2. CASE ~ (w - c <= b)
  <2>1. w - b \in Nat /\ c <= w - b /\ w - b <= d /\ w = b + (w - b)
    BY <1>2
  <2> QED BY <2>1
<1> QED
  BY <1>1, <1>2

LEMMA SpreadKeeps ==
  ASSUME NEW r, NEW s, Spreads(r, s)
  PROVE  /\ SpreadAll(r, s) \in Normals
         /\ \A w \in Rel, t \in Nat, b \in Bit :
              On(ToSet(SpreadAll(r, s)), w, t, b) <=>
                \E m \in Rel, k \in Rels(RunsMean(s)) : w = m + k /\ Covers(r, m, t, b)
<1> DEFINE n == Len(s)
           p == [i \in 1 .. n |-> Spread(r, s, i)]
           out == SpreadAll(r, s)
           R == Rels(RunsMean(s))
<1>1. s \in Seq(Proper) /\ r \in Proper /\ n \in Nat /\ \A i \in 1 .. n : s[i] \in Proper
  <2>1. s \in Seq(Proper)
    BY AllRelsRise DEF Spreads
  <2> QED BY <2>1, Members DEF Spreads
<1>2. out = FoldLeft(MergeOverlapping, <<>>, p) /\ Rising(p, r.tag, r.mask) /\ Len(p) = n
  <2>1. [i \in DOMAIN s |-> Tagged(r.mask, Plus(r.lo, s[i].lo), Plus(r.hi, s[i].hi), r.tag)] = p
    BY SpreadRising
  <2>2. Rising(p, r.tag, r.mask) /\ Len(p) = n
    BY SpreadRising
  <2> HIDE DEF p
  <2> QED BY <2>1, <2>2 DEF SpreadAll
<1>3. \A i \in 1 .. n : p[i] = Spread(r, s, i)
  OBVIOUS
<1>4. p \in Seq(Proper)
  BY <1>2 DEF Rising
<1> HIDE DEF p, out
<1>5. Lined(out, r.tag) /\ \A w \in Rel, b \in Bit : On(ToSet(out), w, r.tag, b) <=> On(ToSet(p), w, r.tag, b)
  BY <1>2, MergeLined
<1>6. out \in Normals /\ \A q \in ToSet(out) : q.tag = r.tag
  BY <1>5, LinedNormal DEF Normals
<1>7. \A w, b : On(ToSet(p), w, r.tag, b) <=> \E i \in 1 .. n : Covers(p[i], w, r.tag, b)
  BY <1>2, <1>4, OnPlaces
<1>8. r.lo \in Nat /\ r.hi \in Nat /\ r.lo <= r.hi /\ r.hi <= MaxRel
  BY <1>1, ProperRun
<1>9. \A i \in 1 .. n : s[i].lo \in Nat /\ s[i].hi \in Nat /\ s[i].lo <= s[i].hi /\ s[i].hi <= MaxRel
  BY <1>1, ProperRun
<1>10. R \subseteq Rel /\ \A w \in Rel : w \in R <=> \E i \in 1 .. n : Within(w, s[i])
  BY AllRelsRise DEF Spreads
<1>11. MaxRel \in Nat /\ \A w : w \in Rel <=> (w \in Nat /\ w <= MaxRel)
  BY NullSetsAssumption DEF Rel
<1> HIDE DEF n, R
<1>12. \A w, b : \A i \in 1 .. n : Covers(p[i], w, r.tag, b) <=>
                   (r.lo + s[i].lo <= w /\ w <= r.hi + s[i].hi /\ b \in r.mask)
  <2>1. \A i \in 1 .. n : /\ p[i].tag = r.tag /\ p[i].mask = r.mask
                          /\ p[i].lo = r.lo + s[i].lo /\ p[i].hi = r.hi + s[i].hi
    <3> SUFFICES ASSUME NEW i \in 1 .. n
                 PROVE  /\ p[i].tag = r.tag /\ p[i].mask = r.mask
                        /\ p[i].lo = r.lo + s[i].lo /\ p[i].hi = r.hi + s[i].hi
      OBVIOUS
    <3>1. p[i] = Spread(r, s, i)
      BY <1>3
    <3> QED BY <3>1 DEF Spread, Tagged
  <2> QED BY <2>1 DEF Covers
<1>13. ASSUME NEW w \in Rel, NEW t \in Nat, NEW b \in Bit, On(ToSet(out), w, t, b)
       PROVE  \E m \in Rel, k \in R : w = m + k /\ Covers(r, m, t, b)
  <2>1. t = r.tag
    BY <1>6, <1>13 DEF On, Covers
  <2>2. On(ToSet(p), w, r.tag, b)
    BY <1>5, <1>13, <2>1
  <2>3. PICK i \in 1 .. n : Covers(p[i], w, r.tag, b)
    BY <1>7, <2>2
  <2>4. r.lo + s[i].lo <= w /\ w <= r.hi + s[i].hi /\ b \in r.mask
    BY <1>12, <2>3
  <2>5. w \in Nat
    BY <1>11
  <2>6. PICK m \in Nat, k \in Nat : w = m + k /\ r.lo <= m /\ m <= r.hi /\ s[i].lo <= k /\ k <= s[i].hi
    <3> DEFINE c == s[i].lo
               d == s[i].hi
    <3>1. c \in Nat /\ d \in Nat /\ c <= d
      BY <1>9
    <3>2. r.lo + c <= w /\ w <= r.hi + d
      BY <2>4
    <3> HIDE DEF c, d
    <3>3. \E m \in Nat, k \in Nat : w = m + k /\ r.lo <= m /\ m <= r.hi /\ c <= k /\ k <= d
      BY <1>8, <2>5, <3>1, <3>2, IntervalSum
    <3> QED BY <3>3 DEF c, d
  <2>7. m \in Rel /\ k \in Rel
    BY <1>8, <1>9, <1>11, <2>6
  <2>8. k \in R
    BY <1>10, <2>6, <2>7 DEF Within
  <2>9. Covers(r, m, t, b)
    BY <2>1, <2>4, <2>6 DEF Covers
  <2> QED BY <2>6, <2>7, <2>8, <2>9
<1>14. ASSUME NEW w \in Rel, NEW t \in Nat, NEW b \in Bit, NEW m \in Rel, NEW k \in R,
              w = m + k, Covers(r, m, t, b)
       PROVE  On(ToSet(out), w, t, b)
  <2>1. t = r.tag /\ r.lo <= m /\ m <= r.hi /\ b \in r.mask
    BY <1>14 DEF Covers
  <2>2. PICK i \in 1 .. n : s[i].lo <= k /\ k <= s[i].hi
    BY <1>10 DEF Within
  <2>3. r.lo + s[i].lo <= w /\ w <= r.hi + s[i].hi
    <3>1. m \in Nat /\ k \in Nat
      BY <1>10, <1>11
    <3> QED BY <1>8, <1>9, <1>14, <2>1, <2>2, <3>1
  <2>4. On(ToSet(p), w, r.tag, b)
    BY <1>7, <1>12, <2>1, <2>3
  <2> QED BY <1>5, <2>1, <2>4
<1> QED
  BY <1>6, <1>13, <1>14 DEF out, R

LEMMA UnionShiftedMean ==
  ASSUME NEW body, Normal(body), NEW s, AllRels(s),
         \A i \in 1 .. Len(body), j \in 1 .. Len(s) : body[i].hi + s[j].hi <= MaxRel
  PROVE  /\ Normal(UnionShiftedRuns(body, s))
         /\ RunsMean(UnionShiftedRuns(body, s)) = ShiftMeans(RunsMean(body), Rels(RunsMean(s)))
<1> DEFINE n == Len(body)
           N == RunsMean(body)
           R == Rels(RunsMean(s))
           p == [i \in 1 .. n |-> SpreadAll(body[i], s)]
           out == UnionShiftedRuns(body, s)
           M == ShiftMeans(N, R)
<1>1. body \in Seq(Proper) /\ n \in Nat /\ DOMAIN body = 1 .. n /\ \A i \in 1 .. n : body[i] \in Proper
  BY NormalFacts, Members
<1>2. \A i \in 1 .. n : Spreads(body[i], s)
  BY <1>1 DEF Spreads
<1>3. \A i \in 1 .. n : SpreadAll(body[i], s) \in Normals
  BY <1>2, SpreadKeeps
<1>4. p \in Seq(Normals) /\ Len(p) = n /\ \A i \in 1 .. n : p[i] = SpreadAll(body[i], s)
  <2> HIDE DEF n
  <2> QED BY <1>1, <1>3
<1>5. out = FoldLeft(OrRuns, <<>>, p)
  <2>1. [i \in DOMAIN body |-> SpreadAll(body[i], s)] = p
    BY <1>1
  <2> HIDE DEF p
  <2>2. out = FoldLeft(OrRuns, <<>>, [i \in DOMAIN body |-> SpreadAll(body[i], s)])
    BY DEF UnionShiftedRuns, SpreadAll
  <2> QED BY <2>1, <2>2
<1> HIDE DEF p, out
<1>6. /\ Normal(out)
      /\ \A w \in Rel, t \in Nat, b \in Bit :
           On(ToSet(out), w, t, b) <=> \E i \in 1 .. n : On(ToSet(p[i]), w, t, b)
  BY <1>4, <1>5, OrLine DEF Normals
<1>7. ASSUME NEW w \in Rel, NEW t \in Nat, NEW b \in Bit
      PROVE  On(ToSet(out), w, t, b) <=> \E m \in Rel, k \in R : w = m + k /\ On(ToSet(body), m, t, b)
  <2>1. ASSUME NEW i \in 1 .. n
        PROVE  On(ToSet(p[i]), w, t, b) <=> \E m \in Rel, k \in R : w = m + k /\ Covers(body[i], m, t, b)
    BY <1>2, <1>4, SpreadKeeps
  <2>2. \A m : On(ToSet(body), m, t, b) <=> \E i \in 1 .. n : Covers(body[i], m, t, b)
    BY <1>1, OnPlaces
  <2> HIDE DEF n, R
  <2> QED BY <1>6, <2>1, <2>2
<1>8. R \subseteq Rel /\ MaxRel \in Nat /\ \A w : w \in Rel <=> (w \in Nat /\ w <= MaxRel)
  BY AllRelsRise, NullSetsAssumption DEF Rel
<1>9. /\ \A x \in N : \E w \in Rel, t \in Nat, b \in Bit : x = <<w, t, b>>
      /\ \A w \in Rel, t \in Nat, b \in Bit : <<w, t, b>> \in N <=> On(ToSet(body), w, t, b)
  BY MeanPlaces
<1>10. M = {<<x[1] + d, x[2], x[3]>> : x \in N, d \in R}
  BY DEF ShiftMeans
<1>11. ASSUME NEW m \in Rel, NEW t \in Nat, NEW b \in Bit, <<m, t, b>> \in N, NEW k \in R
       PROVE  m + k \in Rel
  <2>1. PICK i \in 1 .. n : Covers(body[i], m, t, b)
    <3>1. On(ToSet(body), m, t, b)
      BY <1>9, <1>11
    <3> QED BY <1>1, <3>1, OnPlaces
  <2>2. PICK j \in 1 .. Len(s) : Within(k, s[j])
    BY <1>8, AllRelsRise
  <2>3. body[i].hi + s[j].hi <= MaxRel /\ m <= body[i].hi /\ k <= s[j].hi
    BY <2>1, <2>2 DEF Covers, Within
  <2>4. body[i].hi \in Nat /\ s[j].hi \in Nat
    <3>1. s[j] \in Proper
      BY AllRelsRise, Members
    <3> QED BY <1>1, <3>1, ProperRun
  <2>5. m \in Nat /\ k \in Nat
    BY <1>8
  <2>6. m + k \in Nat /\ m + k <= MaxRel
    <3> HIDE DEF R, n
    <3> QED BY <1>8, <2>3, <2>4, <2>5
  <2> QED BY <1>8, <2>6
<1> HIDE DEF N, R, M
<1>12. M \in SUBSET Places
  <2> SUFFICES ASSUME NEW x \in N, NEW d \in R PROVE <<x[1] + d, x[2], x[3]>> \in Places
    BY <1>10
  <2>1. PICK w \in Rel, t \in Nat, b \in Bit : x = <<w, t, b>>
    BY <1>9
  <2> QED BY <1>11, <2>1 DEF Places
<1>13. ASSUME NEW w \in Rel, NEW t \in Nat, NEW b \in Bit
       PROVE  <<w, t, b>> \in M <=> On(ToSet(out), w, t, b)
  <2>1. ASSUME <<w, t, b>> \in M PROVE On(ToSet(out), w, t, b)
    <3>1. PICK x \in N, d \in R : <<w, t, b>> = <<x[1] + d, x[2], x[3]>>
      BY <1>10, <2>1
    <3>2. PICK w1 \in Rel, t1 \in Nat, b1 \in Bit : x = <<w1, t1, b1>>
      BY <1>9
    <3>3. w = w1 + d /\ t = t1 /\ b = b1
      BY <3>1, <3>2
    <3>4. On(ToSet(body), w1, t, b)
      BY <1>9, <3>2, <3>3
    <3> QED BY <1>7, <3>3, <3>4
  <2>2. ASSUME On(ToSet(out), w, t, b) PROVE <<w, t, b>> \in M
    <3>1. PICK m \in Rel, k \in R : w = m + k /\ On(ToSet(body), m, t, b)
      BY <1>7, <2>2
    <3> DEFINE x == <<m, t, b>>
    <3>2. x \in N /\ <<x[1] + k, x[2], x[3]>> = <<w, t, b>>
      BY <1>9, <3>1
    <3> HIDE DEF x
    <3> QED BY <1>10, <3>2
  <2> QED BY <2>1, <2>2
<1>14. RunsMean(out) = M
  BY <1>6, <1>12, <1>13, MeansThat
<1> QED
  BY <1>6, <1>14 DEF out, M, N, R

-----------------------------------------------------------------------------
(* Chains: runs one beyond the other, whatever their tags, and how they    *)
(* grow at an end.                                                         *)
Follows(r, s) == r.hi < s.lo /\ (Alike(r, s) => r.hi + 1 < s.lo)
Chain(v) ==
  /\ v \in Seq(Proper) /\ v # <<>>
  /\ \A i, j \in 1 .. Len(v) : i < j => Follows(v[i], v[j])

LEMMA ChainFacts ==
  ASSUME NEW v, Chain(v)
  PROVE  /\ v \in Seq(Proper) /\ Len(v) \in Nat /\ Len(v) >= 1
         /\ 1 \in 1 .. Len(v) /\ Len(v) \in 1 .. Len(v) /\ DOMAIN v = 1 .. Len(v)
         /\ \A i \in 1 .. Len(v) : /\ v[i] \in Proper /\ v[i].lo \in Nat /\ v[i].hi \in Nat
                                   /\ v[i].lo <= v[i].hi /\ v[1].lo <= v[i].lo
                                   /\ v[i].hi <= v[Len(v)].hi
<1> DEFINE n == Len(v)
<1>1. v \in Seq(Proper) /\ n \in Nat /\ DOMAIN v = 1 .. n /\ n # 0 /\ \A i \in 1 .. n : v[i] \in Proper
  BY Members DEF Chain
<1>2. \A i, j \in 1 .. n : i < j => v[i].hi < v[j].lo
  BY DEF Chain, Follows
<1> HIDE DEF n
<1>3. n >= 1 /\ 1 \in 1 .. n /\ n \in 1 .. n
  BY <1>1
<1>4. \A i \in 1 .. n : v[i].lo \in Nat /\ v[i].hi \in Nat /\ v[i].lo <= v[i].hi
  BY <1>1, ProperRun
<1>5. ASSUME NEW i \in 1 .. n PROVE v[1].lo <= v[i].lo /\ v[i].hi <= v[n].hi
  <2>1. i = 1 \/ 1 < i
    BY <1>1
  <2>2. v[1].lo <= v[i].lo
    BY <1>2, <1>3, <1>4, <2>1
  <2>3. i = n \/ i < n
    BY <1>1
  <2>4. v[i].hi <= v[n].hi
    BY <1>2, <1>3, <1>4, <2>3
  <2> QED BY <2>2, <2>4
<1> QED
  BY <1>1, <1>3, <1>4, <1>5 DEF n

LEMMA ChainNormal ==
  ASSUME NEW v, Chain(v)
  PROVE  Normal(v)
<1> DEFINE n == Len(v)
<1>1. v \in Seq(Proper) /\ n \in Nat /\ \A x \in ToSet(v) : \E i \in 1 .. n : x = v[i]
  BY Members DEF Chain
<1>2. \A i \in 1 .. n : v[i].lo \in Nat /\ v[i].hi \in Nat /\ v[i].lo <= v[i].hi
  BY ChainFacts
<1>3. \A i, j \in 1 .. n : i < j => Follows(v[i], v[j])
  BY DEF Chain
<1> HIDE DEF n
<1>4. ASSUME NEW i \in 1 .. n, NEW j \in 1 .. n, i < j PROVE Before(v[i], v[j])
  <2>1. v[i].hi < v[j].lo
    BY <1>3, <1>4 DEF Follows
  <2> QED BY <1>2, <2>1 DEF Before
<1>5. Apart(ToSet(v))
  <2> SUFFICES ASSUME NEW r \in ToSet(v), NEW s \in ToSet(v), r.tag = s.tag, r # s
               PROVE  Clear(r, s) \/ Clear(s, r)
    BY DEF Apart
  <2>1. PICK i \in 1 .. n, j \in 1 .. n : r = v[i] /\ s = v[j]
    BY <1>1
  <2>2. i # j
    BY <2>1
  <2>3. i < j \/ j < i
    BY <1>1, <2>2
  <2> QED BY <1>3, <2>1, <2>3 DEF Follows, Alike, Clear
<1> QED
  BY <1>1, <1>4, <1>5 DEF Normal, Sorted, n

LEMMA OneChain ==
  ASSUME NEW r \in Proper
  PROVE  /\ Chain(<<r>>) /\ Len(<<r>>) = 1 /\ <<r>>[1] = r
         /\ \A w, t, b : On(ToSet(<<r>>), w, t, b) <=> Covers(r, w, t, b)
<1>1. <<r>> \in Seq(Proper) /\ Len(<<r>>) = 1 /\ <<r>>[1] = r /\ <<r>> # <<>>
  OBVIOUS
<1>2. \A i, j \in 1 .. 1 : ~ (i < j)
  OBVIOUS
<1>3. Chain(<<r>>)
  BY <1>1, <1>2 DEF Chain
<1>4. \A w, t, b : On(ToSet(<<r>>), w, t, b) <=> \E i \in 1 .. 1 : Covers(<<r>>[i], w, t, b)
  BY <1>1, OnPlaces
<1> QED
  BY <1>1, <1>3, <1>4

(* A run beyond the first of a chain, or touching it.                      *)
LEMMA ChainFront ==
  ASSUME NEW v, Chain(v), NEW r \in Proper, Follows(r, v[1])
  PROVE  /\ Chain(<<r>> \o v) /\ Len(<<r>> \o v) = Len(v) + 1
         /\ (<<r>> \o v)[1] = r /\ (<<r>> \o v)[Len(v) + 1] = v[Len(v)]
         /\ \A w, t, b : On(ToSet(<<r>> \o v), w, t, b) <=> (On(ToSet(v), w, t, b) \/ Covers(r, w, t, b))
<1> DEFINE n == Len(v)
           q == <<r>> \o v
<1>1. /\ v \in Seq(Proper) /\ n \in Nat /\ n >= 1 /\ 1 \in 1 .. n
      /\ \A i \in 1 .. n : v[i].lo \in Nat /\ v[i].hi \in Nat /\ v[i].lo <= v[i].hi
  BY ChainFacts
<1>2. <<r>> \in Seq(Proper) /\ Len(<<r>>) = 1 /\ <<r>>[1] = r
  OBVIOUS
<1>3. \A i, j \in 1 .. n : i < j => Follows(v[i], v[j])
  BY DEF Chain
<1> HIDE DEF n
<1>4. q \in Seq(Proper) /\ Len(q) = n + 1 /\ \A i \in 1 .. n + 1 : q[i] = IF i <= 1 THEN r ELSE v[i - 1]
  BY <1>1, <1>2, ConcatProperties DEF n
<1> HIDE DEF q
<1>5. q[1] = r /\ \A i \in 1 .. n : i + 1 \in 1 .. n + 1 /\ q[i + 1] = v[i]
  BY <1>1, <1>4
<1>6. \A i \in 1 .. n + 1 : i = 1 \/ (i - 1 \in 1 .. n /\ q[i] = v[i - 1])
  BY <1>1, <1>4
<1>7. ASSUME NEW j \in 1 .. n PROVE Follows(r, v[j])
  <2>1. CASE j = 1
    BY <2>1
  <2>2. CASE j # 1
    <3>1. v[1].hi < v[j].lo
      BY <1>1, <1>3, <2>2 DEF Follows
    <3>2. r.hi < v[1].lo /\ v[1].lo <= v[1].hi /\ r.hi \in Nat
      BY <1>1, ProperRun DEF Follows
    <3>3. r.hi + 1 < v[j].lo /\ r.hi < v[j].lo
      <4>1. v[1].lo \in Nat /\ v[1].hi \in Nat /\ v[j].lo \in Nat
        BY <1>1
      <4> QED BY <3>1, <3>2, <4>1, BeyondNext
    <3> QED BY <3>3 DEF Follows
  <2> QED BY <2>1, <2>2
<1>8. ASSUME NEW i \in 1 .. n + 1, NEW j \in 1 .. n + 1, i < j PROVE Follows(q[i], q[j])
  <2>1. j # 1 /\ j - 1 \in 1 .. n /\ q[j] = v[j - 1]
    BY <1>1, <1>6, <1>8
  <2>2. CASE i = 1
    BY <1>5, <1>7, <2>1, <2>2
  <2>3. CASE i # 1
    <3>1. i - 1 \in 1 .. n /\ q[i] = v[i - 1] /\ i - 1 < j - 1
      BY <1>1, <1>6, <1>8, <2>3
    <3> QED BY <1>3, <2>1, <3>1
  <2> QED BY <2>2, <2>3
<1>9. q # <<>>
  BY <1>1, <1>4
<1>10. Chain(q)
  BY <1>4, <1>8, <1>9 DEF Chain
<1>11. q[n + 1] = v[n]
  BY <1>1, <1>5
<1>12. ASSUME NEW w, NEW t, NEW b
       PROVE  On(ToSet(q), w, t, b) <=> (On(ToSet(v), w, t, b) \/ Covers(r, w, t, b))
  <2>1. On(ToSet(q), w, t, b) <=> \E i \in 1 .. n + 1 : Covers(q[i], w, t, b)
    BY <1>4, OnPlaces
  <2>2. On(ToSet(v), w, t, b) <=> \E i \in 1 .. n : Covers(v[i], w, t, b)
    BY <1>1, OnPlaces DEF n
  <2>3. 1 \in 1 .. n + 1
    BY <1>1
  <2> QED BY <1>5, <1>6, <2>1, <2>2, <2>3
<1> QED
  BY <1>4, <1>5, <1>10, <1>11, <1>12 DEF n, q

LEMMA ChainBack ==
  ASSUME NEW v, Chain(v), NEW r \in Proper, Follows(v[Len(v)], r)
  PROVE  /\ Chain(Append(v, r)) /\ Len(Append(v, r)) = Len(v) + 1
         /\ Append(v, r)[1] = v[1] /\ Append(v, r)[Len(v) + 1] = r
         /\ \A w, t, b : On(ToSet(Append(v, r)), w, t, b) <=> (On(ToSet(v), w, t, b) \/ Covers(r, w, t, b))
<1> DEFINE n == Len(v)
           q == Append(v, r)
<1>1. /\ v \in Seq(Proper) /\ n \in Nat /\ n >= 1 /\ 1 \in 1 .. n /\ n \in 1 .. n
      /\ \A i \in 1 .. n : v[i].lo \in Nat /\ v[i].hi \in Nat /\ v[i].lo <= v[i].hi
  BY ChainFacts
<1>2. \A i, j \in 1 .. n : i < j => Follows(v[i], v[j])
  BY DEF Chain
<1> HIDE DEF n
<1>3. /\ q \in Seq(Proper) /\ q # <<>> /\ Len(q) = n + 1 /\ q[n + 1] = r
      /\ \A i \in 1 .. n : q[i] = v[i]
  BY <1>1, AppendProperties DEF n
<1> HIDE DEF q
<1>4. \A i \in 1 .. n + 1 : i = n + 1 \/ i \in 1 .. n
  BY <1>1
<1>5. ASSUME NEW i \in 1 .. n PROVE Follows(v[i], r)
  <2>1. CASE i = n
    BY <2>1 DEF n
  <2>2. CASE i # n
    <3>1. v[i].hi < v[n].lo
      BY <1>1, <1>2, <2>2 DEF Follows
    <3>2. v[n].hi < r.lo /\ v[n].lo <= v[n].hi /\ r.lo \in Nat
      BY <1>1, ProperRun DEF Follows, n
    <3>3. v[i].hi + 1 < r.lo /\ v[i].hi < r.lo
      <4>1. v[n].lo \in Nat /\ v[n].hi \in Nat /\ v[i].hi \in Nat
        BY <1>1
      <4> QED BY <3>1, <3>2, <4>1, BeyondNext
    <3> QED BY <3>3 DEF Follows
  <2> QED BY <2>1, <2>2
<1>6. ASSUME NEW i \in 1 .. n + 1, NEW j \in 1 .. n + 1, i < j PROVE Follows(q[i], q[j])
  <2>1. i \in 1 .. n /\ q[i] = v[i]
    BY <1>1, <1>3, <1>6
  <2>2. CASE j = n + 1
    BY <1>3, <1>5, <2>1, <2>2
  <2>3. CASE j \in 1 .. n
    BY <1>2, <1>3, <1>6, <2>1, <2>3
  <2> QED BY <1>4, <2>2, <2>3
<1>7. Chain(q)
  BY <1>3, <1>6 DEF Chain
<1>8. ASSUME NEW w, NEW t, NEW b
      PROVE  On(ToSet(q), w, t, b) <=> (On(ToSet(v), w, t, b) \/ Covers(r, w, t, b))
  <2>1. On(ToSet(q), w, t, b) <=> \E i \in 1 .. n + 1 : Covers(q[i], w, t, b)
    BY <1>3, OnPlaces
  <2>2. On(ToSet(v), w, t, b) <=> \E i \in 1 .. n : Covers(v[i], w, t, b)
    BY <1>1, OnPlaces DEF n
  <2>3. n + 1 \in 1 .. n + 1 /\ 1 .. n \subseteq 1 .. n + 1
    BY <1>1
  <2> QED BY <1>3, <1>4, <2>1, <2>2, <2>3
<1> QED
  BY <1>1, <1>3, <1>7, <1>8 DEF n, q

(* One of its ends stretched: put(v, i, e) is v with e at place i.         *)
Put(v, i, e) == [v EXCEPT ![i] = e]
Lower(r, lo) == [r EXCEPT !.lo = lo]
Raise(r, hi) == [r EXCEPT !.hi = hi]

LEMMA ChainLower ==
  ASSUME NEW v, Chain(v), NEW r \in Proper, Alike(r, v[1]), r.hi + 1 = v[1].lo
  PROVE  /\ Chain(Put(v, 1, Lower(v[1], r.lo))) /\ Len(Put(v, 1, Lower(v[1], r.lo))) = Len(v)
         /\ Put(v, 1, Lower(v[1], r.lo))[1].lo = r.lo
         /\ Put(v, 1, Lower(v[1], r.lo))[Len(v)].hi = v[Len(v)].hi
         /\ \A w \in Nat : \A t, b : On(ToSet(Put(v, 1, Lower(v[1], r.lo))), w, t, b) <=>
                                       (On(ToSet(v), w, t, b) \/ Covers(r, w, t, b))
<1> DEFINE n == Len(v)
           e == Lower(v[1], r.lo)
           q == Put(v, 1, e)
<1>1. /\ v \in Seq(Proper) /\ n \in Nat /\ n >= 1 /\ 1 \in 1 .. n /\ n \in 1 .. n
      /\ \A i \in 1 .. n : v[i] \in Proper /\ v[i].lo \in Nat /\ v[i].hi \in Nat /\ v[i].lo <= v[i].hi
  BY ChainFacts
<1>2. \A i, j \in 1 .. n : i < j => Follows(v[i], v[j])
  BY DEF Chain
<1>3. r.lo \in Nat /\ r.hi \in Nat /\ r.lo <= r.hi /\ r.lo \in Rel
  BY ProperRun
<1> HIDE DEF n
<1>4. r.lo <= v[1].hi /\ r.lo <= v[1].lo
  BY <1>1, <1>3
<1>5. e \in Proper /\ e.lo = r.lo /\ e.hi = v[1].hi /\ e.mask = v[1].mask /\ e.tag = v[1].tag
  BY <1>1, <1>3, <1>4 DEF Lower, Proper
<1> HIDE DEF e
<1>6. q \in Seq(Proper) /\ Len(q) = n /\ \A i \in 1 .. n : q[i] = IF i = 1 THEN e ELSE v[i]
  BY <1>1, <1>5, ExceptSeq DEF Put, n
<1> HIDE DEF q
<1>7. ASSUME NEW i \in 1 .. n, NEW j \in 1 .. n, i < j PROVE Follows(q[i], q[j])
  <2>1. Follows(v[i], v[j]) /\ q[j] = v[j]
    BY <1>1, <1>2, <1>6, <1>7
  <2>2. CASE i = 1
    BY <1>5, <1>6, <2>1, <2>2 DEF Follows, Alike
  <2>3. CASE i # 1
    BY <1>6, <2>1, <2>3
  <2> QED BY <2>2, <2>3
<1>8. q # <<>>
  BY <1>1, <1>6
<1>9. Chain(q)
  BY <1>6, <1>7, <1>8 DEF Chain
<1>10. q[1].lo = r.lo /\ q[n].hi = v[n].hi
  BY <1>1, <1>5, <1>6
<1>11. ASSUME NEW w \in Nat, NEW t, NEW b
       PROVE  On(ToSet(q), w, t, b) <=> (On(ToSet(v), w, t, b) \/ Covers(r, w, t, b))
  <2>1. On(ToSet(q), w, t, b) <=> \E i \in 1 .. n : Covers(q[i], w, t, b)
    BY <1>6, OnPlaces
  <2>2. On(ToSet(v), w, t, b) <=> \E i \in 1 .. n : Covers(v[i], w, t, b)
    BY <1>1, OnPlaces DEF n
  <2>3. Covers(e, w, t, b) <=> (Covers(v[1], w, t, b) \/ Covers(r, w, t, b))
    <3>1. (e.lo <= w /\ w <= e.hi) <=> ((v[1].lo <= w /\ w <= v[1].hi) \/ (r.lo <= w /\ w <= r.hi))
      BY <1>1, <1>3, <1>4, <1>5
    <3>2. v[1].mask = r.mask /\ v[1].tag = r.tag
      BY DEF Alike
    <3> QED BY <1>5, <3>1, <3>2 DEF Covers
  <2> QED BY <1>1, <1>6, <2>1, <2>2, <2>3
<1> QED
  BY <1>6, <1>9, <1>10, <1>11 DEF n, q, e

LEMMA ChainRaise ==
  ASSUME NEW v, Chain(v), NEW r \in Proper, Alike(r, v[Len(v)]), r.lo = v[Len(v)].hi + 1
  PROVE  /\ Chain(Put(v, Len(v), Raise(v[Len(v)], r.hi)))
         /\ Len(Put(v, Len(v), Raise(v[Len(v)], r.hi))) = Len(v)
         /\ Put(v, Len(v), Raise(v[Len(v)], r.hi))[1].lo = v[1].lo
         /\ Put(v, Len(v), Raise(v[Len(v)], r.hi))[Len(v)].hi = r.hi
         /\ \A w \in Nat : \A t, b : On(ToSet(Put(v, Len(v), Raise(v[Len(v)], r.hi))), w, t, b) <=>
                                       (On(ToSet(v), w, t, b) \/ Covers(r, w, t, b))
<1> DEFINE n == Len(v)
           e == Raise(v[n], r.hi)
           q == Put(v, n, e)
<1>1. /\ v \in Seq(Proper) /\ n \in Nat /\ n >= 1 /\ 1 \in 1 .. n /\ n \in 1 .. n
      /\ \A i \in 1 .. n : v[i] \in Proper /\ v[i].lo \in Nat /\ v[i].hi \in Nat /\ v[i].lo <= v[i].hi
  BY ChainFacts
<1>2. \A i, j \in 1 .. n : i < j => Follows(v[i], v[j])
  BY DEF Chain
<1>3. r.lo \in Nat /\ r.hi \in Nat /\ r.lo <= r.hi /\ r.hi \in Rel
  BY ProperRun
<1>0. Alike(r, v[n]) /\ r.lo = v[n].hi + 1
  OBVIOUS
<1> HIDE DEF n
<1>4. v[n].lo <= r.hi /\ v[n].hi <= r.hi
  BY <1>0, <1>1, <1>3
<1>5. e \in Proper /\ e.lo = v[n].lo /\ e.hi = r.hi /\ e.mask = v[n].mask /\ e.tag = v[n].tag
  BY <1>1, <1>3, <1>4 DEF Raise, Proper
<1> HIDE DEF e
<1>6. q \in Seq(Proper) /\ Len(q) = n /\ \A i \in 1 .. n : q[i] = IF i = n THEN e ELSE v[i]
  BY <1>1, <1>5, ExceptSeq DEF Put, n
<1> HIDE DEF q
<1>7. ASSUME NEW i \in 1 .. n, NEW j \in 1 .. n, i < j PROVE Follows(q[i], q[j])
  <2>1. Follows(v[i], v[j]) /\ q[i] = v[i]
    BY <1>1, <1>2, <1>6, <1>7
  <2>2. CASE j = n
    BY <1>5, <1>6, <2>1, <2>2 DEF Follows, Alike
  <2>3. CASE j # n
    BY <1>6, <2>1, <2>3
  <2> QED BY <2>2, <2>3
<1>8. q # <<>>
  BY <1>1, <1>6
<1>9. Chain(q)
  BY <1>6, <1>7, <1>8 DEF Chain
<1>10. q[1].lo = v[1].lo /\ q[n].hi = r.hi
  BY <1>1, <1>5, <1>6
<1>11. ASSUME NEW w \in Nat, NEW t, NEW b
       PROVE  On(ToSet(q), w, t, b) <=> (On(ToSet(v), w, t, b) \/ Covers(r, w, t, b))
  <2>1. On(ToSet(q), w, t, b) <=> \E i \in 1 .. n : Covers(q[i], w, t, b)
    BY <1>6, OnPlaces
  <2>2. On(ToSet(v), w, t, b) <=> \E i \in 1 .. n : Covers(v[i], w, t, b)
    BY <1>1, OnPlaces DEF n
  <2>3. Covers(e, w, t, b) <=> (Covers(v[n], w, t, b) \/ Covers(r, w, t, b))
    <3>1. (e.lo <= w /\ w <= e.hi) <=> ((v[n].lo <= w /\ w <= v[n].hi) \/ (r.lo <= w /\ w <= r.hi))
      BY <1>0, <1>1, <1>3, <1>4, <1>5
    <3>2. v[n].mask = r.mask /\ v[n].tag = r.tag
      BY <1>0 DEF Alike
    <3> QED BY <1>5, <3>1, <3>2 DEF Covers
  <2> QED BY <1>1, <1>6, <2>1, <2>2, <2>3
<1> QED
  BY <1>6, <1>9, <1>10, <1>11 DEF n, q, e

-----------------------------------------------------------------------------
(* The list form: its runs from the lowest are a chain, and it knows how   *)
(* far they reach.                                                         *)
ListRec == [asc : BOOLEAN, runs : Seq(Proper), min : Nat, max : Nat]
ListOK(l) ==
  /\ l \in ListRec /\ Chain(ToVec(l))
  /\ l.min = ToVec(l)[1].lo /\ l.max = ToVec(l)[Len(ToVec(l))].hi

LEMMA ReverseIs ==
  ASSUME NEW V, NEW s \in Seq(V)
  PROVE  /\ Reverse(s) \in Seq(V) /\ Len(Reverse(s)) = Len(s) /\ ToSet(Reverse(s)) = ToSet(s)
         /\ \A i \in 1 .. Len(s) : Reverse(s)[i] = s[(Len(s) - i) + 1] /\ (Len(s) - i) + 1 \in 1 .. Len(s)
<1> DEFINE n == Len(s)
           q == Reverse(s)
<1>1. n \in Nat /\ \A i \in 1 .. n : s[i] \in V
  BY Members
<1>2. q = [i \in 1 .. n |-> s[(n - i) + 1]]
  BY DEF Reverse
<1> HIDE DEF n, q
<1>3. \A i \in 1 .. n : (n - i) + 1 \in 1 .. n /\ q[i] = s[(n - i) + 1] /\ q[i] \in V
  <2>1. \A i \in 1 .. n : (n - i) + 1 \in 1 .. n
    BY <1>1
  <2> QED BY <1>1, <1>2, <2>1
<1>4. q \in Seq(V) /\ Len(q) = n
  <2>1. q \in [1 .. n -> V]
    <3>1. q = [i \in 1 .. n |-> q[i]]
      BY <1>2
    <3> QED BY <1>3, <3>1
  <2> QED BY <1>1, <2>1
<1>5. \A x : x \in ToSet(q) <=> \E i \in 1 .. n : x = q[i]
  BY <1>4, Members
<1>6. \A x : x \in ToSet(s) <=> \E i \in 1 .. n : x = s[i]
  BY Members DEF n
<1>7. \A i \in 1 .. n : s[i] = q[(n - i) + 1]
  <2> SUFFICES ASSUME NEW i \in 1 .. n PROVE s[i] = q[(n - i) + 1]
    OBVIOUS
  <2> DEFINE j == (n - i) + 1
  <2>1. j \in 1 .. n /\ (n - j) + 1 = i
    BY <1>1
  <2> HIDE DEF j
  <2>2. q[j] = s[(n - j) + 1]
    BY <1>3, <2>1
  <2> QED BY <2>1, <2>2 DEF j
<1>8. ToSet(q) = ToSet(s)
  BY <1>3, <1>5, <1>6, <1>7
<1> QED
  BY <1>3, <1>4, <1>8 DEF n, q

LEMMA ReverseFront ==
  ASSUME NEW V, NEW s \in Seq(V), NEW r \in V
  PROVE  Reverse(<<r>> \o s) = Append(Reverse(s), r)
<1> DEFINE n == Len(s)
           p == <<r>> \o s
           q == Reverse(p)
           a == Append(Reverse(s), r)
<1>1. <<r>> \in Seq(V) /\ Len(<<r>>) = 1 /\ <<r>>[1] = r /\ n \in Nat
  BY Members
<1> HIDE DEF n
<1>2. p \in Seq(V) /\ Len(p) = n + 1 /\ \A i \in 1 .. n + 1 : p[i] = IF i <= 1 THEN r ELSE s[i - 1]
  BY <1>1, ConcatProperties DEF n
<1> HIDE DEF p
<1>3. q \in Seq(V) /\ Len(q) = n + 1 /\ \A i \in 1 .. n + 1 : q[i] = p[((n + 1) - i) + 1]
  BY <1>2, ReverseIs
<1>4. Reverse(s) \in Seq(V) /\ Len(Reverse(s)) = n /\ \A i \in 1 .. n : Reverse(s)[i] = s[(n - i) + 1]
  BY ReverseIs DEF n
<1>5. /\ a \in Seq(V) /\ Len(a) = n + 1 /\ a[n + 1] = r
      /\ \A i \in 1 .. n : a[i] = s[(n - i) + 1]
  <2> DEFINE z == Reverse(s)
  <2>1. z \in Seq(V) /\ Len(z) = n /\ \A i \in 1 .. n : z[i] = s[(n - i) + 1]
    BY <1>4
  <2> HIDE DEF z
  <2>2. /\ Append(z, r) \in Seq(V) /\ Len(Append(z, r)) = n + 1 /\ Append(z, r)[n + 1] = r
        /\ \A i \in 1 .. n : Append(z, r)[i] = z[i]
    BY <2>1, AppendProperties
  <2> QED BY <2>1, <2>2 DEF z
<1> HIDE DEF q, a
<1>6. ASSUME NEW i \in 1 .. n + 1 PROVE q[i] = a[i]
  <2>1. CASE i = n + 1
    <3> DEFINE j == ((n + 1) - i) + 1
    <3>1. j = 1 /\ 1 \in 1 .. n + 1
      BY <1>1, <2>1
    <3>2. q[i] = p[j]
      BY <1>3
    <3> HIDE DEF j
    <3>3. p[1] = r
      BY <1>2, <3>1
    <3> QED BY <1>5, <2>1, <3>1, <3>2, <3>3
  <2>2. CASE i # n + 1
    <3> DEFINE j == ((n + 1) - i) + 1
    <3>1. i \in 1 .. n /\ j \in 1 .. n + 1 /\ ~ (j <= 1) /\ j - 1 = (n - i) + 1
      BY <1>1, <2>2
    <3>2. q[i] = p[j]
      BY <1>3
    <3> HIDE DEF j
    <3>3. p[j] = s[j - 1]
      BY <1>2, <3>1
    <3> QED BY <1>5, <3>1, <3>2, <3>3
  <2> QED BY <2>1, <2>2
<1>7. q = a
  BY <1>3, <1>5, <1>6, SeqEqual
<1> QED
  BY <1>7 DEF q, p, a

LEMMA ReversePut ==
  ASSUME NEW V, NEW s \in Seq(V), s # <<>>, NEW e \in V
  PROVE  Reverse(Put(s, 1, e)) = Put(Reverse(s), Len(s), e)
<1> DEFINE n == Len(s)
           p == Put(s, 1, e)
           q == Reverse(p)
           a == Put(Reverse(s), n, e)
<1>1. n \in Nat /\ 1 \in 1 .. n /\ n \in 1 .. n
  BY Members
<1>2. p \in Seq(V) /\ Len(p) = n /\ \A i \in 1 .. n : p[i] = IF i = 1 THEN e ELSE s[i]
  BY <1>1, ExceptSeq DEF Put
<1> HIDE DEF p, n
<1>3. q \in Seq(V) /\ Len(q) = n /\ \A i \in 1 .. n : q[i] = p[(n - i) + 1] /\ (n - i) + 1 \in 1 .. n
  BY <1>2, ReverseIs
<1>4. Reverse(s) \in Seq(V) /\ Len(Reverse(s)) = n /\ \A i \in 1 .. n : Reverse(s)[i] = s[(n - i) + 1]
  BY ReverseIs DEF n
<1>5. a \in Seq(V) /\ Len(a) = n /\ \A i \in 1 .. n : a[i] = IF i = n THEN e ELSE Reverse(s)[i]
  BY <1>1, <1>4, ExceptSeq DEF Put
<1> HIDE DEF q, a
<1>6. ASSUME NEW i \in 1 .. n PROVE q[i] = a[i]
  <2> DEFINE j == (n - i) + 1
  <2>1. j \in 1 .. n /\ (j = 1 <=> i = n)
    BY <1>1
  <2>2. q[i] = p[j] /\ Reverse(s)[i] = s[j]
    BY <1>3, <1>4
  <2> HIDE DEF j
  <2> QED BY <1>2, <1>5, <2>1, <2>2
<1>7. q = a
  BY <1>3, <1>5, <1>6, SeqEqual
<1> QED
  BY <1>7 DEF q, p, a, n

(* What is read of a list, and what becomes of it.                         *)
LEMMA ListFacts ==
  ASSUME NEW l, ListOK(l)
  PROVE  /\ l \in ListRec /\ l.runs \in Seq(Proper) /\ l.runs # <<>> /\ l.asc \in BOOLEAN
         /\ Chain(ToVec(l)) /\ Normal(ToVec(l)) /\ ToVec(l) \in Seq(Proper) /\ ToVec(l) # <<>>
         /\ Len(ToVec(l)) = Len(l.runs)
         /\ Head(l.runs) = l.runs[1] /\ l.runs[1] \in Proper
         /\ l.asc => ToVec(l) = l.runs
         /\ ~ l.asc => ToVec(l) = Reverse(l.runs) /\ l.runs[1] = ToVec(l)[Len(ToVec(l))]
         /\ l # NoList
<1> DEFINE s == l.runs
           v == ToVec(l)
<1>1. l \in ListRec /\ s \in Seq(Proper) /\ l.asc \in BOOLEAN /\ Chain(v)
  BY DEF ListOK, ListRec
<1>2. v \in Seq(Proper) /\ v # <<>> /\ Normal(v) /\ Len(v) \in Nat /\ Len(v) >= 1
  BY <1>1, ChainFacts, ChainNormal DEF Chain
<1>3. l.asc => v = s
  BY DEF ToVec
<1>4. ~ l.asc => v = Reverse(s)
  BY DEF ToVec
<1>5. Reverse(s) \in Seq(Proper) /\ Len(Reverse(s)) = Len(s)
  BY <1>1, ReverseIs
<1>6. Len(v) = Len(s)
  BY <1>1, <1>3, <1>4, <1>5
<1>7. s # <<>> /\ 1 \in 1 .. Len(s) /\ Len(s) \in 1 .. Len(s)
  BY <1>1, <1>2, <1>6, Members
<1>8. Head(s) = s[1] /\ s[1] \in Proper
  BY <1>1, <1>7, Members
<1>9. ~ l.asc => s[1] = v[Len(v)]
  <2>1. Reverse(s)[Len(s)] = s[(Len(s) - Len(s)) + 1]
    BY <1>1, <1>7, ReverseIs
  <2>2. (Len(s) - Len(s)) + 1 = 1
    BY <1>1, Members
  <2> QED BY <1>4, <1>6, <2>1, <2>2
<1>10. l # NoList
  BY <1>7 DEF NoList
<1> QED
  BY <1>1, <1>2, <1>3, <1>4, <1>6, <1>7, <1>8, <1>9, <1>10

(* A list with a run more.                                                 *)
Grown(l, r, new) ==
  /\ ListOK(new) /\ new.asc = l.asc
  /\ \A w \in Nat : \A t, b : On(ToSet(ToVec(new)), w, t, b) <=>
                                (On(ToSet(ToVec(l)), w, t, b) \/ Covers(r, w, t, b))

LEMMA InsertAsc ==
  ASSUME NEW l, ListOK(l), l.asc, NEW r \in Proper, TryInsertExtreme(l, r) # NoList
  PROVE  Grown(l, r, TryInsertExtreme(l, r))
<1> DEFINE s == l.runs
           new == TryInsertExtreme(l, r)
<1>1. /\ l \in ListRec /\ s \in Seq(Proper) /\ s # <<>> /\ ToVec(l) = s /\ Chain(s)
      /\ Head(s) = s[1] /\ s[1] \in Proper /\ Len(s) \in Nat
  BY ListFacts, Members
<1>2. l.min = s[1].lo /\ l.max = s[Len(s)].hi
  BY <1>1 DEF ListOK
<1>3. r.lo \in Nat /\ r.hi \in Nat /\ s[1].lo \in Nat /\ r.lo \in Rel
  BY <1>1, ProperRun
<1>4. CASE Alike(r, s[1]) /\ r.hi + 1 = s[1].lo
  <2> DEFINE q == Put(s, 1, Lower(s[1], r.lo))
  <2>1. new = [l EXCEPT !.runs[1].lo = r.lo, !.min = r.lo]
    BY <1>1, <1>4 DEF TryInsertExtreme
  <2>2. new = [l EXCEPT !.runs = q, !.min = r.lo]
    BY <2>1 DEF Put, Lower
  <2>3. /\ Chain(q) /\ Len(q) = Len(s) /\ q[1].lo = r.lo /\ q[Len(s)].hi = s[Len(s)].hi
        /\ \A w \in Nat : \A t, b : On(ToSet(q), w, t, b) <=> (On(ToSet(s), w, t, b) \/ Covers(r, w, t, b))
    BY <1>1, <1>4, ChainLower
  <2> HIDE DEF q, new
  <2>4. q \in Seq(Proper)
    BY <2>3 DEF Chain
  <2>5. new \in ListRec /\ new.asc = TRUE /\ new.runs = q /\ new.min = r.lo /\ new.max = l.max
    BY <1>1, <1>3, <2>2, <2>4 DEF ListRec
  <2>6. ToVec(new) = q
    BY <2>5 DEF ToVec
  <2>7. ListOK(new)
    BY <1>2, <2>3, <2>5, <2>6 DEF ListOK
  <2> QED BY <1>1, <2>3, <2>5, <2>6, <2>7 DEF Grown, new
<1>5. CASE ~ (Alike(r, s[1]) /\ r.hi + 1 = s[1].lo)
  <2> DEFINE q == <<r>> \o s
  <2>1. r.hi < s[1].lo /\ new = [l EXCEPT !.runs = <<r>> \o @, !.min = r.lo]
    BY <1>1, <1>5 DEF TryInsertExtreme
  <2>2. new = [l EXCEPT !.runs = q, !.min = r.lo]
    BY <2>1
  <2>3. Follows(r, s[1])
    <3>1. Alike(r, s[1]) => r.hi + 1 < s[1].lo
      BY <1>3, <1>5, <2>1
    <3> QED BY <2>1, <3>1 DEF Follows
  <2>4. /\ Chain(q) /\ Len(q) = Len(s) + 1 /\ q[1] = r /\ q[Len(s) + 1] = s[Len(s)]
        /\ \A w, t, b : On(ToSet(q), w, t, b) <=> (On(ToSet(s), w, t, b) \/ Covers(r, w, t, b))
    BY <1>1, <2>3, ChainFront
  <2> HIDE DEF q, new
  <2>5. q \in Seq(Proper)
    BY <2>4 DEF Chain
  <2>6. new \in ListRec /\ new.asc = TRUE /\ new.runs = q /\ new.min = r.lo /\ new.max = l.max
    BY <1>1, <1>3, <2>2, <2>5 DEF ListRec
  <2>7. ToVec(new) = q
    BY <2>6 DEF ToVec
  <2>8. ListOK(new)
    BY <1>2, <2>4, <2>6, <2>7 DEF ListOK
  <2> QED BY <1>1, <2>4, <2>6, <2>7, <2>8 DEF Grown, new
<1> QED
  BY <1>4, <1>5

LEMMA InsertDesc ==
  ASSUME NEW l, ListOK(l), ~ l.asc, NEW r \in Proper, TryInsertExtreme(l, r) # NoList
  PROVE  Grown(l, r, TryInsertExtreme(l, r))
<1> DEFINE s == l.runs
           v == ToVec(l)
           n == Len(s)
           new == TryInsertExtreme(l, r)
<1>1. /\ l \in ListRec /\ s \in Seq(Proper) /\ s # <<>> /\ v = Reverse(s) /\ Chain(v) /\ Len(v) = n
      /\ Head(s) = s[1] /\ s[1] \in Proper /\ n \in Nat /\ s[1] = v[n] /\ l.asc = FALSE
  BY ListFacts, Members
<1>2. l.min = v[1].lo /\ l.max = v[n].hi
  BY <1>1 DEF ListOK
<1>3. r.lo \in Nat /\ r.hi \in Nat /\ s[1].hi \in Nat
  BY <1>1, ProperRun
<1> HIDE DEF v
<1>4. CASE Alike(r, s[1]) /\ r.lo = s[1].hi + 1
  <2> DEFINE e == Raise(s[1], r.hi)
             p == Put(s, 1, e)
             q == Put(v, n, e)
  <2>1. new = [l EXCEPT !.runs[1].hi = r.hi, !.max = r.hi]
    BY <1>1, <1>4 DEF TryInsertExtreme
  <2>2. new = [l EXCEPT !.runs = p, !.max = r.hi]
    BY <2>1 DEF Put, Raise
  <2>3. /\ Chain(q) /\ Len(q) = n /\ q[1].lo = v[1].lo /\ q[n].hi = r.hi
        /\ \A w \in Nat : \A t, b : On(ToSet(q), w, t, b) <=> (On(ToSet(v), w, t, b) \/ Covers(r, w, t, b))
    BY <1>1, <1>4, ChainRaise
  <2>4. e \in Proper
    <3>1. q[n] = e /\ q[n] \in Proper
      <4>1. n \in 1 .. n /\ DOMAIN v = 1 .. n
        BY <1>1, ChainFacts
      <4>2. q[n] = e
        BY <4>1 DEF Put
      <4>3. q[n] \in Proper
        BY <2>3, <4>1, ChainFacts
      <4> QED BY <4>2, <4>3
    <3> QED BY <3>1
  <2> HIDE DEF e
  <2>5. p \in Seq(Proper) /\ Reverse(p) = q
    <3>1. 1 \in 1 .. n
      BY <1>1, Members
    <3>2. p \in Seq(Proper)
      BY <1>1, <2>4, <3>1, ExceptSeq DEF Put
    <3> QED BY <1>1, <2>4, <3>2, ReversePut
  <2> HIDE DEF p, q, new
  <2>6. new \in ListRec /\ new.asc = FALSE /\ new.runs = p /\ new.max = r.hi /\ new.min = l.min
    BY <1>1, <1>3, <2>2, <2>5 DEF ListRec
  <2>7. ToVec(new) = q
    BY <2>5, <2>6 DEF ToVec
  <2>8. ListOK(new)
    BY <1>2, <2>3, <2>6, <2>7 DEF ListOK
  <2> QED BY <1>1, <2>3, <2>6, <2>7, <2>8 DEF Grown, new, v
<1>5. CASE ~ (Alike(r, s[1]) /\ r.lo = s[1].hi + 1)
  <2> DEFINE p == <<r>> \o s
             q == Append(v, r)
  <2>1. r.lo > s[1].hi /\ new = [l EXCEPT !.runs = <<r>> \o @, !.max = r.hi]
    BY <1>1, <1>5 DEF TryInsertExtreme
  <2>2. new = [l EXCEPT !.runs = p, !.max = r.hi]
    BY <2>1
  <2>3. Follows(v[n], r)
    <3>1. s[1].hi < r.lo
      BY <1>3, <2>1
    <3>2. Alike(s[1], r) => s[1].hi + 1 < r.lo
      <4>1. Alike(s[1], r) => Alike(r, s[1])
        BY DEF Alike
      <4> QED BY <1>3, <1>5, <3>1, <4>1
    <3> QED BY <1>1, <3>1, <3>2 DEF Follows
  <2>4. /\ Chain(q) /\ Len(q) = n + 1 /\ q[1] = v[1] /\ q[n + 1] = r
        /\ \A w, t, b : On(ToSet(q), w, t, b) <=> (On(ToSet(v), w, t, b) \/ Covers(r, w, t, b))
    BY <1>1, <2>3, ChainBack
  <2>5. p \in Seq(Proper)
    <3>1. <<r>> \in Seq(Proper)
      OBVIOUS
    <3> QED BY <1>1, <3>1, ConcatProperties
  <2>6. Reverse(p) = q
    BY <1>1, ReverseFront
  <2> HIDE DEF p, q, new
  <2>7. new \in ListRec /\ new.asc = FALSE /\ new.runs = p /\ new.max = r.hi /\ new.min = l.min
    BY <1>1, <1>3, <2>2, <2>5 DEF ListRec
  <2>8. ToVec(new) = q
    BY <2>6, <2>7 DEF ToVec
  <2>9. ListOK(new)
    BY <1>2, <2>4, <2>7, <2>8 DEF ListOK
  <2> QED BY <1>1, <2>4, <2>7, <2>8, <2>9 DEF Grown, new, v
<1> QED
  BY <1>4, <1>5

(* A run in an empty list.                                                 *)
LEMMA InsertFirst ==
  ASSUME NEW asc \in BOOLEAN, NEW r \in Proper
  PROVE  /\ ListOK(TryInsertExtreme(EmptyList(asc), r)) /\ TryInsertExtreme(EmptyList(asc), r).asc = asc
         /\ \A w, t, b : On(ToSet(ToVec(TryInsertExtreme(EmptyList(asc), r))), w, t, b) <=> Covers(r, w, t, b)
<1> DEFINE new == TryInsertExtreme(EmptyList(asc), r)
<1>1. new = [asc |-> asc, runs |-> <<r>>, min |-> r.lo, max |-> r.hi]
  BY DEF TryInsertExtreme, EmptyList
<1>2. r.lo \in Nat /\ r.hi \in Nat
  BY ProperRun
<1>3. /\ Chain(<<r>>) /\ Len(<<r>>) = 1 /\ <<r>>[1] = r
      /\ \A w, t, b : On(ToSet(<<r>>), w, t, b) <=> Covers(r, w, t, b)
  BY OneChain
<1>4. <<r>> \in Seq(Proper)
  BY <1>3 DEF Chain
<1>5. new \in ListRec /\ new.asc = asc /\ new.runs = <<r>> /\ new.min = r.lo /\ new.max = r.hi
  BY <1>1, <1>2, <1>4 DEF ListRec
<1>6. Reverse(<<r>>) = <<r>>
  <2> DEFINE s == <<r>>
             z == Reverse(s)
  <2>1. s \in Seq(Proper) /\ Len(s) = 1
    BY <1>3, <1>4
  <2> HIDE DEF s
  <2>2. z \in Seq(Proper) /\ Len(z) = 1 /\ \A i \in 1 .. 1 : z[i] = s[(1 - i) + 1]
    BY <2>1, ReverseIs
  <2> HIDE DEF z
  <2>3. \A i \in 1 .. 1 : (1 - i) + 1 = i
    OBVIOUS
  <2>4. \A i \in 1 .. Len(z) : z[i] = s[i]
    BY <2>2, <2>3
  <2>5. z = s
    BY <2>1, <2>2, <2>4, SeqEqual
  <2> QED BY <2>5 DEF s, z
<1> HIDE DEF new
<1>7. ToVec(new) = <<r>>
  BY <1>5, <1>6 DEF ToVec
<1>8. ListOK(new)
  BY <1>3, <1>5, <1>7 DEF ListOK
<1> QED
  BY <1>3, <1>5, <1>7, <1>8 DEF new

(* The lists of one direction, and the one that is none.                   *)
Growing(asc) == {l \in ListRec : l = NoList \/ l = EmptyList(asc) \/ (ListOK(l) /\ l.asc = asc)}

LEMMA ExtendCloses ==
  ASSUME NEW asc \in BOOLEAN
  PROVE  /\ EmptyList(asc) \in Growing(asc) /\ EmptyList(asc) # NoList
         /\ \A s \in Growing(asc), r \in Proper : Extend(s, r) \in Growing(asc)
         /\ \A s \in Growing(asc), r \in Proper : Extend(s, r) # NoList =>
              s # NoList /\ Extend(s, r) = TryInsertExtreme(s, r) /\ ListOK(Extend(s, r)) /\ Extend(s, r).asc = asc
<1>1. MaxRel \in Nat /\ MaxRel # 0
  BY NullSetsAssumption
<1>2. <<>> \in Seq(Proper)
  BY EmptySeq
<1>3. EmptyList(asc) \in ListRec /\ NoList \in ListRec
  BY <1>1, <1>2 DEF EmptyList, NoList, ListRec
<1>4. EmptyList(asc) # NoList
  BY <1>1 DEF EmptyList, NoList
<1>5. ASSUME NEW s \in Growing(asc), NEW r \in Proper, Extend(s, r) # NoList
      PROVE  s # NoList /\ Extend(s, r) = TryInsertExtreme(s, r) /\ ListOK(Extend(s, r)) /\ Extend(s, r).asc = asc
  <2>1. s # NoList /\ Extend(s, r) = TryInsertExtreme(s, r)
    BY <1>5 DEF Extend
  <2>2. CASE s = EmptyList(asc)
    BY <2>1, <2>2, InsertFirst
  <2>3. CASE ListOK(s) /\ s.asc = asc
    <3>1. Grown(s, r, TryInsertExtreme(s, r))
      BY <1>5, <2>1, <2>3, InsertAsc, InsertDesc
    <3> QED BY <2>1, <2>3, <3>1 DEF Grown
  <2> QED BY <2>1, <2>2, <2>3 DEF Growing
<1>6. ASSUME NEW s \in Growing(asc), NEW r \in Proper PROVE Extend(s, r) \in Growing(asc)
  <2>1. CASE Extend(s, r) = NoList
    BY <1>3, <2>1 DEF Growing
  <2>2. CASE Extend(s, r) # NoList
    BY <1>5, <2>2, ListFacts DEF Growing
  <2> QED BY <2>1, <2>2
<1> QED
  BY <1>3, <1>4, <1>5, <1>6 DEF Growing

(* Runs put in a list, prefix by prefix.                                   *)
LEMMA ExtendSteps ==
  ASSUME NEW asc \in BOOLEAN, NEW p \in Seq(Proper)
  PROVE  \E F \in [0 .. Len(p) -> Growing(asc)] :
           /\ F[0] = EmptyList(asc)
           /\ \A k \in 1 .. Len(p) : F[k] = Extend(F[k - 1], p[k])
           /\ FoldLeft(Extend, EmptyList(asc), p) = F[Len(p)]
<1> DEFINE n == Len(p)
           step == [q \in (1 .. n) \X Growing(asc) |-> Extend(q[2], p[q[1]])]
           Eq(g) == [T \in SUBSET DOMAIN p |-> IF T = {} THEN EmptyList(asc) ELSE Extend(g[T \ {Max(T)}], p[Max(T)])]
           iter == CHOOSE g : g = Eq(g)
<1>1. n \in Nat /\ DOMAIN p = 1 .. n /\ \A i \in 1 .. n : p[i] \in Proper
  BY Members
<1>2. step \in [(1 .. n) \X Growing(asc) -> Growing(asc)]
  <2> SUFFICES ASSUME NEW q \in (1 .. n) \X Growing(asc) PROVE Extend(q[2], p[q[1]]) \in Growing(asc)
    OBVIOUS
  <2>1. p[q[1]] \in Proper /\ q[2] \in Growing(asc)
    <3> HIDE DEF n
    <3> QED BY <1>1
  <2> HIDE DEF n, step
  <2> QED BY <2>1, ExtendCloses
<1>3. PICK g \in [SUBSET (1 .. n) -> Growing(asc)] : g = Stepwise(n, EmptyList(asc), step, g)
  <2>1. EmptyList(asc) \in Growing(asc)
    BY ExtendCloses
  <2> HIDE DEF step, n
  <2>2. StepwiseDefined(n, Growing(asc), EmptyList(asc), step)
    BY <1>1, <1>2, <2>1, StepwiseExists
  <2> QED BY <2>2 DEF StepwiseDefined
<1>4. Stepwise(n, EmptyList(asc), step, g) = Eq(g)
  <2>1. SUBSET (1 .. n) = SUBSET DOMAIN p
    BY <1>1
  <2>2. \A T \in SUBSET (1 .. n) : T # {} => Max(T) \in 1 .. n /\ g[T \ {Max(T)}] \in Growing(asc)
    <3> HIDE DEF n
    <3>1. \A T \in SUBSET (1 .. n) : T # {} => Max(T) \in T /\ T \ {Max(T)} \in SUBSET (1 .. n)
      BY <1>1, LastOfPrefix
    <3> QED BY <3>1, <1>3
  <2>3. \A T \in SUBSET (1 .. n) : T # {} => step[<<Max(T), g[T \ {Max(T)}]>>] = Extend(g[T \ {Max(T)}], p[Max(T)])
    <3> HIDE DEF n
    <3> QED BY <2>2
  <2> HIDE DEF step, n
  <2> QED BY <2>1, <2>3 DEF Stepwise
<1>5. iter = Eq(iter)
  <2>1. g = Eq(g)
    BY <1>3, <1>4
  <2> HIDE DEF Eq
  <2> QED BY <2>1
<1>6. FoldLeft(Extend, EmptyList(asc), p) = iter[1 .. n]
  <2>1. FoldLeft(Extend, EmptyList(asc), p) = iter[DOMAIN p]
    BY DEF FoldLeft, MapThenFoldSet
  <2> HIDE DEF iter
  <2> QED BY <1>1, <2>1
<1> HIDE DEF n, iter, step
<1>7. iter[{}] = EmptyList(asc)
  BY <1>5
<1>8. \A k \in 1 .. n : iter[1 .. k] = Extend(iter[1 .. (k - 1)], p[k])
  <2> TAKE k \in 1 .. n
  <2>1. 1 .. k \in SUBSET DOMAIN p
    BY <1>1
  <2>2. 1 .. k # {} /\ Max(1 .. k) = k /\ (1 .. k) \ {k} = 1 .. (k - 1)
    BY <1>1, LastOfPrefix
  <2>3. iter[1 .. k] = Extend(iter[(1 .. k) \ {Max(1 .. k)}], p[Max(1 .. k)])
    BY <1>5, <2>1, <2>2
  <2> QED BY <2>2, <2>3
<1> DEFINE G == {k \in 0 .. n : iter[1 .. k] \in Growing(asc)}
<1>9. \A k \in 0 .. n : k \in G
  <2>1. 0 \in G
    <3>1. 1 .. 0 = {} /\ 0 \in 0 .. n /\ EmptyList(asc) \in Growing(asc)
      BY <1>1, ExtendCloses
    <3> QED BY <3>1, <1>7
  <2>2. \A k \in 1 .. n : k - 1 \in G => k \in G
    <3> SUFFICES ASSUME NEW k \in 1 .. n, k - 1 \in G PROVE iter[1 .. k] \in Growing(asc)
      BY <1>1
    <3>1. iter[1 .. (k - 1)] \in Growing(asc) /\ p[k] \in Proper
      BY <1>1
    <3> QED BY <1>8, <3>1, ExtendCloses
  <2> HIDE DEF G
  <2> QED BY <1>1, <2>1, <2>2, PrefixesOf
<1> DEFINE F == [k \in 0 .. n |-> iter[1 .. k]]
<1>10. F \in [0 .. n -> Growing(asc)]
  BY <1>9
<1>11. F[0] = EmptyList(asc)
  <2>1. 1 .. 0 = {} /\ 0 \in 0 .. n
    BY <1>1
  <2> QED BY <2>1, <1>7
<1>12. \A k \in 1 .. n : F[k] = Extend(F[k - 1], p[k])
  <2> TAKE k \in 1 .. n
  <2>1. k \in 0 .. n /\ k - 1 \in 0 .. n
    BY <1>1
  <2> QED BY <2>1, <1>8
<1>13. FoldLeft(Extend, EmptyList(asc), p) = F[n]
  <2>1. n \in 0 .. n
    BY <1>1
  <2> QED BY <1>6, <2>1
<1> HIDE DEF F
<1> QED
  BY <1>10, <1>11, <1>12, <1>13 DEF n

(* The runs of a set made a list, if the list can be made.                 *)
LEMMA ListLine ==
  ASSUME NEW p \in Seq(Proper), p # <<>>, NEW asc \in BOOLEAN,
         FoldLeft(Extend, EmptyList(asc), p) # NoList
  PROVE  /\ ListOK(FoldLeft(Extend, EmptyList(asc), p)) /\ FoldLeft(Extend, EmptyList(asc), p).asc = asc
         /\ \A w \in Nat : \A t, b :
              On(ToSet(ToVec(FoldLeft(Extend, EmptyList(asc), p))), w, t, b) <=> On(ToSet(p), w, t, b)
<1> DEFINE n == Len(p)
<1>1. n \in Nat /\ \A i \in 1 .. n : p[i] \in Proper
  BY Members
<1>2. PICK F \in [0 .. n -> Growing(asc)] :
        /\ F[0] = EmptyList(asc)
        /\ \A k \in 1 .. n : F[k] = Extend(F[k - 1], p[k])
        /\ FoldLeft(Extend, EmptyList(asc), p) = F[n]
  BY ExtendSteps
<1> DEFINE upTo(k) == \A w \in Nat : \A t, b :
             On(ToSet(ToVec(F[k])), w, t, b) <=> \E i \in 1 .. k : Covers(p[i], w, t, b)
           G == {k \in 0 .. n : F[k] # NoList => (k = 0 \/ (ListOK(F[k]) /\ F[k].asc = asc)) /\ upTo(k)}
<1>3. n # 0
  BY Members
<1>4. F[n] # NoList
  BY <1>2
<1> HIDE DEF n
<1>5. 0 \in G
  <2>1. 0 \in 0 .. n /\ 1 .. 0 = {}
    BY <1>1
  <2>2. ToVec(EmptyList(asc)) = <<>>
    <3>1. <<>> \in Seq(Proper) /\ Len(<<>>) = 0
      BY EmptySeq
    <3>2. Reverse(<<>>) \in Seq(Proper) /\ Len(Reverse(<<>>)) = 0
      BY <3>1, ReverseIs
    <3>3. Reverse(<<>>) = <<>>
      BY <3>2, Members
    <3> QED BY <3>3 DEF ToVec, EmptyList
  <2>3. upTo(0)
    BY <1>2, <2>1, <2>2, EmptyNormal
  <2> QED BY <2>1, <2>3
<1>6. ASSUME NEW k \in 1 .. n, k - 1 \in G PROVE k \in G
  <2> DEFINE s == F[k - 1]
             r == p[k]
  <2>1. k \in 0 .. n /\ k - 1 \in 0 .. n /\ \A i : i \in 1 .. k <=> (i \in 1 .. (k - 1) \/ i = k)
    BY <1>1
  <2>2. s \in Growing(asc) /\ r \in Proper /\ F[k] = Extend(s, r)
    BY <1>1, <1>2, <2>1
  <2>3. CASE F[k] = NoList
    BY <2>1, <2>3
  <2>4. CASE F[k] # NoList
    <3>1. s # NoList /\ F[k] = TryInsertExtreme(s, r) /\ ListOK(F[k]) /\ F[k].asc = asc
      <4> HIDE DEF s, r
      <4> QED BY <2>2, <2>4, ExtendCloses
    <3>2. upTo(k - 1) /\ (k - 1 = 0 \/ (ListOK(s) /\ s.asc = asc))
      BY <1>6, <3>1
    <3>3. \A w \in Nat : \A t, b : On(ToSet(ToVec(F[k])), w, t, b) <=>
                                      (On(ToSet(ToVec(s)), w, t, b) \/ Covers(r, w, t, b))
      <4>1. CASE k - 1 = 0
        <5>1. s = EmptyList(asc) /\ \A w, t, b : ~ On(ToSet(ToVec(s)), w, t, b)
          <6>1. s = EmptyList(asc)
            BY <1>2, <4>1
          <6>2. 1 .. (k - 1) = {}
            BY <4>1
          <6>3. ToVec(EmptyList(asc)) = <<>>
            <7>1. <<>> \in Seq(Proper) /\ Len(<<>>) = 0
              BY EmptySeq
            <7>2. Reverse(<<>>) \in Seq(Proper) /\ Len(Reverse(<<>>)) = 0
              BY <7>1, ReverseIs
            <7>3. Reverse(<<>>) = <<>>
              BY <7>2, Members
            <7> QED BY <7>3 DEF ToVec, EmptyList
          <6> QED BY <6>1, <6>3, EmptyNormal
        <5> HIDE DEF s, r
        <5> QED BY <2>2, <3>1, <5>1, InsertFirst
      <4>2. CASE ListOK(s) /\ s.asc = asc
        <5> HIDE DEF s, r
        <5>1. Grown(s, r, F[k])
          BY <2>2, <2>4, <3>1, <4>2, InsertAsc, InsertDesc
        <5> QED BY <5>1 DEF Grown
      <4> QED BY <3>2, <4>1, <4>2
    <3>4. upTo(k)
      BY <2>1, <3>2, <3>3
    <3> QED BY <2>1, <3>1, <3>4
  <2> QED BY <2>3, <2>4
<1>7. n \in G
  <2> HIDE DEF G
  <2>1. \A k \in 0 .. n : k \in G
    BY <1>1, <1>5, <1>6, PrefixesOf
  <2> QED BY <1>1, <2>1
<1>8. ListOK(F[n]) /\ F[n].asc = asc /\ upTo(n)
  BY <1>3, <1>4, <1>7
<1>9. \A w, t, b : On(ToSet(p), w, t, b) <=> \E i \in 1 .. n : Covers(p[i], w, t, b)
  BY OnPlaces DEF n
<1> QED
  BY <1>2, <1>8, <1>9

LEMMA ListOfKeeps ==
  ASSUME NEW runs \in Seq(Proper), runs # <<>>, NEW asc \in BOOLEAN, ListOf(runs, asc) # NoList
  PROVE  /\ ListOK(ListOf(runs, asc)) /\ ListOf(runs, asc).asc = asc
         /\ \A w \in Nat : \A t, b : On(ToSet(ToVec(ListOf(runs, asc))), w, t, b) <=> On(ToSet(runs), w, t, b)
<1> DEFINE p == IF asc THEN Reverse(runs) ELSE runs
<1>1. p \in Seq(Proper) /\ p # <<>> /\ ToSet(p) = ToSet(runs)
  BY ReverseIs, Members
<1>2. ListOf(runs, asc) = FoldLeft(Extend, EmptyList(asc), p)
  BY DEF ListOf
<1> HIDE DEF p
<1> QED
  BY <1>1, <1>2, ListLine

-----------------------------------------------------------------------------
(* The store.  The runs of a set, in whatever form it is held.             *)
Flat(e) == IF e.form = "list" THEN ToVec(e.list) ELSE e.runs
RunsOf(st, id) ==
  IF st.sets[id].form = "shift"
  THEN AddRelRuns(Flat(st.sets[st.sets[id].root]), st.sets[id].off) ELSE Flat(st.sets[id])
Meaning(st, id) == RunsMean(RunsOf(st, id))

SetRec == [form : {"runs", "list", "shift"}, runs : Seq(Proper), list : ListRec, root : Nat, off : Nat]
StoreRec ==
  [sets    : Seq(SetRec),
   cache   : SUBSET Nat,
   created : SUBSET [op : {"or", "and"}, left : Nat, right : Nat, id : Nat],
   shifts  : SUBSET [root : Nat, off : Nat, id : Nat],
   rels    : SUBSET [set : Nat, rel : Nat, id : Nat]]
IdsOf(st) == 1 .. Len(st.sets)

(* Runs are normal, lists are chains, and a shift is of a set that is not  *)
(* one, has runs and does not reach MaxRel.                                *)
RunsEntry(e) == e.form = "runs" /\ e = PlainSet(e.runs) /\ Normal(e.runs)
ListEntry(e) == e.form = "list" /\ e = Listed(e.list) /\ ListOK(e.list)
RootOK(sets, root, off) ==
  /\ root \in 1 .. Len(sets) /\ sets[root].form # "shift" /\ Flat(sets[root]) # <<>>
  /\ \A i \in 1 .. Len(Flat(sets[root])) : Flat(sets[root])[i].hi + off < MaxRel
ShiftEntry(sets, e) == e.form = "shift" /\ e = Shifted(e.root, e.off) /\ RootOK(sets, e.root, e.off)
EntryOK(sets, e) == RunsEntry(e) \/ ListEntry(e) \/ ShiftEntry(sets, e)

SetsOK(st) ==
  /\ st \in StoreRec
  /\ Len(st.sets) >= 5 /\ \A id \in 1 .. 5 : st.sets[id] = NewStore.sets[id]
  /\ \A id \in IdsOf(st) : EntryOK(st.sets, st.sets[id])
  /\ \A id \in IdsOf(st) : RunsOf(st, id) = <<>> => id = EMPTY

(* What the tables remember is true.                                       *)
Result(op, M, N) == IF op = "or" THEN M \cup N ELSE AndMeans(M, N)
TablesOK(st) ==
  /\ 1 .. 5 \subseteq st.cache /\ st.cache \subseteq IdsOf(st)
  /\ \A id \in st.cache : st.sets[id].form = "runs"
  /\ \A m \in st.created :
       /\ m.left \in IdsOf(st) /\ m.right \in IdsOf(st) /\ m.id \in IdsOf(st)
       /\ Meaning(st, m.id) = Result(m.op, Meaning(st, m.left), Meaning(st, m.right))
  /\ \A m \in st.shifts :
       /\ m.root \in IdsOf(st) /\ m.id \in IdsOf(st)
       /\ Meaning(st, m.id) = ShiftMeans(Meaning(st, m.root), {m.off})
  /\ \A m \in st.rels :
       /\ m.set \in IdsOf(st) /\ m.id \in IdsOf(st)
       /\ Meaning(st, m.id) = ShiftMeans(Meaning(st, m.set), {m.rel})

StoreOK(st) == SetsOK(st) /\ TablesOK(st)

(* A store that has grown out of another; an operation that has a result.  *)
Grew(st, new) ==
  /\ StoreOK(new) /\ Len(st.sets) <= Len(new.sets)
  /\ \A id \in IdsOf(st) : RunsOf(new, id) = RunsOf(st, id)
Yields(st, r, M) == Grew(st, r.st) /\ r.id \in IdsOf(r.st) /\ Meaning(r.st, r.id) = M

(* What a set in a good store holds.                                       *)
LEMMA StoreTyped ==
  ASSUME NEW st, SetsOK(st)
  PROVE  /\ st \in StoreRec /\ st.sets \in Seq(SetRec) /\ Len(st.sets) \in Nat /\ Len(st.sets) >= 5
         /\ DOMAIN st.sets = IdsOf(st) /\ IdsOf(st) = 1 .. Len(st.sets) /\ 1 .. 5 \subseteq IdsOf(st)
         /\ \A id \in IdsOf(st) : id \in Nat /\ st.sets[id] \in SetRec /\ EntryOK(st.sets, st.sets[id])
<1>1. st \in StoreRec /\ st.sets \in Seq(SetRec)
  BY DEF SetsOK, StoreRec
<1>2. Len(st.sets) \in Nat /\ DOMAIN st.sets = 1 .. Len(st.sets) /\ Len(st.sets) >= 5
  BY <1>1, Members DEF SetsOK
<1>3. \A id \in 1 .. Len(st.sets) : st.sets[id] \in SetRec /\ id \in Nat
  BY <1>1, <1>2, Members
<1>4. 1 .. 5 \subseteq 1 .. Len(st.sets)
  BY <1>2
<1> QED
  BY <1>1, <1>2, <1>3, <1>4 DEF SetsOK, IdsOf

LEMMA FlatNormal ==
  ASSUME NEW e, RunsEntry(e) \/ ListEntry(e)
  PROVE  Normal(Flat(e)) /\ Flat(e) \in Seq(Proper)
<1>1. CASE RunsEntry(e)
  BY <1>1, NormalFacts DEF RunsEntry, Flat
<1>2. CASE ListEntry(e)
  BY <1>2, ListFacts DEF ListEntry, Flat
<1> QED
  BY <1>1, <1>2

LEMMA ShiftNormal ==
  ASSUME NEW st, SetsOK(st), NEW root, NEW off \in Nat, RootOK(st.sets, root, off)
  PROVE  /\ root \in IdsOf(st) /\ Normal(Flat(st.sets[root])) /\ Flat(st.sets[root]) \in Seq(Proper)
         /\ Flat(st.sets[root]) # <<>>
         /\ \A i \in 1 .. Len(Flat(st.sets[root])) : Flat(st.sets[root])[i].hi + off <= MaxRel
         /\ Normal(AddRelRuns(Flat(st.sets[root]), off))
         /\ AddRelRuns(Flat(st.sets[root]), off) \in Seq(Proper)
         /\ AddRelRuns(Flat(st.sets[root]), off) # <<>>
         /\ RunsMean(AddRelRuns(Flat(st.sets[root]), off)) = ShiftMeans(RunsMean(Flat(st.sets[root])), {off})
<1> DEFINE f == Flat(st.sets[root])
<1>1. root \in IdsOf(st) /\ st.sets[root].form # "shift" /\ f # <<>>
  BY DEF RootOK, IdsOf
<1>2. EntryOK(st.sets, st.sets[root])
  BY <1>1, StoreTyped
<1>3. Normal(f) /\ f \in Seq(Proper)
  BY <1>1, <1>2, FlatNormal DEF EntryOK, ShiftEntry
<1>4. ASSUME NEW i \in 1 .. Len(f) PROVE f[i].hi + off <= MaxRel
  <2>1. f[i].hi + off < MaxRel
    BY DEF RootOK
  <2>2. f[i].hi \in Nat /\ MaxRel \in Nat
    BY <1>3, Members, ProperRun
  <2> HIDE DEF f
  <2> QED BY <2>1, <2>2
<1> HIDE DEF f
<1>5. Normal(AddRelRuns(f, off)) /\ RunsMean(AddRelRuns(f, off)) = ShiftMeans(RunsMean(f), {off})
  BY <1>3, <1>4, AddRelMean
<1>6. AddRelRuns(f, off) \in Seq(Proper) /\ Len(AddRelRuns(f, off)) = Len(f)
  BY <1>3, <1>4, AddRelRunsAre
<1>7. AddRelRuns(f, off) # <<>>
  BY <1>1, <1>3, <1>6, Members
<1> QED
  BY <1>1, <1>3, <1>4, <1>5, <1>6, <1>7 DEF f

LEMMA RunsOfNormal ==
  ASSUME NEW st, SetsOK(st), NEW id \in IdsOf(st)
  PROVE  /\ Normal(RunsOf(st, id)) /\ RunsOf(st, id) \in Seq(Proper)
         /\ st.sets[id].form # "shift" => RunsOf(st, id) = Flat(st.sets[id])
         /\ st.sets[id].form = "runs" => RunsOf(st, id) = st.sets[id].runs /\ st.sets[id] = PlainSet(RunsOf(st, id))
<1> DEFINE e == st.sets[id]
<1>1. e \in SetRec /\ EntryOK(st.sets, e)
  BY StoreTyped
<1>2. CASE e.form = "shift"
  <2>1. RootOK(st.sets, e.root, e.off) /\ e.off \in Nat
    BY <1>1, <1>2 DEF EntryOK, ShiftEntry, RunsEntry, ListEntry, SetRec
  <2>2. RunsOf(st, id) = AddRelRuns(Flat(st.sets[e.root]), e.off)
    BY <1>2 DEF RunsOf
  <2> HIDE DEF e
  <2>3. Normal(RunsOf(st, id)) /\ RunsOf(st, id) \in Seq(Proper)
    BY <2>1, <2>2, ShiftNormal
  <2> QED BY <1>2, <2>3 DEF e
<1>3. CASE e.form # "shift"
  <2>1. RunsEntry(e) \/ ListEntry(e)
    BY <1>1, <1>3 DEF EntryOK, ShiftEntry
  <2>2. RunsOf(st, id) = Flat(e)
    BY <1>3 DEF RunsOf
  <2>3. Normal(Flat(e)) /\ Flat(e) \in Seq(Proper)
    BY <2>1, FlatNormal
  <2>4. ASSUME e.form = "runs" PROVE Flat(e) = e.runs /\ e = PlainSet(e.runs)
    BY <2>1, <2>4 DEF Flat, RunsEntry, ListEntry
  <2> QED BY <2>2, <2>3, <2>4
<1> QED
  BY <1>2, <1>3

LEMMA GrewSelf ==
  ASSUME NEW st, StoreOK(st)
  PROVE  Grew(st, st)
<1>1. Len(st.sets) \in Nat
  BY StoreTyped DEF StoreOK
<1> QED
  BY <1>1 DEF Grew

LEMMA GrewOn ==
  ASSUME NEW st, StoreOK(st), NEW mid, Grew(st, mid), NEW new, Grew(mid, new)
  PROVE  Grew(st, new)
<1>1. Len(st.sets) \in Nat /\ Len(mid.sets) \in Nat /\ Len(new.sets) \in Nat
  BY StoreTyped DEF StoreOK, Grew
<1>2. Len(st.sets) <= Len(mid.sets) /\ Len(mid.sets) <= Len(new.sets)
  BY DEF Grew
<1>3. \A id \in IdsOf(st) : id \in IdsOf(mid)
  BY <1>1, <1>2 DEF IdsOf
<1> QED
  BY <1>1, <1>2, <1>3 DEF Grew

LEMMA GrewIds ==
  ASSUME NEW st, StoreOK(st), NEW new, Grew(st, new)
  PROVE  /\ IdsOf(st) \subseteq IdsOf(new) /\ StoreOK(new)
         /\ \A id \in IdsOf(st) : Meaning(new, id) = Meaning(st, id) /\ RunsOf(new, id) = RunsOf(st, id)
<1>1. Len(st.sets) \in Nat /\ Len(new.sets) \in Nat
  BY StoreTyped DEF StoreOK, Grew
<1>2. \A id \in IdsOf(st) : id \in IdsOf(new)
  BY <1>1 DEF IdsOf, Grew
<1> QED
  BY <1>2 DEF Grew, Meaning

-----------------------------------------------------------------------------
(* Tables stay true in a store whose sets mean the same.                   *)
LEMMA TablesKept ==
  ASSUME NEW st, StoreOK(st), NEW new, SetsOK(new), Len(st.sets) <= Len(new.sets),
         \A id \in IdsOf(st) : RunsOf(new, id) = RunsOf(st, id),
         \A id \in IdsOf(st) : st.sets[id].form = "runs" => new.sets[id].form = "runs",
         new.cache = st.cache, new.created = st.created, new.shifts = st.shifts, new.rels = st.rels
  PROVE  Grew(st, new)
<1>1. Len(st.sets) \in Nat /\ Len(new.sets) \in Nat
  BY StoreTyped DEF StoreOK
<1>2. \A id \in IdsOf(st) : id \in IdsOf(new)
  BY <1>1 DEF IdsOf
<1>3. \A id \in IdsOf(st) : Meaning(new, id) = Meaning(st, id)
  BY DEF Meaning
<1>4. TablesOK(st)
  BY DEF StoreOK
<1>5. /\ 1 .. 5 \subseteq new.cache /\ new.cache \subseteq IdsOf(new)
      /\ \A id \in new.cache : new.sets[id].form = "runs"
  <2>1. 1 .. 5 \subseteq st.cache /\ st.cache \subseteq IdsOf(st) /\ \A id \in st.cache : st.sets[id].form = "runs"
    BY <1>4 DEF TablesOK
  <2> QED BY <1>2, <2>1
<1>6. \A m \in new.created :
        /\ m.left \in IdsOf(new) /\ m.right \in IdsOf(new) /\ m.id \in IdsOf(new)
        /\ Meaning(new, m.id) = Result(m.op, Meaning(new, m.left), Meaning(new, m.right))
  <2> SUFFICES ASSUME NEW m \in st.created
               PROVE  /\ m.left \in IdsOf(new) /\ m.right \in IdsOf(new) /\ m.id \in IdsOf(new)
                      /\ Meaning(new, m.id) = Result(m.op, Meaning(new, m.left), Meaning(new, m.right))
    OBVIOUS
  <2>1. /\ m.left \in IdsOf(st) /\ m.right \in IdsOf(st) /\ m.id \in IdsOf(st)
        /\ Meaning(st, m.id) = Result(m.op, Meaning(st, m.left), Meaning(st, m.right))
    BY <1>4 DEF TablesOK
  <2>2. /\ Meaning(new, m.id) = Meaning(st, m.id) /\ Meaning(new, m.left) = Meaning(st, m.left)
        /\ Meaning(new, m.right) = Meaning(st, m.right)
    BY <1>3, <2>1
  <2> QED BY <1>2, <2>1, <2>2
<1>7. \A m \in new.shifts :
        /\ m.root \in IdsOf(new) /\ m.id \in IdsOf(new)
        /\ Meaning(new, m.id) = ShiftMeans(Meaning(new, m.root), {m.off})
  <2> SUFFICES ASSUME NEW m \in st.shifts
               PROVE  /\ m.root \in IdsOf(new) /\ m.id \in IdsOf(new)
                      /\ Meaning(new, m.id) = ShiftMeans(Meaning(new, m.root), {m.off})
    OBVIOUS
  <2>1. /\ m.root \in IdsOf(st) /\ m.id \in IdsOf(st)
        /\ Meaning(st, m.id) = ShiftMeans(Meaning(st, m.root), {m.off})
    BY <1>4 DEF TablesOK
  <2>2. Meaning(new, m.id) = Meaning(st, m.id) /\ Meaning(new, m.root) = Meaning(st, m.root)
    BY <1>3, <2>1
  <2> QED BY <1>2, <2>1, <2>2
<1>8. \A m \in new.rels :
        /\ m.set \in IdsOf(new) /\ m.id \in IdsOf(new)
        /\ Meaning(new, m.id) = ShiftMeans(Meaning(new, m.set), {m.rel})
  <2> SUFFICES ASSUME NEW m \in st.rels
               PROVE  /\ m.set \in IdsOf(new) /\ m.id \in IdsOf(new)
                      /\ Meaning(new, m.id) = ShiftMeans(Meaning(new, m.set), {m.rel})
    OBVIOUS
  <2>1. /\ m.set \in IdsOf(st) /\ m.id \in IdsOf(st)
        /\ Meaning(st, m.id) = ShiftMeans(Meaning(st, m.set), {m.rel})
    BY <1>4 DEF TablesOK
  <2>2. Meaning(new, m.id) = Meaning(st, m.id) /\ Meaning(new, m.set) = Meaning(st, m.set)
    BY <1>3, <2>1
  <2> QED BY <1>2, <2>1, <2>2
<1>9. TablesOK(new)
  BY <1>5, <1>6, <1>7, <1>8 DEF TablesOK
<1> QED
  BY <1>9 DEF Grew, StoreOK

(* A set put in the form of its runs: nobody means anything else.          *)
Replaced(st, id) == [st EXCEPT !.sets[id] = PlainSet(RunsOf(st, id))]
Settled(st, id, new) ==
  /\ Grew(st, new) /\ Len(new.sets) = Len(st.sets)
  /\ new.sets[id] = PlainSet(RunsOf(st, id))
  /\ \A k \in IdsOf(st) : st.sets[k].form = "runs" => new.sets[k] = st.sets[k]

LEMMA PlainEntry ==
  ASSUME NEW runs, Normal(runs)
  PROVE  /\ PlainSet(runs) \in SetRec /\ RunsEntry(PlainSet(runs)) /\ Flat(PlainSet(runs)) = runs
         /\ PlainSet(runs).form = "runs" /\ PlainSet(runs).runs = runs
<1>1. runs \in Seq(Proper) /\ <<>> \in Seq(Proper) /\ MaxRel \in Nat
  BY NormalFacts, EmptySeq, NullSetsAssumption
<1>2. NoList \in ListRec
  BY <1>1 DEF NoList, ListRec
<1>3. PlainSet(runs).form = "runs" /\ PlainSet(runs).runs = runs
  BY DEF PlainSet
<1>4. PlainSet(runs) \in SetRec
  BY <1>1, <1>2 DEF PlainSet, SetRec
<1> QED
  BY <1>3, <1>4 DEF RunsEntry, Flat

LEMMA ReplacedKeeps ==
  ASSUME NEW st, StoreOK(st), NEW id \in IdsOf(st)
  PROVE  Settled(st, id, Replaced(st, id))
<1> DEFINE e == PlainSet(RunsOf(st, id))
           new == Replaced(st, id)
           n == Len(st.sets)
<1>1. /\ st \in StoreRec /\ st.sets \in Seq(SetRec) /\ n \in Nat /\ n >= 5 /\ IdsOf(st) = 1 .. n /\ 1 .. 5 \subseteq 1 .. n
      /\ \A k \in 1 .. n : st.sets[k] \in SetRec /\ EntryOK(st.sets, st.sets[k])
  BY StoreTyped DEF StoreOK
<1>2. SetsOK(st)
  BY DEF StoreOK
<1>3. /\ Normal(RunsOf(st, id)) /\ e \in SetRec /\ RunsEntry(e) /\ Flat(e) = RunsOf(st, id) /\ e.form = "runs"
  BY <1>2, RunsOfNormal, PlainEntry
<1> HIDE DEF n
<1>4. new = [st EXCEPT !.sets = [st.sets EXCEPT ![id] = e]]
  BY DEF Replaced
<1> HIDE DEF e, new
<1> DEFINE sets == [st.sets EXCEPT ![id] = e]
<1>5. sets \in Seq(SetRec) /\ Len(sets) = n /\ \A k \in 1 .. n : sets[k] = IF k = id THEN e ELSE st.sets[k]
  BY <1>1, <1>3, ExceptSeq DEF n
<1> HIDE DEF sets
<1>6. /\ new \in StoreRec /\ new.sets = sets /\ new.cache = st.cache /\ new.created = st.created
      /\ new.shifts = st.shifts /\ new.rels = st.rels
  BY <1>1, <1>4, <1>5 DEF StoreRec, sets
<1>7. IdsOf(new) = 1 .. n /\ id \in 1 .. n
  BY <1>1, <1>5, <1>6 DEF IdsOf
<1>8. ASSUME NEW k \in 1 .. n, st.sets[k].form # "shift"
      PROVE  sets[k].form # "shift" /\ Flat(sets[k]) = Flat(st.sets[k])
  <2>1. CASE k = id
    <3>1. RunsOf(st, id) = Flat(st.sets[id])
      BY <1>2, <1>8, <2>1, RunsOfNormal
    <3> QED BY <1>3, <1>5, <2>1, <3>1
  <2>2. CASE k # id
    BY <1>5, <1>8, <2>2
  <2> QED BY <2>1, <2>2
<1>9. ASSUME NEW k \in 1 .. n, k # id, st.sets[k].form = "shift"
      PROVE  /\ sets[k] = st.sets[k] /\ ShiftEntry(sets, sets[k])
             /\ Flat(sets[st.sets[k].root]) = Flat(st.sets[st.sets[k].root])
  <2>1. ShiftEntry(st.sets, st.sets[k])
    BY <1>1, <1>9 DEF EntryOK, RunsEntry, ListEntry
  <2>2. sets[k] = st.sets[k]
    BY <1>5, <1>9
  <2> DEFINE x == st.sets[k]
  <2>3. x.form = "shift" /\ x = Shifted(x.root, x.off) /\ RootOK(st.sets, x.root, x.off)
    BY <2>1 DEF ShiftEntry
  <2> HIDE DEF x
  <2>4. /\ x.root \in 1 .. n /\ st.sets[x.root].form # "shift" /\ Flat(st.sets[x.root]) # <<>>
        /\ \A i \in 1 .. Len(Flat(st.sets[x.root])) : Flat(st.sets[x.root])[i].hi + x.off < MaxRel
    BY <2>3 DEF RootOK, n
  <2>5. sets[x.root].form # "shift" /\ Flat(sets[x.root]) = Flat(st.sets[x.root])
    BY <1>8, <2>4
  <2>6. RootOK(sets, x.root, x.off)
    BY <1>5, <2>4, <2>5 DEF RootOK
  <2>7. ShiftEntry(sets, x)
    BY <2>3, <2>6 DEF ShiftEntry
  <2> QED BY <2>2, <2>5, <2>7 DEF x
<1>10. ASSUME NEW k \in 1 .. n PROVE EntryOK(sets, sets[k]) /\ RunsOf(new, k) = RunsOf(st, k)
  <2>1. CASE k = id
    <3>1. sets[k] = e
      BY <1>5, <2>1
    <3>2. RunsOf(new, k) = Flat(e)
      BY <1>3, <1>6, <3>1 DEF RunsOf
    <3> QED BY <1>3, <2>1, <3>1, <3>2 DEF EntryOK
  <2>2. CASE k # id /\ st.sets[k].form = "shift"
    <3>1. RunsOf(new, k) = RunsOf(st, k)
      BY <1>6, <1>9, <2>2 DEF RunsOf
    <3> QED BY <1>9, <2>2, <3>1 DEF EntryOK
  <2>3. CASE k # id /\ st.sets[k].form # "shift"
    <3>1. sets[k] = st.sets[k]
      BY <1>5, <2>3
    <3>2. RunsOf(new, k) = RunsOf(st, k)
      BY <1>6, <2>3, <3>1 DEF RunsOf
    <3>3. EntryOK(st.sets, st.sets[k])
      BY <1>1
    <3>4. EntryOK(sets, sets[k])
      BY <2>3, <3>1, <3>3 DEF EntryOK, ShiftEntry
    <3> QED BY <3>2, <3>4
  <2> QED BY <2>1, <2>2, <2>3
<1>11. ASSUME NEW k \in 1 .. n, st.sets[k].form = "runs" PROVE sets[k] = st.sets[k]
  <2>1. CASE k = id
    <3>1. st.sets[id] = PlainSet(RunsOf(st, id))
      BY <1>2, <1>11, <2>1, RunsOfNormal
    <3> QED BY <1>5, <2>1, <3>1 DEF e
  <2>2. CASE k # id
    BY <1>5, <2>2
  <2> QED BY <2>1, <2>2
<1>12. \A k \in 1 .. 5 : k \in 1 .. n /\ sets[k] = NewStore.sets[k]
  <2> SUFFICES ASSUME NEW k \in 1 .. 5 PROVE k \in 1 .. n /\ sets[k] = NewStore.sets[k]
    OBVIOUS
  <2>1. k \in 1 .. n /\ st.sets[k] = NewStore.sets[k]
    BY <1>1, <1>2 DEF SetsOK
  <2>2. NewStore.sets[k].form = "runs"
    BY DEF NewStore, PlainSet
  <2> QED BY <1>11, <2>1, <2>2
<1>13. SetsOK(new)
  <2>1. \A k \in 1 .. n : RunsOf(new, k) = <<>> => k = EMPTY
    BY <1>1, <1>2, <1>10 DEF SetsOK
  <2> QED BY <1>1, <1>5, <1>6, <1>7, <1>10, <1>12, <2>1 DEF SetsOK
<1>14. \A k \in 1 .. n : st.sets[k].form = "runs" => sets[k].form = "runs"
  BY <1>11
<1>15. Grew(st, new)
  <2>1. Len(st.sets) <= Len(new.sets)
    BY <1>1, <1>5, <1>6 DEF n
  <2> QED BY <1>1, <1>6, <1>10, <1>13, <1>14, <2>1, TablesKept
<1>16. new.sets[id] = PlainSet(RunsOf(st, id))
  BY <1>5, <1>6, <1>7 DEF e
<1> QED
  BY <1>1, <1>5, <1>6, <1>11, <1>15, <1>16 DEF Settled, new, n

LEMMA SettledSelf ==
  ASSUME NEW st, StoreOK(st), NEW id \in IdsOf(st), st.sets[id].form = "runs"
  PROVE  Settled(st, id, st)
<1>1. st.sets[id] = PlainSet(RunsOf(st, id))
  BY RunsOfNormal DEF StoreOK
<1> QED
  BY <1>1, GrewSelf DEF Settled

LEMMA FlattenedKeeps ==
  ASSUME NEW st, StoreOK(st), NEW id \in IdsOf(st), st.sets[id].form # "shift"
  PROVE  Settled(st, id, Flattened(st, id))
<1>1. RunsOf(st, id) = Flat(st.sets[id])
  BY RunsOfNormal DEF StoreOK
<1>2. CASE st.sets[id].form = "list"
  <2>1. Flattened(st, id) = Replaced(st, id)
    BY <1>1, <1>2 DEF Flattened, Replaced, Flat
  <2> QED BY <2>1, ReplacedKeeps
<1>3. CASE st.sets[id].form # "list"
  <2>1. st.sets[id] \in SetRec
    BY StoreTyped DEF StoreOK
  <2>2. st.sets[id].form = "runs"
    BY <1>3, <2>1 DEF SetRec
  <2>3. Flattened(st, id) = st
    BY <1>3 DEF Flattened
  <2> QED BY <2>2, <2>3, SettledSelf
<1> QED
  BY <1>2, <1>3

(* get_set_ref keeps what every set means, and gives the runs of one.      *)
LEMMA MaterialisedKeeps ==
  ASSUME NEW st, StoreOK(st), NEW id \in IdsOf(st)
  PROVE  Settled(st, id, Materialised(st, id))
<1>1. CASE st.sets[id].form # "shift"
  <2>1. Materialised(st, id) = Flattened(st, id)
    BY <1>1 DEF Materialised
  <2> QED BY <1>1, <2>1, FlattenedKeeps
<1>2. CASE st.sets[id].form = "shift"
  <2> DEFINE e == st.sets[id]
             s == Flattened(st, e.root)
             new == Materialised(st, id)
  <2>1. e \in SetRec /\ EntryOK(st.sets, e)
    BY StoreTyped DEF StoreOK
  <2>2. RootOK(st.sets, e.root, e.off)
    BY <1>2, <2>1 DEF EntryOK, ShiftEntry, RunsEntry, ListEntry
  <2>3. e.root \in IdsOf(st) /\ st.sets[e.root].form # "shift"
    BY <2>2 DEF RootOK, IdsOf
  <2>4. Settled(st, e.root, s)
    BY <2>3, FlattenedKeeps
  <2>5. RunsOf(st, e.root) = Flat(st.sets[e.root])
    BY <2>3, RunsOfNormal DEF StoreOK
  <2>6. s.sets[e.root].runs = Flat(st.sets[e.root])
    <3>1. s.sets[e.root] = PlainSet(RunsOf(st, e.root))
      BY <2>4 DEF Settled
    <3> HIDE DEF s
    <3> QED BY <2>5, <3>1 DEF PlainSet
  <2>7. new = [s EXCEPT !.sets[id] = PlainSet(AddRelRuns(s.sets[e.root].runs, e.off))]
    BY <1>2 DEF Materialised
  <2>8. RunsOf(st, id) = AddRelRuns(Flat(st.sets[e.root]), e.off)
    BY <1>2 DEF RunsOf
  <2> HIDE DEF s, e, new
  <2>9. StoreOK(s) /\ Grew(st, s) /\ Len(s.sets) = Len(st.sets) /\ RunsOf(s, id) = RunsOf(st, id)
    BY <2>4 DEF Settled, Grew
  <2>10. new = Replaced(s, id)
    BY <2>6, <2>7, <2>8, <2>9 DEF Replaced
  <2>11. id \in IdsOf(s) /\ IdsOf(s) = IdsOf(st)
    BY <2>9 DEF IdsOf
  <2>12. Settled(s, id, new)
    BY <2>9, <2>10, <2>11, ReplacedKeeps
  <2>13. Grew(st, new)
    BY <2>9, <2>12, GrewOn DEF Settled
  <2>14. ASSUME NEW k \in IdsOf(st), st.sets[k].form = "runs" PROVE new.sets[k] = st.sets[k]
    <3>1. s.sets[k] = st.sets[k]
      BY <2>4, <2>14 DEF Settled
    <3> QED BY <2>11, <2>12, <2>14, <3>1 DEF Settled
  <2>15. new.sets[id] = PlainSet(RunsOf(st, id)) /\ Len(new.sets) = Len(st.sets)
    BY <2>9, <2>12 DEF Settled
  <2> QED BY <2>13, <2>14, <2>15 DEF Settled, new
<1> QED
  BY <1>1, <1>2

LEMMA MaterialisedIs ==
  ASSUME NEW st, StoreOK(st), NEW id \in IdsOf(st)
  PROVE  /\ Grew(st, Materialised(st, id)) /\ StoreOK(Materialised(st, id))
         /\ Len(Materialised(st, id).sets) = Len(st.sets)
         /\ Materialised(st, id).sets[id].runs = RunsOf(st, id)
         /\ Means(st, id) = Meaning(st, id)
<1> DEFINE new == Materialised(st, id)
<1>1. Settled(st, id, new)
  BY MaterialisedKeeps
<1> HIDE DEF new
<1>2. Grew(st, new) /\ Len(new.sets) = Len(st.sets) /\ new.sets[id] = PlainSet(RunsOf(st, id))
  BY <1>1 DEF Settled
<1>3. new.sets[id].runs = RunsOf(st, id)
  BY <1>2 DEF PlainSet
<1>4. Means(st, id) = Meaning(st, id)
  BY <1>3 DEF Means, Meaning, new
<1> QED
  BY <1>2, <1>3, <1>4 DEF Grew, new

LEMMA PairIs ==
  ASSUME NEW st, StoreOK(st), NEW a \in IdsOf(st), NEW b \in IdsOf(st)
  PROVE  /\ Grew(st, Pair(st, a, b)) /\ StoreOK(Pair(st, a, b))
         /\ Pair(st, a, b).sets[a].runs = RunsOf(st, a) /\ Pair(st, a, b).sets[b].runs = RunsOf(st, b)
<1> DEFINE s == Materialised(st, a)
           new == Materialised(s, b)
<1>1. Settled(st, a, s)
  BY MaterialisedKeeps
<1> HIDE DEF s
<1>2. Grew(st, s) /\ StoreOK(s) /\ Len(s.sets) = Len(st.sets) /\ s.sets[a] = PlainSet(RunsOf(st, a))
  BY <1>1 DEF Settled, Grew
<1>3. IdsOf(s) = IdsOf(st) /\ RunsOf(s, b) = RunsOf(st, b)
  BY <1>2 DEF IdsOf, Grew
<1>4. Settled(s, b, new)
  BY <1>2, <1>3, MaterialisedKeeps
<1> HIDE DEF new
<1>5. Grew(s, new) /\ new.sets[b] = PlainSet(RunsOf(st, b))
  BY <1>3, <1>4 DEF Settled
<1>6. new.sets[a] = s.sets[a]
  <2>1. s.sets[a].form = "runs"
    BY <1>2 DEF PlainSet
  <2> QED BY <1>3, <1>4, <2>1 DEF Settled
<1>7. Grew(st, new) /\ StoreOK(new)
  BY <1>2, <1>5, GrewOn DEF Grew
<1>8. new.sets[a].runs = RunsOf(st, a) /\ new.sets[b].runs = RunsOf(st, b)
  BY <1>2, <1>5, <1>6 DEF PlainSet
<1>9. new = Pair(st, a, b)
  BY DEF Pair, new, s
<1> QED
  BY <1>7, <1>8, <1>9

-----------------------------------------------------------------------------
(* What is read of a set without its runs.                                 *)
LEMMA RootIs ==
  ASSUME NEW st, SetsOK(st), NEW id \in IdsOf(st)
  PROVE  /\ Root(st, id) \in IdsOf(st) /\ st.sets[Root(st, id)].form # "shift" /\ Offset(st, id) \in Nat
         /\ RunsEntry(st.sets[Root(st, id)]) \/ ListEntry(st.sets[Root(st, id)])
         /\ Normal(Flat(st.sets[Root(st, id)])) /\ Flat(st.sets[Root(st, id)]) \in Seq(Proper)
         /\ RunsOf(st, Root(st, id)) = Flat(st.sets[Root(st, id)])
         /\ \A i \in 1 .. Len(Flat(st.sets[Root(st, id)])) :
              Flat(st.sets[Root(st, id)])[i].hi + Offset(st, id) <= MaxRel
         /\ RunsOf(st, id) = AddRelRuns(Flat(st.sets[Root(st, id)]), Offset(st, id))
<1> DEFINE e == st.sets[id]
<1>1. e \in SetRec /\ EntryOK(st.sets, e)
  BY StoreTyped
<1>2. CASE e.form = "shift"
  <2>1. RootOK(st.sets, e.root, e.off) /\ e.off \in Nat
    BY <1>1, <1>2 DEF EntryOK, ShiftEntry, RunsEntry, ListEntry, SetRec
  <2>2. Root(st, id) = e.root /\ Offset(st, id) = e.off
    BY <1>2 DEF Root, Offset
  <2>3. RunsOf(st, id) = AddRelRuns(Flat(st.sets[e.root]), e.off)
    BY <1>2 DEF RunsOf
  <2> HIDE DEF e
  <2>4. /\ e.root \in IdsOf(st) /\ Normal(Flat(st.sets[e.root])) /\ Flat(st.sets[e.root]) \in Seq(Proper)
        /\ \A i \in 1 .. Len(Flat(st.sets[e.root])) : Flat(st.sets[e.root])[i].hi + e.off <= MaxRel
    BY <2>1, ShiftNormal
  <2>5. st.sets[e.root].form # "shift"
    BY <2>1 DEF RootOK
  <2>6. RunsEntry(st.sets[e.root]) \/ ListEntry(st.sets[e.root])
    <3>1. EntryOK(st.sets, st.sets[e.root])
      BY <2>4, StoreTyped
    <3> QED BY <2>5, <3>1 DEF EntryOK, ShiftEntry
  <2>7. RunsOf(st, e.root) = Flat(st.sets[e.root])
    BY <2>4, <2>5, RunsOfNormal
  <2> QED BY <2>1, <2>2, <2>3, <2>4, <2>5, <2>6, <2>7
<1>3. CASE e.form # "shift"
  <2>1. RunsEntry(e) \/ ListEntry(e)
    BY <1>1, <1>3 DEF EntryOK, ShiftEntry
  <2>2. Root(st, id) = id /\ Offset(st, id) = 0
    <3>1. e.off = 0
      <4>1. CASE RunsEntry(e)
        <5>1. PlainSet(e.runs).off = 0
          BY DEF PlainSet
        <5>2. e = PlainSet(e.runs)
          BY <4>1 DEF RunsEntry
        <5> HIDE DEF e
        <5> QED BY <5>1, <5>2
      <4>2. CASE ListEntry(e)
        <5>1. Listed(e.list).off = 0
          BY DEF Listed
        <5>2. e = Listed(e.list)
          BY <4>2 DEF ListEntry
        <5> HIDE DEF e
        <5> QED BY <5>1, <5>2
      <4> QED BY <2>1, <4>1, <4>2
    <3> QED BY <1>3, <3>1 DEF Root, Offset
  <2>3. RunsOf(st, id) = Flat(e)
    BY <1>3 DEF RunsOf
  <2>4. Normal(Flat(e)) /\ Flat(e) \in Seq(Proper)
    BY <2>1, FlatNormal
  <2>5. ASSUME NEW i \in 1 .. Len(Flat(e)) PROVE Flat(e)[i].hi + 0 <= MaxRel
    <3>1. Flat(e)[i] \in Proper
      BY <2>4, Members
    <3>2. Flat(e)[i].hi \in Nat /\ Flat(e)[i].hi <= MaxRel /\ MaxRel \in Nat
      BY <3>1, ProperRun
    <3> QED BY <3>2
  <2>6. AddRelRuns(Flat(e), 0) = Flat(e)
    BY <2>4, AddRelNone
  <2> QED BY <1>3, <2>1, <2>2, <2>3, <2>4, <2>5, <2>6
<1> QED
  BY <1>2, <1>3

LEMMA MaxIs ==
  ASSUME NEW S \in SUBSET (0 .. MaxRel), NEW m \in S, \A x \in S : x <= m
  PROVE  Max(S) = m
<1>1. 0 \in Int /\ MaxRel \in Int /\ S # {}
  BY NullSetsAssumption
<1>2. Max(S) \in S /\ \A x \in S : x <= Max(S)
  BY <1>1, GreatestOf
<1>3. \A x \in S : x \in Nat
  <2>1. \A x \in 0 .. MaxRel : x \in Nat
    BY NullSetsAssumption
  <2> QED BY <2>1
<1> DEFINE g == Max(S)
<1>4. m <= g /\ g <= m /\ m \in Nat /\ g \in Nat
  BY <1>2, <1>3
<1> HIDE DEF g
<1>5. g = m
  BY <1>4
<1> QED
  BY <1>5 DEF g

(* The bounds the root of a set tells.                                     *)
Lowest(e)  == IF e.form = "list" THEN e.list.min ELSE IF e.runs = <<>> THEN 0 ELSE e.runs[1].lo
Highest(e) == IF e.form = "list" THEN e.list.max ELSE Max({0} \cup {s.hi : s \in ToSet(e.runs)})

LEMMA RootBounds ==
  ASSUME NEW e, RunsEntry(e) \/ ListEntry(e)
  PROVE  /\ Lowest(e) \in Nat /\ Highest(e) \in Nat
         /\ Flat(e) # <<>> => Lowest(e) = Flat(e)[1].lo
         /\ \A i \in 1 .. Len(Flat(e)) : Flat(e)[i].hi <= Highest(e)
         /\ Flat(e) # <<>> => \E i \in 1 .. Len(Flat(e)) : Flat(e)[i].hi = Highest(e)
<1> DEFINE f == Flat(e)
           n == Len(f)
<1>1. f \in Seq(Proper) /\ n \in Nat /\ (f = <<>> <=> n = 0)
      /\ \A i \in 1 .. n : f[i] \in Proper /\ f[i] \in ToSet(f)
  BY FlatNormal, Members
<1>2. \A i \in 1 .. n : f[i].lo \in Nat /\ f[i].hi \in Nat /\ f[i].hi <= MaxRel
  BY <1>1, ProperRun
<1>3. CASE ListEntry(e)
  <2> DEFINE l == e.list
  <2>1. e.form = "list" /\ ListOK(l)
    BY <1>3 DEF ListEntry
  <2>2. f = ToVec(l) /\ Lowest(e) = l.min /\ Highest(e) = l.max
    BY <2>1 DEF Flat, Lowest, Highest
  <2> HIDE DEF l, f
  <2>3. Chain(f) /\ l.min = f[1].lo /\ l.max = f[Len(f)].hi
    BY <2>1, <2>2 DEF ListOK
  <2>4. 1 \in 1 .. n /\ n \in 1 .. n /\ \A i \in 1 .. n : f[i].hi <= f[n].hi
    BY <2>3, ChainFacts
  <2> QED BY <1>2, <2>2, <2>3, <2>4 DEF f
<1>4. CASE RunsEntry(e)
  <2> DEFINE S == {0} \cup {s.hi : s \in ToSet(f)}
  <2>1. e.form = "runs" /\ f = e.runs
    BY <1>4 DEF RunsEntry, Flat
  <2>2. Lowest(e) = (IF f = <<>> THEN 0 ELSE f[1].lo) /\ Highest(e) = Max(S)
    BY <2>1 DEF Lowest, Highest
  <2>3. \A x \in ToSet(f) : \E i \in 1 .. n : x = f[i]
    BY <1>1, Members
  <2>4. MaxRel \in Nat
    BY NullSetsAssumption
  <2> HIDE DEF f
  <2>5. S \in SUBSET (0 .. MaxRel) /\ S # {}
    <3>1. \A x \in ToSet(f) : x.hi \in 0 .. MaxRel
      BY <1>2, <2>3, <2>4
    <3> QED BY <2>4, <3>1
  <2>6. Max(S) \in S /\ \A x \in S : x <= Max(S)
    <3>1. 0 \in Int /\ MaxRel \in Int
      BY <2>4
    <3> HIDE DEF S
    <3> QED BY <2>5, <3>1, GreatestOf
  <2>7. Max(S) \in Nat
    BY <2>4, <2>5, <2>6
  <2>8. \A i \in 1 .. n : f[i].hi \in S
    BY <1>1
  <2>9. ASSUME f # <<>> PROVE \E i \in 1 .. n : f[i].hi = Max(S)
    <3>1. 1 \in 1 .. n
      BY <1>1, <2>9
    <3>2. CASE Max(S) = 0
      <4>1. f[1].hi <= 0 /\ f[1].hi \in Nat
        BY <1>2, <2>6, <2>8, <3>1, <3>2
      <4>2. f[1].hi = 0
        BY <4>1
      <4> QED BY <3>1, <3>2, <4>2
    <3>3. CASE Max(S) # 0
      <4>1. PICK x \in ToSet(f) : x.hi = Max(S)
        BY <2>6, <3>3
      <4> QED BY <2>3, <4>1
    <3> QED BY <3>2, <3>3
  <2>10. f # <<>> => f[1].lo \in Nat
    <3>1. f # <<>> => 1 \in 1 .. n
      BY <1>1
    <3> QED BY <1>2, <3>1
  <2> HIDE DEF S
  <2>11. \A i \in 1 .. n : f[i].hi <= Max(S)
    BY <2>6, <2>8
  <2> QED BY <2>2, <2>7, <2>9, <2>10, <2>11 DEF f
<1> QED
  BY <1>3, <1>4

(* The least and the greatest rel of a set, and its only run, are those of *)
(* its runs.                                                               *)
LEMMA ReadsAre ==
  ASSUME NEW st, SetsOK(st), NEW id \in IdsOf(st)
  PROVE  /\ MinRel(st, id) \in Nat /\ MaxRelOf(st, id) \in Nat
         /\ RunsOf(st, id) # <<>> => MinRel(st, id) = RunsOf(st, id)[1].lo
         /\ \A i \in 1 .. Len(RunsOf(st, id)) : RunsOf(st, id)[i].hi <= MaxRelOf(st, id)
         /\ RunsOf(st, id) # <<>> => \E i \in 1 .. Len(RunsOf(st, id)) : RunsOf(st, id)[i].hi = MaxRelOf(st, id)
<1> DEFINE e == st.sets[Root(st, id)]
           f == Flat(e)
           d == Offset(st, id)
           q == RunsOf(st, id)
<1>1. /\ e.form # "shift" /\ d \in Nat /\ (RunsEntry(e) \/ ListEntry(e)) /\ f \in Seq(Proper)
      /\ \A i \in 1 .. Len(f) : f[i].hi + d <= MaxRel
  BY RootIs
<1>2. q = AddRelRuns(f, d)
  BY RootIs
<1>3. MinRel(st, id) = d + Lowest(e) /\ MaxRelOf(st, id) = d + Highest(e)
  BY DEF MinRel, MaxRelOf, Lowest, Highest
<1> HIDE DEF e, d, q
<1>4. /\ Lowest(e) \in Nat /\ Highest(e) \in Nat
      /\ f # <<>> => Lowest(e) = f[1].lo
      /\ \A i \in 1 .. Len(f) : f[i].hi <= Highest(e)
      /\ f # <<>> => \E i \in 1 .. Len(f) : f[i].hi = Highest(e)
  BY <1>1, RootBounds
<1> HIDE DEF f
<1>5. Len(f) \in Nat /\ (f = <<>> <=> Len(f) = 0) /\ \A i \in 1 .. Len(f) : f[i] \in Proper
  BY <1>1, Members
<1>6. q \in Seq(Proper) /\ Len(q) = Len(f) /\ \A i \in 1 .. Len(f) : q[i] = ShiftRun(f[i], d)
  BY <1>1, <1>2, AddRelRunsAre
<1>7. \A i \in 1 .. Len(f) : q[i].lo = f[i].lo + d /\ q[i].hi = f[i].hi + d /\ f[i].lo \in Nat /\ f[i].hi \in Nat
  <2> SUFFICES ASSUME NEW i \in 1 .. Len(f)
               PROVE  q[i].lo = f[i].lo + d /\ q[i].hi = f[i].hi + d /\ f[i].lo \in Nat /\ f[i].hi \in Nat
    OBVIOUS
  <2>1. q[i] = ShiftRun(f[i], d)
    BY <1>6
  <2>2. f[i].lo \in Nat /\ f[i].hi \in Nat
    BY <1>5, ProperRun
  <2> QED BY <2>1, <2>2 DEF ShiftRun, Tagged
<1>8. q = <<>> <=> f = <<>>
  BY <1>5, <1>6, Members
<1>9. MinRel(st, id) \in Nat /\ MaxRelOf(st, id) \in Nat
  BY <1>1, <1>3, <1>4
<1>10. ASSUME q # <<>> PROVE MinRel(st, id) = q[1].lo
  <2>1. 1 \in 1 .. Len(f) /\ Lowest(e) = f[1].lo
    BY <1>4, <1>5, <1>8, <1>10
  <2>2. q[1].lo = f[1].lo + d /\ f[1].lo \in Nat
    BY <1>7, <2>1
  <2> QED BY <1>1, <1>3, <2>1, <2>2
<1>11. ASSUME NEW i \in 1 .. Len(f) PROVE q[i].hi <= MaxRelOf(st, id)
  <2>1. q[i].hi = f[i].hi + d /\ f[i].hi \in Nat /\ f[i].hi <= Highest(e)
    BY <1>4, <1>7
  <2> QED BY <1>1, <1>3, <1>4, <2>1
<1>12. ASSUME q # <<>> PROVE \E i \in 1 .. Len(f) : q[i].hi = MaxRelOf(st, id)
  <2>1. PICK i \in 1 .. Len(f) : f[i].hi = Highest(e)
    BY <1>4, <1>8, <1>12
  <2>2. q[i].hi = f[i].hi + d
    BY <1>7
  <2>3. q[i].hi = MaxRelOf(st, id)
    BY <1>1, <1>3, <1>4, <2>1, <2>2
  <2> QED BY <2>3
<1> QED
  BY <1>6, <1>9, <1>10, <1>11, <1>12 DEF q

LEMMA ViewIs ==
  ASSUME NEW st, SetsOK(st), NEW id \in IdsOf(st)
  PROVE  SingleRunView(st, id) = IF Len(RunsOf(st, id)) = 1 THEN ToSet(RunsOf(st, id)) ELSE {}
<1> DEFINE e == st.sets[Root(st, id)]
           f == Flat(e)
           d == Offset(st, id)
           q == RunsOf(st, id)
           runs == IF e.form = "list" THEN e.list.runs ELSE e.runs
<1>1. /\ e.form # "shift" /\ d \in Nat /\ (RunsEntry(e) \/ ListEntry(e)) /\ f \in Seq(Proper)
      /\ \A i \in 1 .. Len(f) : f[i].hi + d <= MaxRel
  BY RootIs
<1>2. q = AddRelRuns(f, d)
  BY RootIs
<1>3. SingleRunView(st, id) = IF Len(runs) # 1 THEN {} ELSE ToSet(AddRelRuns(runs, d))
  BY DEF SingleRunView
<1>4. Len(q) = Len(f)
  BY <1>1, <1>2, AddRelRunsAre
<1>5. Len(runs) = Len(f) /\ (Len(f) = 1 => runs = f)
  <2>1. CASE RunsEntry(e)
    BY <2>1 DEF RunsEntry, Flat
  <2>2. CASE ListEntry(e)
    <3> DEFINE l == e.list
    <3>1. e.form = "list" /\ ListOK(l)
      BY <2>2 DEF ListEntry
    <3>2. f = ToVec(l) /\ runs = l.runs
      BY <3>1 DEF Flat
    <3> HIDE DEF l, f, runs
    <3>3. /\ l.runs \in Seq(Proper) /\ Len(f) = Len(l.runs) /\ f \in Seq(Proper)
          /\ l.asc => f = l.runs
          /\ ~ l.asc => l.runs[1] = f[Len(f)]
      BY <3>1, <3>2, ListFacts
    <3>4. ASSUME Len(f) = 1, ~ l.asc PROVE l.runs = f
      <4>1. \A i \in 1 .. Len(l.runs) : l.runs[i] = f[i]
        BY <3>3, <3>4
      <4> QED BY <3>3, <4>1, SeqEqual
    <3> QED BY <3>2, <3>3, <3>4
  <2> QED BY <1>1, <2>1, <2>2
<1> HIDE DEF runs, f, e, d, q
<1> QED
  BY <1>2, <1>3, <1>4, <1>5 DEF q

-----------------------------------------------------------------------------
(* A set more, and a line more in a table.                                 *)
LEMMA AddKeeps ==
  ASSUME NEW st, StoreOK(st), NEW e \in SetRec, EntryOK(st.sets, e),
         NEW runs, runs # <<>>,
         runs = IF e.form = "shift" THEN AddRelRuns(Flat(st.sets[e.root]), e.off) ELSE Flat(e)
  PROVE  /\ Grew(st, Add(st, e).st) /\ Add(st, e).id = Len(st.sets) + 1
         /\ Add(st, e).id \in IdsOf(Add(st, e).st) /\ RunsOf(Add(st, e).st, Add(st, e).id) = runs
         /\ Add(st, e).st.sets[Add(st, e).id] = e
<1> DEFINE new == Add(st, e).st
           n == Len(st.sets)
           sets == Append(st.sets, e)
<1>1. /\ st \in StoreRec /\ st.sets \in Seq(SetRec) /\ n \in Nat /\ n >= 5 /\ IdsOf(st) = 1 .. n /\ 1 .. 5 \subseteq 1 .. n
      /\ \A k \in 1 .. n : st.sets[k] \in SetRec /\ EntryOK(st.sets, st.sets[k])
  BY StoreTyped DEF StoreOK
<1>2. SetsOK(st)
  BY DEF StoreOK
<1>3. Add(st, e) = [st |-> new, id |-> n + 1] /\ new = [st EXCEPT !.sets = sets]
  BY DEF Add, Gives
<1> HIDE DEF n, new
<1>4. sets \in Seq(SetRec) /\ Len(sets) = n + 1 /\ sets[n + 1] = e /\ \A k \in 1 .. n : sets[k] = st.sets[k]
  BY <1>1, AppendProperties DEF n
<1> HIDE DEF sets
<1>5. /\ new \in StoreRec /\ new.sets = sets /\ new.cache = st.cache /\ new.created = st.created
      /\ new.shifts = st.shifts /\ new.rels = st.rels
  BY <1>1, <1>3, <1>4 DEF StoreRec
<1>6. IdsOf(new) = 1 .. n + 1 /\ n + 1 \in 1 .. n + 1 /\ \A k \in 1 .. n + 1 : k = n + 1 \/ k \in 1 .. n
  BY <1>1, <1>4, <1>5 DEF IdsOf
<1>7. ASSUME NEW root, NEW off, RootOK(st.sets, root, off)
      PROVE  RootOK(sets, root, off) /\ Flat(sets[root]) = Flat(st.sets[root])
  <2>1. root \in 1 .. n
    BY <1>7 DEF RootOK, n
  <2>2. sets[root] = st.sets[root] /\ root \in 1 .. Len(sets)
    BY <1>1, <1>4, <2>1
  <2> QED BY <1>7, <2>2 DEF RootOK
<1>8. ASSUME NEW x, EntryOK(st.sets, x)
      PROVE  EntryOK(sets, x) /\ (x.form = "shift" => Flat(sets[x.root]) = Flat(st.sets[x.root]))
  <2>1. CASE RunsEntry(x) \/ ListEntry(x)
    BY <2>1 DEF EntryOK, RunsEntry, ListEntry
  <2>2. CASE ShiftEntry(st.sets, x)
    <3>1. x = Shifted(x.root, x.off) /\ x.form = "shift" /\ RootOK(st.sets, x.root, x.off)
      BY <2>2 DEF ShiftEntry
    <3>2. RootOK(sets, x.root, x.off) /\ Flat(sets[x.root]) = Flat(st.sets[x.root])
      BY <1>7, <3>1
    <3> QED BY <3>1, <3>2 DEF EntryOK, ShiftEntry
  <2> QED BY <1>8, <2>1, <2>2 DEF EntryOK
<1>9. ASSUME NEW k \in 1 .. n PROVE EntryOK(sets, sets[k]) /\ RunsOf(new, k) = RunsOf(st, k)
  <2>1. sets[k] = st.sets[k] /\ EntryOK(st.sets, st.sets[k])
    BY <1>1, <1>4
  <2>2. EntryOK(sets, sets[k]) /\ (sets[k].form = "shift" => Flat(sets[sets[k].root]) = Flat(st.sets[sets[k].root]))
    BY <1>8, <2>1
  <2> QED BY <1>5, <2>1, <2>2 DEF RunsOf
<1>10. EntryOK(sets, e) /\ RunsOf(new, n + 1) = runs
  <2>1. EntryOK(sets, e) /\ (e.form = "shift" => Flat(sets[e.root]) = Flat(st.sets[e.root]))
    BY <1>8
  <2> QED BY <1>4, <1>5, <2>1 DEF RunsOf
<1>11. SetsOK(new)
  <2>1. \A k \in 1 .. 5 : sets[k] = NewStore.sets[k]
    BY <1>1, <1>2, <1>4 DEF SetsOK
  <2>2. \A k \in 1 .. n + 1 : EntryOK(sets, sets[k])
    BY <1>4, <1>6, <1>9, <1>10
  <2>3. \A k \in 1 .. n + 1 : RunsOf(new, k) = <<>> => k = EMPTY
    BY <1>1, <1>2, <1>6, <1>9, <1>10 DEF SetsOK
  <2>4. Len(sets) >= 5
    BY <1>1, <1>4
  <2> QED BY <1>5, <1>6, <2>1, <2>2, <2>3, <2>4 DEF SetsOK
<1>12. Grew(st, new)
  <2>1. Len(st.sets) <= Len(new.sets)
    BY <1>1, <1>4, <1>5 DEF n
  <2>2. \A k \in IdsOf(st) : st.sets[k].form = "runs" => new.sets[k].form = "runs"
    BY <1>1, <1>4, <1>5
  <2>3. \A k \in IdsOf(st) : RunsOf(new, k) = RunsOf(st, k)
    BY <1>1, <1>9
  <2> QED BY <1>5, <1>11, <2>1, <2>2, <2>3, TablesKept
<1>13. Add(st, e).id = n + 1
  BY <1>3
<1>14. n + 1 \in IdsOf(new) /\ RunsOf(new, n + 1) = runs /\ new.sets[n + 1] = e
  BY <1>4, <1>5, <1>6, <1>10
<1> QED
  BY <1>12, <1>13, <1>14 DEF n, new

LEMMA SameSets ==
  ASSUME NEW st, StoreOK(st), NEW new \in StoreRec, new.sets = st.sets,
         TablesOK(st) => TablesOK(new)
  PROVE  Grew(st, new)
<1>1. SetsOK(new) /\ \A id : RunsOf(new, id) = RunsOf(st, id)
  BY DEF StoreOK, SetsOK, IdsOf, RunsOf
<1>2. Len(st.sets) \in Nat
  BY StoreTyped DEF StoreOK
<1> QED
  BY <1>1, <1>2 DEF Grew, StoreOK

LEMMA CacheMore ==
  ASSUME NEW st, StoreOK(st), NEW id \in IdsOf(st), st.sets[id].form = "runs"
  PROVE  /\ Grew(st, [st EXCEPT !.cache = @ \cup {id}])
         /\ [st EXCEPT !.cache = @ \cup {id}].sets = st.sets
<1> DEFINE new == [st EXCEPT !.cache = @ \cup {id}]
<1>1. st \in StoreRec /\ id \in Nat
  BY StoreTyped DEF StoreOK
<1>2. /\ new \in StoreRec /\ new.sets = st.sets /\ new.cache = st.cache \cup {id}
      /\ new.created = st.created /\ new.shifts = st.shifts /\ new.rels = st.rels
  BY <1>1 DEF StoreRec
<1> HIDE DEF new
<1>3. ASSUME TablesOK(st) PROVE TablesOK(new)
  <2>1. IdsOf(new) = IdsOf(st) /\ \A k : Meaning(new, k) = Meaning(st, k)
    BY <1>2 DEF IdsOf, Meaning, RunsOf
  <2>2. /\ 1 .. 5 \subseteq new.cache /\ new.cache \subseteq IdsOf(new)
        /\ \A k \in new.cache : new.sets[k].form = "runs"
    BY <1>2, <1>3, <2>1 DEF TablesOK
  <2> QED BY <1>2, <1>3, <2>1, <2>2 DEF TablesOK
<1>4. Grew(st, new)
  BY <1>2, <1>3, SameSets
<1> QED
  BY <1>2, <1>4 DEF new

LEMMA CreatedMore ==
  ASSUME NEW st, StoreOK(st), NEW op \in {"or", "and"},
         NEW a \in IdsOf(st), NEW b \in IdsOf(st), NEW id \in IdsOf(st),
         Meaning(st, id) = Result(op, Meaning(st, a), Meaning(st, b))
  PROVE  /\ Grew(st, [st EXCEPT !.created = @ \cup {[op |-> op, left |-> a, right |-> b, id |-> id]}])
         /\ [st EXCEPT !.created = @ \cup {[op |-> op, left |-> a, right |-> b, id |-> id]}].sets = st.sets
<1> DEFINE m == [op |-> op, left |-> a, right |-> b, id |-> id]
           new == [st EXCEPT !.created = @ \cup {m}]
<1>1. st \in StoreRec /\ id \in Nat /\ a \in Nat /\ b \in Nat
  BY StoreTyped DEF StoreOK
<1>2. m.op = op /\ m.left = a /\ m.right = b /\ m.id = id /\ m \in [op : {"or", "and"}, left : Nat, right : Nat, id : Nat]
  BY <1>1
<1> HIDE DEF m
<1>3. /\ new \in StoreRec /\ new.sets = st.sets /\ new.cache = st.cache
      /\ new.created = st.created \cup {m} /\ new.shifts = st.shifts /\ new.rels = st.rels
  BY <1>1, <1>2 DEF StoreRec
<1> HIDE DEF new
<1>4. ASSUME TablesOK(st) PROVE TablesOK(new)
  <2>1. IdsOf(new) = IdsOf(st) /\ \A k : Meaning(new, k) = Meaning(st, k)
    BY <1>3 DEF IdsOf, Meaning, RunsOf
  <2>2. \A x \in new.created :
          /\ x.left \in IdsOf(new) /\ x.right \in IdsOf(new) /\ x.id \in IdsOf(new)
          /\ Meaning(new, x.id) = Result(x.op, Meaning(new, x.left), Meaning(new, x.right))
    BY <1>2, <1>3, <1>4, <2>1 DEF TablesOK
  <2> QED BY <1>3, <1>4, <2>1, <2>2 DEF TablesOK
<1>5. Grew(st, new)
  BY <1>3, <1>4, SameSets
<1> QED
  BY <1>3, <1>5 DEF new, m

LEMMA ShiftsMore ==
  ASSUME NEW st, StoreOK(st), NEW root \in IdsOf(st), NEW off \in Nat, NEW id \in IdsOf(st),
         Meaning(st, id) = ShiftMeans(Meaning(st, root), {off})
  PROVE  /\ Grew(st, [st EXCEPT !.shifts = @ \cup {[root |-> root, off |-> off, id |-> id]}])
         /\ [st EXCEPT !.shifts = @ \cup {[root |-> root, off |-> off, id |-> id]}].sets = st.sets
<1> DEFINE m == [root |-> root, off |-> off, id |-> id]
           new == [st EXCEPT !.shifts = @ \cup {m}]
<1>1. st \in StoreRec /\ id \in Nat /\ root \in Nat
  BY StoreTyped DEF StoreOK
<1>2. m.root = root /\ m.off = off /\ m.id = id /\ m \in [root : Nat, off : Nat, id : Nat]
  BY <1>1
<1> HIDE DEF m
<1>3. /\ new \in StoreRec /\ new.sets = st.sets /\ new.cache = st.cache
      /\ new.created = st.created /\ new.shifts = st.shifts \cup {m} /\ new.rels = st.rels
  BY <1>1, <1>2 DEF StoreRec
<1> HIDE DEF new
<1>4. ASSUME TablesOK(st) PROVE TablesOK(new)
  <2>1. IdsOf(new) = IdsOf(st) /\ \A k : Meaning(new, k) = Meaning(st, k)
    BY <1>3 DEF IdsOf, Meaning, RunsOf
  <2>2. \A x \in new.shifts :
          /\ x.root \in IdsOf(new) /\ x.id \in IdsOf(new)
          /\ Meaning(new, x.id) = ShiftMeans(Meaning(new, x.root), {x.off})
    BY <1>2, <1>3, <1>4, <2>1 DEF TablesOK
  <2> QED BY <1>3, <1>4, <2>1, <2>2 DEF TablesOK
<1>5. Grew(st, new)
  BY <1>3, <1>4, SameSets
<1> QED
  BY <1>3, <1>5 DEF new, m

LEMMA RelsMore ==
  ASSUME NEW st, StoreOK(st), NEW set \in IdsOf(st), NEW rel \in Nat, NEW id \in IdsOf(st),
         Meaning(st, id) = ShiftMeans(Meaning(st, set), {rel})
  PROVE  /\ Grew(st, [st EXCEPT !.rels = @ \cup {[set |-> set, rel |-> rel, id |-> id]}])
         /\ [st EXCEPT !.rels = @ \cup {[set |-> set, rel |-> rel, id |-> id]}].sets = st.sets
<1> DEFINE m == [set |-> set, rel |-> rel, id |-> id]
           new == [st EXCEPT !.rels = @ \cup {m}]
<1>1. st \in StoreRec /\ id \in Nat /\ set \in Nat
  BY StoreTyped DEF StoreOK
<1>2. m.set = set /\ m.rel = rel /\ m.id = id /\ m \in [set : Nat, rel : Nat, id : Nat]
  BY <1>1
<1> HIDE DEF m
<1>3. /\ new \in StoreRec /\ new.sets = st.sets /\ new.cache = st.cache
      /\ new.created = st.created /\ new.shifts = st.shifts /\ new.rels = st.rels \cup {m}
  BY <1>1, <1>2 DEF StoreRec
<1> HIDE DEF new
<1>4. ASSUME TablesOK(st) PROVE TablesOK(new)
  <2>1. IdsOf(new) = IdsOf(st) /\ \A k : Meaning(new, k) = Meaning(st, k)
    BY <1>3 DEF IdsOf, Meaning, RunsOf
  <2>2. \A x \in new.rels :
          /\ x.set \in IdsOf(new) /\ x.id \in IdsOf(new)
          /\ Meaning(new, x.id) = ShiftMeans(Meaning(new, x.set), {x.rel})
    BY <1>2, <1>3, <1>4, <2>1 DEF TablesOK
  <2> QED BY <1>3, <1>4, <2>1, <2>2 DEF TablesOK
<1>5. Grew(st, new)
  BY <1>3, <1>4, SameSets
<1> QED
  BY <1>3, <1>5 DEF new, m

-----------------------------------------------------------------------------
(* Operations: each grows the store and gives a set that means what it     *)
(* should.                                                                 *)
LEMMA YieldsOn ==
  ASSUME NEW st, StoreOK(st), NEW mid, Grew(st, mid), NEW r, NEW M, Yields(mid, r, M)
  PROVE  Yields(st, r, M)
<1>1. Grew(st, r.st)
  BY GrewOn DEF Yields
<1> QED
  BY <1>1 DEF Yields

LEMMA GivesYields ==
  ASSUME NEW st, NEW new, Grew(st, new), NEW id \in IdsOf(new)
  PROVE  Yields(st, Gives(new, id), Meaning(new, id))
  BY DEF Yields, Gives

LEMMA GivesSelf ==
  ASSUME NEW st, StoreOK(st), NEW id \in IdsOf(st)
  PROVE  Yields(st, Gives(st, id), Meaning(st, id))
  BY GrewSelf, GivesYields

LEMMA MemoYields ==
  ASSUME NEW st, StoreOK(st), NEW a \in IdsOf(st), NEW b \in IdsOf(st), NEW op \in {"or", "and"},
         NEW r, NEW mid, Grew(st, mid), Yields(mid, r, Result(op, Meaning(st, a), Meaning(st, b)))
  PROVE  Yields(st, Memo(op, a, b, r), Result(op, Meaning(st, a), Meaning(st, b)))
<1> DEFINE M == Result(op, Meaning(st, a), Meaning(st, b))
           t == r.st
           new == [t EXCEPT !.created = @ \cup {[op |-> op, left |-> a, right |-> b, id |-> r.id]}]
<1>1. Grew(st, t) /\ r.id \in IdsOf(t) /\ Meaning(t, r.id) = M
  BY YieldsOn DEF Yields
<1>2. Memo(op, a, b, r) = Gives(new, r.id)
  BY DEF Memo
<1> HIDE DEF t
<1>3. StoreOK(t) /\ a \in IdsOf(t) /\ b \in IdsOf(t) /\ Meaning(t, a) = Meaning(st, a) /\ Meaning(t, b) = Meaning(st, b)
  BY <1>1, GrewIds
<1>4. Meaning(t, r.id) = Result(op, Meaning(t, a), Meaning(t, b))
  BY <1>1, <1>3
<1>5. Grew(t, new) /\ new.sets = t.sets
  BY <1>1, <1>3, <1>4, CreatedMore
<1> HIDE DEF new, M
<1>6. Grew(st, new)
  BY <1>1, <1>5, GrewOn
<1>7. r.id \in IdsOf(new) /\ Meaning(new, r.id) = M
  BY <1>1, <1>3, <1>5, GrewIds
<1>8. Yields(st, Gives(new, r.id), M)
  BY <1>6, <1>7, GivesYields
<1> QED
  BY <1>2, <1>8 DEF M

(* get_runs_id.                                                            *)
LEMMA GetRunsIdYields ==
  ASSUME NEW st, StoreOK(st), NEW runs, Normal(runs)
  PROVE  Yields(st, GetRunsId(st, runs), RunsMean(runs))
<1> DEFINE known == {id \in st.cache : st.sets[id].runs = runs}
           r == GetRunsId(st, runs)
<1>1. SetsOK(st) /\ TablesOK(st)
  BY DEF StoreOK
<1>2. CASE known # {}
  <2> DEFINE id == CHOOSE k \in known : TRUE
  <2>1. id \in st.cache /\ st.sets[id].runs = runs
    BY <1>2
  <2>2. r = Gives(st, id)
    BY <1>2 DEF GetRunsId
  <2> HIDE DEF id
  <2>3. id \in IdsOf(st) /\ st.sets[id].form = "runs"
    BY <1>1, <2>1 DEF TablesOK
  <2>4. RunsOf(st, id) = runs
    BY <1>1, <2>1, <2>3, RunsOfNormal
  <2>5. Meaning(st, id) = RunsMean(runs)
    BY <2>4 DEF Meaning
  <2> QED BY <2>2, <2>3, <2>5, GivesSelf
<1>3. CASE known = {}
  <2> DEFINE e == PlainSet(runs)
             q == Add(st, e)
             new == [q.st EXCEPT !.cache = @ \cup {q.id}]
  <2>1. runs # <<>>
    <3>1. 1 \in st.cache /\ st.sets[1] = NewStore.sets[1]
      BY <1>1 DEF TablesOK, SetsOK
    <3>2. st.sets[1].runs = <<>>
      BY <3>1 DEF NewStore, PlainSet
    <3> QED BY <1>3, <3>1, <3>2
  <2>2. e \in SetRec /\ RunsEntry(e) /\ Flat(e) = runs /\ e.form = "runs"
    BY PlainEntry
  <2>3. r = Gives(new, q.id)
    BY <1>3 DEF GetRunsId, Add, Gives
  <2> HIDE DEF e
  <2>4. EntryOK(st.sets, e)
    BY <2>2 DEF EntryOK
  <2>5. Grew(st, q.st) /\ q.id \in IdsOf(q.st) /\ RunsOf(q.st, q.id) = runs /\ q.st.sets[q.id] = e
    BY <2>1, <2>2, <2>4, AddKeeps
  <2> HIDE DEF q
  <2>6. StoreOK(q.st)
    BY <2>5 DEF Grew
  <2>7. Grew(q.st, new) /\ new.sets = q.st.sets
    BY <2>2, <2>5, <2>6, CacheMore
  <2> HIDE DEF new
  <2>8. Grew(st, new) /\ q.id \in IdsOf(new) /\ RunsOf(new, q.id) = runs
    BY <2>5, <2>6, <2>7, GrewOn, GrewIds
  <2>9. Meaning(new, q.id) = RunsMean(runs)
    BY <2>8 DEF Meaning
  <2> QED BY <2>3, <2>8, <2>9, GivesYields
<1> QED
  BY <1>2, <1>3

(* One run, and the sets every store begins with.                          *)
LEMMA OneRunMeans ==
  ASSUME NEW r \in Proper
  PROVE  Normal(<<r>>) /\ RunsMean(<<r>>) = {<<rel, r.tag, b>> : rel \in r.lo .. r.hi, b \in r.mask}
<1>2. Normal(<<r>>)
  BY OneChain, ChainNormal
<1>3. ToSet(<<r>>) = {r}
  <2> DEFINE s == <<r>>
             V == {r}
  <2>1. s \in Seq(V) /\ Len(s) = 1 /\ s[1] = r
    OBVIOUS
  <2> HIDE DEF s, V
  <2>2. ToSet(s) \subseteq V /\ \A i \in 1 .. Len(s) : s[i] \in ToSet(s)
    BY <2>1, Members
  <2>3. 1 \in 1 .. Len(s)
    BY <2>1
  <2>4. r \in ToSet(s)
    BY <2>1, <2>2, <2>3
  <2> QED BY <2>2, <2>4 DEF s, V
<1>4. RunsMean(<<r>>) = {<<rel, r.tag, b>> : rel \in r.lo .. r.hi, b \in r.mask}
  BY <1>3 DEF RunsMean
<1> QED
  BY <1>2, <1>4

LEMMA RunAtZero ==
  ASSUME NEW mask \in (SUBSET Bit) \ {{}}
  PROVE  Normal(<<Run(mask, 0, 0)>>) /\ RunsMean(<<Run(mask, 0, 0)>>) = {<<0, NoTag, b>> : b \in mask}
<1> DEFINE r == Run(mask, 0, 0)
<1>1. 0 \in Rel /\ NoTag \in Nat /\ 0 <= 0 /\ 0 .. 0 = {0}
  BY NullSetsAssumption DEF Rel
<1>2. r \in Proper /\ r.mask = mask /\ r.lo = 0 /\ r.hi = 0 /\ r.tag = NoTag
  BY <1>1 DEF Run, Tagged, Proper
<1> HIDE DEF r
<1>3. Normal(<<r>>) /\ RunsMean(<<r>>) = {<<rel, r.tag, b>> : rel \in r.lo .. r.hi, b \in r.mask}
  BY <1>2, OneRunMeans
<1>4. {<<rel, NoTag, b>> : rel \in 0 .. 0, b \in mask} = {<<0, NoTag, b>> : b \in mask}
  BY <1>1
<1> QED
  BY <1>2, <1>3, <1>4 DEF r

LEMMA FirstSets ==
  ASSUME NEW st, SetsOK(st)
  PROVE  /\ 1 \in IdsOf(st) /\ 2 \in IdsOf(st) /\ 3 \in IdsOf(st) /\ 4 \in IdsOf(st) /\ 5 \in IdsOf(st)
         /\ Meaning(st, EMPTY) = {} /\ RunsOf(st, EMPTY) = <<>>
         /\ Meaning(st, CENTER0) = {<<0, NoTag, "center">>}
         /\ Meaning(st, ALWAYS0) = {<<0, NoTag, b>> : b \in Bit}
         /\ Meaning(st, BEGIN0) = {<<0, NoTag, "begin">>}
         /\ Meaning(st, END0) = {<<0, NoTag, "end">>}
<1>1. \A id \in 1 .. 5 : id \in IdsOf(st) /\ st.sets[id] = NewStore.sets[id]
  BY StoreTyped DEF SetsOK
<1>2. ASSUME NEW id \in 1 .. 5, NEW runs, NewStore.sets[id] = PlainSet(runs)
      PROVE  RunsOf(st, id) = runs
  BY <1>1, <1>2 DEF RunsOf, Flat, PlainSet
<1>3. /\ NewStore.sets[1] = PlainSet(<<>>) /\ NewStore.sets[2] = PlainSet(<<Run({"center"}, 0, 0)>>)
      /\ NewStore.sets[3] = PlainSet(<<Run(Always, 0, 0)>>) /\ NewStore.sets[4] = PlainSet(<<Run({"begin"}, 0, 0)>>)
      /\ NewStore.sets[5] = PlainSet(<<Run({"end"}, 0, 0)>>)
  BY DEF NewStore
<1>4. 1 \in 1 .. 5 /\ 2 \in 1 .. 5 /\ 3 \in 1 .. 5 /\ 4 \in 1 .. 5 /\ 5 \in 1 .. 5
  OBVIOUS
<1>5. /\ RunsOf(st, 1) = <<>> /\ RunsOf(st, 2) = <<Run({"center"}, 0, 0)>> /\ RunsOf(st, 3) = <<Run(Always, 0, 0)>>
      /\ RunsOf(st, 4) = <<Run({"begin"}, 0, 0)>> /\ RunsOf(st, 5) = <<Run({"end"}, 0, 0)>>
  BY <1>2, <1>3, <1>4
<1>6. /\ {"center"} \in (SUBSET Bit) \ {{}} /\ Always \in (SUBSET Bit) \ {{}}
      /\ {"begin"} \in (SUBSET Bit) \ {{}} /\ {"end"} \in (SUBSET Bit) \ {{}}
  BY DEF Bit, Always
<1>7. RunsMean(<<>>) = {}
  BY EmptyNormal, EmptyMean
<1>8. /\ RunsMean(<<Run({"center"}, 0, 0)>>) = {<<0, NoTag, b>> : b \in {"center"}}
      /\ RunsMean(<<Run(Always, 0, 0)>>) = {<<0, NoTag, b>> : b \in Always}
      /\ RunsMean(<<Run({"begin"}, 0, 0)>>) = {<<0, NoTag, b>> : b \in {"begin"}}
      /\ RunsMean(<<Run({"end"}, 0, 0)>>) = {<<0, NoTag, b>> : b \in {"end"}}
  BY <1>6, RunAtZero
<1>9. \A x : {<<0, NoTag, b>> : b \in {x}} = {<<0, NoTag, x>>}
  OBVIOUS
<1> QED
  BY <1>1, <1>4, <1>5, <1>7, <1>8, <1>9 DEF Meaning, EMPTY, CENTER0, ALWAYS0, BEGIN0, END0, Always

LEMMA NewStoreOK == StoreOK(NewStore)
<1> DEFINE st == NewStore
           s == st.sets
<1>1. /\ s[1] = PlainSet(<<>>) /\ s[2] = PlainSet(<<Run({"center"}, 0, 0)>>)
      /\ s[3] = PlainSet(<<Run(Always, 0, 0)>>) /\ s[4] = PlainSet(<<Run({"begin"}, 0, 0)>>)
      /\ s[5] = PlainSet(<<Run({"end"}, 0, 0)>>)
      /\ Len(s) = 5 /\ DOMAIN s = 1 .. 5
  BY DEF NewStore
<1>2. /\ {"center"} \in (SUBSET Bit) \ {{}} /\ Always \in (SUBSET Bit) \ {{}}
      /\ {"begin"} \in (SUBSET Bit) \ {{}} /\ {"end"} \in (SUBSET Bit) \ {{}}
  BY DEF Bit, Always
<1>3. /\ Normal(<<>>) /\ Normal(<<Run({"center"}, 0, 0)>>) /\ Normal(<<Run(Always, 0, 0)>>)
      /\ Normal(<<Run({"begin"}, 0, 0)>>) /\ Normal(<<Run({"end"}, 0, 0)>>)
  BY <1>2, RunAtZero, EmptyNormal
<1>4. \A k \in 1 .. 5 : k = 1 \/ k = 2 \/ k = 3 \/ k = 4 \/ k = 5
  OBVIOUS
<1>5. \A k \in 1 .. 5 : \E runs : Normal(runs) /\ s[k] = PlainSet(runs) /\ (runs = <<>> => k = 1)
  <2>1. \A x : <<x>> # <<>>
    OBVIOUS
  <2> HIDE DEF s
  <2> QED BY <1>1, <1>3, <1>4, <2>1
<1>6. st.cache = 1 .. 5 /\ st.created = {} /\ st.shifts = {} /\ st.rels = {}
  BY DEF NewStore
<1>7. \A k \in 1 .. 5 : s[k] \in SetRec /\ EntryOK(s, s[k]) /\ s[k].form = "runs" /\ Flat(s[k]) = s[k].runs
                        /\ (s[k].runs = <<>> => k = 1)
  <2> SUFFICES ASSUME NEW k \in 1 .. 5
               PROVE  s[k] \in SetRec /\ EntryOK(s, s[k]) /\ s[k].form = "runs" /\ Flat(s[k]) = s[k].runs
                      /\ (s[k].runs = <<>> => k = 1)
    OBVIOUS
  <2>1. PICK runs : Normal(runs) /\ s[k] = PlainSet(runs) /\ (runs = <<>> => k = 1)
    BY <1>5
  <2> HIDE DEF s
  <2> QED BY <2>1, PlainEntry DEF EntryOK
<1>8. s \in Seq(SetRec)
  <2>1. s = [k \in 1 .. 5 |-> s[k]]
    BY DEF NewStore
  <2> HIDE DEF s
  <2> DEFINE V == SetRec
             n == 5
  <2>2. \A k \in 1 .. n : s[k] \in V
    BY <1>7
  <2>3. n \in Nat /\ s = [k \in 1 .. n |-> s[k]]
    BY <2>1
  <2> HIDE DEF V, n
  <2>4. s \in Seq(V)
    BY <2>2, <2>3, IsASeq
  <2> QED BY <2>4 DEF V
<1>9. st = [sets |-> s, cache |-> 1 .. 5, created |-> {}, shifts |-> {}, rels |-> {}]
  BY DEF NewStore
<1>10. IdsOf(st) = 1 .. 5
  BY <1>1 DEF IdsOf
<1> HIDE DEF st, s
<1>11. st \in StoreRec /\ st.sets = s
  BY <1>8, <1>9 DEF StoreRec
<1>12. \A k \in 1 .. 5 : RunsOf(st, k) = s[k].runs
  BY <1>7, <1>11 DEF RunsOf
<1>13. SetsOK(st)
  <2>1. \A k \in 1 .. 5 : st.sets[k] = NewStore.sets[k]
    BY DEF st
  <2>2. \A k \in 1 .. 5 : RunsOf(st, k) = <<>> => k = EMPTY
    BY <1>7, <1>12 DEF EMPTY
  <2>3. \A k \in IdsOf(st) : EntryOK(st.sets, st.sets[k])
    BY <1>7, <1>10, <1>11
  <2>4. Len(st.sets) >= 5
    BY <1>1, <1>11 DEF s
  <2> QED BY <1>10, <1>11, <2>1, <2>2, <2>3, <2>4 DEF SetsOK
<1>14. TablesOK(st)
  BY <1>6, <1>7, <1>10, <1>11 DEF TablesOK
<1> QED
  BY <1>13, <1>14 DEF StoreOK, st

-----------------------------------------------------------------------------
(* The union of a set and a run beyond it.                                 *)
SameOn(s, q) == \A w \in Nat : \A t, b : On(ToSet(s), w, t, b) <=> On(ToSet(q), w, t, b)

LEMMA ExtendIs ==
  ASSUME NEW st, StoreOK(st), NEW big \in IdsOf(st), RunsOf(st, big) # <<>>, NEW asc \in BOOLEAN
  PROVE  /\ Grew(st, RunListForExtend(st, big, asc).st)
         /\ RunListForExtend(st, big, asc).list # NoList =>
              /\ ListOK(RunListForExtend(st, big, asc).list)
              /\ SameOn(ToVec(RunListForExtend(st, big, asc).list), RunsOf(st, big))
<1> DEFINE r == RunListForExtend(st, big, asc)
           runs == RunsOf(st, big)
           s == Materialised(st, big)
           e == st.sets[big]
<1>1. CASE e.form = "list"
  <2>1. r = [st |-> st, list |-> IF e.list.asc = asc THEN e.list ELSE NoList]
    BY <1>1 DEF RunListForExtend
  <2>2. Grew(st, st)
    BY GrewSelf
  <2>3. EntryOK(st.sets, e)
    BY StoreTyped DEF StoreOK
  <2>4. ListOK(e.list)
    BY <1>1, <2>3 DEF EntryOK, RunsEntry, ShiftEntry, ListEntry
  <2>5. runs = ToVec(e.list)
    BY <1>1 DEF RunsOf, Flat
  <2>6. SameOn(runs, runs)
    BY DEF SameOn
  <2> HIDE DEF r, runs, e
  <2>7. r.st = st /\ (r.list # NoList => r.list = e.list)
    BY <2>1
  <2> QED BY <2>2, <2>4, <2>5, <2>6, <2>7 DEF r, runs
<1>2. CASE e.form # "list"
  <2>1. r = [st |-> s, list |-> ListOf(s.sets[big].runs, asc)]
    BY <1>2 DEF RunListForExtend
  <2>2. Grew(st, s) /\ s.sets[big].runs = runs
    BY MaterialisedIs
  <2>3. runs \in Seq(Proper) /\ runs # <<>>
    BY RunsOfNormal DEF StoreOK
  <2> HIDE DEF r, runs, s
  <2>4. r.st = s /\ r.list = ListOf(runs, asc)
    BY <2>1, <2>2
  <2>5. ASSUME ListOf(runs, asc) # NoList
        PROVE  ListOK(ListOf(runs, asc)) /\ SameOn(ToVec(ListOf(runs, asc)), runs)
    BY <2>3, <2>5, ListOfKeeps DEF SameOn
  <2> QED BY <2>2, <2>4, <2>5 DEF r, runs
<1> QED
  BY <1>1, <1>2

LEMMA ListedEntry ==
  ASSUME NEW l, ListOK(l)
  PROVE  /\ Listed(l) \in SetRec /\ ListEntry(Listed(l)) /\ Flat(Listed(l)) = ToVec(l)
         /\ Listed(l).form = "list"
<1>1. l \in ListRec /\ <<>> \in Seq(Proper)
  BY ListFacts, EmptyNormal
<1>2. Listed(l).form = "list" /\ Listed(l).list = l
  BY DEF Listed
<1>3. Listed(l) \in SetRec
  BY <1>1 DEF Listed, SetRec
<1> QED
  BY <1>2, <1>3 DEF ListEntry, Flat

LEMMA OnlyRun ==
  ASSUME NEW s, Normal(s), Len(s) = 1
  PROVE  /\ ToSet(s) = {s[1]} /\ s[1] \in Proper /\ s # <<>>
         /\ \A w, t, b : On(ToSet(s), w, t, b) <=> Covers(s[1], w, t, b)
<1>1. s \in Seq(Proper)
  BY NormalFacts
<1>2. /\ \A i \in 1 .. Len(s) : s[i] \in ToSet(s) /\ s[i] \in Proper
      /\ \A x \in ToSet(s) : \E i \in 1 .. Len(s) : x = s[i]
      /\ (s = <<>> <=> Len(s) = 0)
  BY <1>1, Members
<1>3. ToSet(s) = {s[1]}
  BY <1>2
<1> QED
  BY <1>2, <1>3 DEF On

LEMMA InsertGrows ==
  ASSUME NEW l, ListOK(l), NEW r \in Proper, TryInsertExtreme(l, r) # NoList
  PROVE  Grown(l, r, TryInsertExtreme(l, r))
  BY InsertAsc, InsertDesc

(* The runs of a list that covers what two sets of runs cover mean both.   *)
LEMMA BothMean ==
  ASSUME NEW v, Normal(v), NEW p, Normal(p), NEW q, Normal(q),
         \A w \in Nat : \A t, b : On(ToSet(v), w, t, b) <=> (On(ToSet(p), w, t, b) \/ On(ToSet(q), w, t, b))
  PROVE  RunsMean(v) = RunsMean(p) \cup RunsMean(q)
<1> DEFINE M == RunsMean(p) \cup RunsMean(q)
<1>1. M \in SUBSET Places
  BY MeanPlaces
<1>2. /\ \A w \in Rel, t \in Nat, b \in Bit : <<w, t, b>> \in RunsMean(p) <=> On(ToSet(p), w, t, b)
      /\ \A w \in Rel, t \in Nat, b \in Bit : <<w, t, b>> \in RunsMean(q) <=> On(ToSet(q), w, t, b)
  BY MeanPlaces
<1>3. \A w \in Rel : w \in Nat
  BY NullSetsAssumption DEF Rel
<1>4. \A w \in Rel, t \in Nat, b \in Bit : <<w, t, b>> \in M <=> On(ToSet(v), w, t, b)
  BY <1>2, <1>3
<1> HIDE DEF M
<1>5. RunsMean(v) = M
  BY <1>1, <1>4, MeansThat
<1> QED
  BY <1>5 DEF M

LEMMA ExtremeIs ==
  ASSUME NEW st, StoreOK(st), NEW small \in IdsOf(st), NEW big \in IdsOf(st), RunsOf(st, big) # <<>>
  PROVE  /\ Grew(st, TryOrExtreme(st, small, big).st)
         /\ TryOrExtreme(st, small, big).id # 0 =>
              Yields(st, TryOrExtreme(st, small, big), Meaning(st, small) \cup Meaning(st, big))
<1> DEFINE view == SingleRunView(st, small)
           run  == CHOOSE r \in view : TRUE
           asc  == run.hi < MinRel(st, big)
           ext  == RunListForExtend(st, big, asc)
           list == TryInsertExtreme(ext.list, run)
           res  == TryOrExtreme(st, small, big)
           p    == RunsOf(st, small)
           q    == RunsOf(st, big)
           fits == ~ (view = {} \/ ~(asc \/ run.lo > MaxRelOf(st, big)))
           both == ~ (ext.list = NoList \/ list = NoList)
<1>1. /\ ~ fits => res = Gives(st, 0)
      /\ fits /\ ~ both => res = Gives(ext.st, 0)
      /\ fits /\ both => res = Add(ext.st, Listed(list))
  BY DEF TryOrExtreme
<1>2. SetsOK(st) /\ Grew(st, st)
  BY GrewSelf DEF StoreOK
<1>3. /\ Grew(st, ext.st)
      /\ ext.list # NoList => ListOK(ext.list) /\ SameOn(ToVec(ext.list), q)
  <2>1. asc \in BOOLEAN
    OBVIOUS
  <2> HIDE DEF asc
  <2> QED BY <2>1, ExtendIs
<1>4. Normal(p) /\ Normal(q)
  BY <1>2, RunsOfNormal
<1>5. ASSUME view # {}
      PROVE  run \in Proper /\ \A w, t, b : On(ToSet(p), w, t, b) <=> Covers(run, w, t, b)
  <2>1. Len(p) = 1 /\ view = ToSet(p)
    BY <1>2, <1>5, ViewIs
  <2>2. run \in view
    BY <1>5
  <2> HIDE DEF p, view, run
  <2>3. /\ ToSet(p) = {p[1]} /\ p[1] \in Proper
        /\ \A w, t, b : On(ToSet(p), w, t, b) <=> Covers(p[1], w, t, b)
    BY <1>4, <2>1, OnlyRun
  <2>4. run = p[1]
    BY <2>1, <2>2, <2>3
  <2> QED BY <2>3, <2>4
<1>6. CASE ~ fits
  <2>1. res = Gives(st, 0)
    BY <1>1, <1>6
  <2>2. res.st = st /\ res.id = 0
    BY <2>1 DEF Gives
  <2> QED BY <1>2, <2>2
<1>7. CASE fits /\ ~ both
  <2>1. res = Gives(ext.st, 0)
    BY <1>1, <1>7
  <2>2. res.st = ext.st /\ res.id = 0
    BY <2>1 DEF Gives
  <2> QED BY <1>3, <2>2
<1>8. CASE fits /\ both
  <2>1. res = Add(ext.st, Listed(list))
    BY <1>1, <1>8
  <2>2. view # {} /\ ext.list # NoList /\ list # NoList
    BY <1>8
  <2>3. run \in Proper /\ \A w, t, b : On(ToSet(p), w, t, b) <=> Covers(run, w, t, b)
    BY <1>5, <2>2
  <2>4. ListOK(ext.list) /\ SameOn(ToVec(ext.list), q)
    BY <1>3, <2>2
  <2>5. Grown(ext.list, run, list)
    <3> HIDE DEF ext, run
    <3> QED BY <2>2, <2>3, <2>4, InsertGrows
  <2>6. ListOK(list) /\ StoreOK(ext.st)
    BY <1>3, <2>5 DEF Grown, Grew
  <2> DEFINE mid == ext.st
             v == ToVec(list)
             new == Listed(list)
  <2>7. \A w \in Nat : \A t, b : On(ToSet(v), w, t, b) <=> (On(ToSet(p), w, t, b) \/ On(ToSet(q), w, t, b))
    <3> HIDE DEF ext, run, list, p, q
    <3> QED BY <2>3, <2>4, <2>5 DEF Grown, SameOn
  <2>8. Normal(v) /\ v # <<>>
    <3> HIDE DEF list
    <3> QED BY <2>6, ListFacts
  <2>9. new \in SetRec /\ ListEntry(new) /\ Flat(new) = v /\ new.form = "list"
    <3> HIDE DEF list
    <3> QED BY <2>6, ListedEntry
  <2>10. Grew(st, mid) /\ StoreOK(mid) /\ res = Add(mid, new)
    BY <1>3, <2>1, <2>6
  <2> HIDE DEF view, run, asc, ext, list, res, p, q, fits, both, mid, v, new
  <2>11. RunsMean(v) = RunsMean(p) \cup RunsMean(q)
    BY <1>4, <2>7, <2>8, BothMean
  <2>12. EntryOK(mid.sets, new)
    BY <2>9 DEF EntryOK
  <2>13. Grew(mid, res.st) /\ res.id \in IdsOf(res.st) /\ RunsOf(res.st, res.id) = v
    BY <2>8, <2>9, <2>10, <2>12, AddKeeps
  <2>14. Meaning(res.st, res.id) = Meaning(st, small) \cup Meaning(st, big)
    BY <2>11, <2>13 DEF Meaning, p, q
  <2>15. Grew(st, res.st)
    BY <2>10, <2>13, GrewOn
  <2> QED BY <2>13, <2>14, <2>15 DEF Yields, res
<1> QED
  BY <1>6, <1>7, <1>8

-----------------------------------------------------------------------------
(* or_id, and_id, and_mask and not_id.                                     *)
LEMMA KnownYields ==
  ASSUME NEW st, StoreOK(st), NEW op, NEW a, NEW b, Known(st, op, a, b) # {}
  PROVE  Yields(st, Gives(st, (CHOOSE m \in Known(st, op, a, b) : TRUE).id),
                Result(op, Meaning(st, a), Meaning(st, b)))
<1> DEFINE m == CHOOSE x \in Known(st, op, a, b) : TRUE
<1>1. m \in st.created /\ m.op = op /\ m.left = a /\ m.right = b
  BY DEF Known
<1> HIDE DEF m
<1>2. m.id \in IdsOf(st) /\ Meaning(st, m.id) = Result(m.op, Meaning(st, m.left), Meaning(st, m.right))
  BY <1>1 DEF StoreOK, TablesOK
<1>3. Yields(st, Gives(st, m.id), Meaning(st, m.id))
  BY <1>2, GivesSelf
<1> QED
  BY <1>1, <1>2, <1>3 DEF m

(* Computed, once both have their runs.                                    *)
LEMMA FullYields ==
  ASSUME NEW st, StoreOK(st), NEW a \in IdsOf(st), NEW b \in IdsOf(st), NEW op \in {"or", "and"},
         NEW mid, Grew(st, mid)
  PROVE  LET full == Pair(mid, a, b)
             p == full.sets[a].runs
             q == full.sets[b].runs
         IN Yields(st, Memo(op, a, b, GetRunsId(full, IF op = "or" THEN OrRuns(p, q) ELSE AndRuns(p, q))),
                   Result(op, Meaning(st, a), Meaning(st, b)))
<1> DEFINE full == Pair(mid, a, b)
           p == RunsOf(st, a)
           q == RunsOf(st, b)
           runs == IF op = "or" THEN OrRuns(p, q) ELSE AndRuns(p, q)
<1>1. StoreOK(mid) /\ a \in IdsOf(mid) /\ b \in IdsOf(mid) /\ RunsOf(mid, a) = p /\ RunsOf(mid, b) = q
  BY GrewIds
<1>2. Grew(mid, full) /\ StoreOK(full) /\ full.sets[a].runs = p /\ full.sets[b].runs = q
  BY <1>1, PairIs
<1>3. Grew(st, full)
  <2> HIDE DEF full
  <2> QED BY <1>2, GrewOn
<1>4. Normal(p) /\ Normal(q)
  BY RunsOfNormal DEF StoreOK
<1>5. Normal(runs) /\ RunsMean(runs) = Result(op, Meaning(st, a), Meaning(st, b))
  <2>1. Meaning(st, a) = RunsMean(p) /\ Meaning(st, b) = RunsMean(q)
    BY DEF Meaning
  <2> HIDE DEF p, q
  <2>2. Normal(OrRuns(p, q)) /\ RunsMean(OrRuns(p, q)) = RunsMean(p) \cup RunsMean(q)
    BY <1>4, OrRunsMean
  <2>3. Normal(AndRuns(p, q)) /\ RunsMean(AndRuns(p, q)) = AndMeans(RunsMean(p), RunsMean(q))
    BY <1>4, AndRunsMean
  <2> QED BY <2>1, <2>2, <2>3 DEF Result
<1> DEFINE r == GetRunsId(full, runs)
<1>6. Yields(full, r, RunsMean(runs))
  <2> HIDE DEF full, runs
  <2> QED BY <1>2, <1>5, GetRunsIdYields
<1>7. Yields(full, r, Result(op, Meaning(st, a), Meaning(st, b)))
  BY <1>5, <1>6
<1> HIDE DEF full, r, runs, p, q
<1>8. Yields(st, Memo(op, a, b, r), Result(op, Meaning(st, a), Meaning(st, b)))
  BY <1>3, <1>7, MemoYields
<1> QED
  BY <1>2, <1>8 DEF r, full, runs

LEMMA OrSortedYields ==
  ASSUME NEW st, StoreOK(st), NEW a \in IdsOf(st), NEW b \in IdsOf(st), a <= b
  PROVE  Yields(st, OrSorted(st, a, b), Meaning(st, a) \cup Meaning(st, b))
<1> DEFINE res == OrSorted(st, a, b)
           M == Meaning(st, a) \cup Meaning(st, b)
           one == TryOrExtreme(st, a, b)
           two == TryOrExtreme(one.st, b, a)
           full == Pair(two.st, a, b)
<1>1. SetsOK(st) /\ a \in Nat /\ b \in Nat
  BY StoreTyped DEF StoreOK
<1>2. Result("or", Meaning(st, a), Meaning(st, b)) = M /\ "or" \in {"or", "and"}
  BY DEF Result
<1>3. CASE a = EMPTY
  <2>1. res = Gives(st, b)
    BY <1>3 DEF OrSorted
  <2>2. M = Meaning(st, b)
    BY <1>1, <1>3, FirstSets
  <2>3. Yields(st, Gives(st, b), Meaning(st, b))
    BY GivesSelf
  <2> QED BY <2>1, <2>2, <2>3
<1>4. CASE a # EMPTY /\ a = b
  <2>1. res = Gives(st, a) /\ M = Meaning(st, a)
    BY <1>4 DEF OrSorted
  <2>2. Yields(st, Gives(st, a), Meaning(st, a))
    BY GivesSelf
  <2> QED BY <2>1, <2>2
<1>5. CASE a # EMPTY /\ a # b /\ Known(st, "or", a, b) # {}
  <2>1. res = Gives(st, (CHOOSE m \in Known(st, "or", a, b) : TRUE).id)
    BY <1>5 DEF OrSorted
  <2>2. Yields(st, Gives(st, (CHOOSE m \in Known(st, "or", a, b) : TRUE).id), M)
    BY <1>2, <1>5, KnownYields
  <2> QED BY <2>1, <2>2
<1>6. CASE a # EMPTY /\ a # b /\ Known(st, "or", a, b) = {} /\ a = ALWAYS0 /\ b = END0
  <2>1. res = Gives(st, ALWAYS0)
    BY <1>6 DEF OrSorted
  <2>2. Meaning(st, END0) \subseteq Meaning(st, ALWAYS0)
    BY <1>1, FirstSets DEF Bit
  <2>3. M = Meaning(st, ALWAYS0)
    BY <1>6, <2>2
  <2>4. Yields(st, Gives(st, ALWAYS0), Meaning(st, ALWAYS0))
    BY <1>6, GivesSelf
  <2> QED BY <2>1, <2>3, <2>4
<1>7. CASE a # EMPTY /\ a # b /\ Known(st, "or", a, b) = {} /\ ~ (a = ALWAYS0 /\ b = END0)
  <2>1. RunsOf(st, a) # <<>> /\ RunsOf(st, b) # <<>>
    <3>1. b # EMPTY
      <4>1. a \in 1 .. Len(st.sets) /\ Len(st.sets) \in Nat
        BY <1>1, StoreTyped
      <4> QED BY <1>1, <1>7, <4>1 DEF EMPTY
    <3> QED BY <1>1, <1>7, <3>1 DEF SetsOK
  <2>2. Grew(st, one.st) /\ (one.id # 0 => Yields(st, one, M))
    BY <2>1, ExtremeIs
  <2>3. res = IF one.id # 0 THEN Memo("or", a, b, one)
              ELSE IF two.id # 0 THEN Memo("or", a, b, two)
              ELSE Memo("or", a, b, GetRunsId(full, OrRuns(full.sets[a].runs, full.sets[b].runs)))
    BY <1>7 DEF OrSorted
  <2>4. CASE one.id # 0
    <3>1. Grew(st, st) /\ Yields(st, one, Result("or", Meaning(st, a), Meaning(st, b)))
      BY <1>2, <2>2, <2>4, GrewSelf
    <3> DEFINE r == one
    <3> HIDE DEF r
    <3>2. Yields(st, r, Result("or", Meaning(st, a), Meaning(st, b)))
      BY <3>1 DEF r
    <3>3. Yields(st, Memo("or", a, b, r), Result("or", Meaning(st, a), Meaning(st, b)))
      BY <1>2, <3>1, <3>2, MemoYields
    <3> QED BY <1>2, <2>3, <2>4, <3>3 DEF r
  <2> DEFINE mid == one.st
  <2>5. Grew(st, mid)
    BY <2>2
  <2>6. /\ StoreOK(mid) /\ a \in IdsOf(mid) /\ b \in IdsOf(mid)
        /\ Meaning(mid, a) = Meaning(st, a) /\ Meaning(mid, b) = Meaning(st, b)
        /\ RunsOf(mid, a) # <<>>
    <3> HIDE DEF mid
    <3> QED BY <2>1, <2>5, GrewIds
  <2>7. Grew(mid, two.st) /\ (two.id # 0 => Yields(mid, two, M))
    <3> DEFINE x == TryOrExtreme(mid, b, a)
    <3> HIDE DEF mid
    <3>1. Grew(mid, x.st) /\ (x.id # 0 => Yields(mid, x, Meaning(mid, b) \cup Meaning(mid, a)))
      BY <2>6, ExtremeIs
    <3>2. M = Meaning(mid, b) \cup Meaning(mid, a)
      BY <2>6
    <3> QED BY <3>1, <3>2 DEF mid
  <2>8. CASE one.id = 0 /\ two.id # 0
    <3>1. Yields(mid, two, Result("or", Meaning(st, a), Meaning(st, b)))
      BY <1>2, <2>7, <2>8
    <3> DEFINE r == two
    <3>2. Yields(mid, r, Result("or", Meaning(st, a), Meaning(st, b)))
      BY <3>1
    <3> HIDE DEF r, mid
    <3>3. Yields(st, Memo("or", a, b, r), Result("or", Meaning(st, a), Meaning(st, b)))
      BY <1>2, <2>5, <3>2, MemoYields
    <3> QED BY <1>2, <2>3, <2>8, <3>3 DEF r
  <2>9. CASE one.id = 0 /\ two.id = 0
    <3> DEFINE end == two.st
    <3>1. Grew(st, end)
      <4>1. Grew(mid, end)
        BY <2>7
      <4> HIDE DEF mid, end
      <4> QED BY <2>5, <4>1, GrewOn
    <3>2. LET u == Pair(end, a, b) IN
          Yields(st, Memo("or", a, b, GetRunsId(u, OrRuns(u.sets[a].runs, u.sets[b].runs))), M)
      <4> HIDE DEF end
      <4> QED BY <1>2, <3>1, FullYields
    <3> QED BY <2>3, <2>9, <3>2
  <2> QED BY <2>4, <2>8, <2>9
<1> QED
  BY <1>3, <1>4, <1>5, <1>6, <1>7

LEMMA OrIdYields ==
  ASSUME NEW st, StoreOK(st), NEW a \in IdsOf(st), NEW b \in IdsOf(st)
  PROVE  Yields(st, OrId(st, a, b), Meaning(st, a) \cup Meaning(st, b))
<1>1. a \in Nat /\ b \in Nat
  BY StoreTyped DEF StoreOK
<1>2. CASE a <= b
  BY <1>2, OrSortedYields DEF OrId
<1>3. CASE ~ (a <= b)
  <2>1. b <= a
    BY <1>1, <1>3
  <2>2. Yields(st, OrSorted(st, b, a), Meaning(st, b) \cup Meaning(st, a))
    BY <2>1, OrSortedYields
  <2>3. Meaning(st, b) \cup Meaning(st, a) = Meaning(st, a) \cup Meaning(st, b)
    OBVIOUS
  <2> QED BY <1>3, <2>2, <2>3 DEF OrId
<1> QED
  BY <1>2, <1>3

LEMMA AndMeansFacts ==
  ASSUME NEW M, NEW N
  PROVE  AndMeans({}, N) = {} /\ AndMeans(M, M) = M /\ AndMeans(M, N) = AndMeans(N, M)
<1>1. AndMeans({}, N) = {}
  BY DEF AndMeans
<1>2. \A x : x \in AndMeans(M, N) <=>
        \E m \in M, n \in N : m[1] = n[1] /\ m[3] = n[3] /\ (x = m \/ x = n)
  <2> SUFFICES ASSUME NEW x
               PROVE  x \in AndMeans(M, N) <=>
                        \E m \in M, n \in N : m[1] = n[1] /\ m[3] = n[3] /\ (x = m \/ x = n)
    OBVIOUS
  <2>1. ASSUME NEW m \in M, NEW n \in N, m[1] = n[1], m[3] = n[3], x = m \/ x = n
        PROVE  x \in AndMeans(M, N)
    <3> DEFINE p == <<m, n>>
    <3>1. p \in M \X N /\ p[1] = m /\ p[2] = n
      OBVIOUS
    <3> HIDE DEF p
    <3> QED BY <2>1, <3>1 DEF AndMeans
  <2>2. ASSUME x \in AndMeans(M, N)
        PROVE  \E m \in M, n \in N : m[1] = n[1] /\ m[3] = n[3] /\ (x = m \/ x = n)
    <3>1. PICK p \in M \X N : p[1][1] = p[2][1] /\ p[1][3] = p[2][3] /\ (x = p[1] \/ x = p[2])
      BY <2>2 DEF AndMeans
    <3>2. p[1] \in M /\ p[2] \in N
      OBVIOUS
    <3> QED BY <3>1, <3>2
  <2> QED BY <2>1, <2>2
<1>3. \A x : x \in AndMeans(N, M) <=>
        \E n \in N, m \in M : n[1] = m[1] /\ n[3] = m[3] /\ (x = n \/ x = m)
  <2> SUFFICES ASSUME NEW x
               PROVE  x \in AndMeans(N, M) <=>
                        \E n \in N, m \in M : n[1] = m[1] /\ n[3] = m[3] /\ (x = n \/ x = m)
    OBVIOUS
  <2>1. ASSUME NEW m \in M, NEW n \in N, m[1] = n[1], m[3] = n[3], x = m \/ x = n
        PROVE  x \in AndMeans(N, M)
    <3> DEFINE p == <<n, m>>
    <3>1. p \in N \X M /\ p[1] = n /\ p[2] = m
      OBVIOUS
    <3> HIDE DEF p
    <3> QED BY <2>1, <3>1 DEF AndMeans
  <2>2. ASSUME x \in AndMeans(N, M)
        PROVE  \E n \in N, m \in M : n[1] = m[1] /\ n[3] = m[3] /\ (x = n \/ x = m)
    <3>1. PICK p \in N \X M : p[1][1] = p[2][1] /\ p[1][3] = p[2][3] /\ (x = p[1] \/ x = p[2])
      BY <2>2 DEF AndMeans
    <3>2. p[1] \in N /\ p[2] \in M
      OBVIOUS
    <3> QED BY <3>1, <3>2
  <2> QED BY <2>1, <2>2
<1>4. AndMeans(M, N) = AndMeans(N, M)
  BY <1>2, <1>3
<1>5. ASSUME NEW x PROVE x \in AndMeans(M, M) => x \in M
  <2> SUFFICES ASSUME x \in AndMeans(M, M) PROVE x \in M
    OBVIOUS
  <2>1. PICK p \in M \X M : x = p[1] \/ x = p[2]
    BY DEF AndMeans
  <2>2. p[1] \in M /\ p[2] \in M
    OBVIOUS
  <2> QED BY <2>1, <2>2
<1>6. ASSUME NEW x \in M PROVE x \in AndMeans(M, M)
  <2> DEFINE p == <<x, x>>
  <2>1. p \in M \X M /\ p[1] = x /\ p[2] = x
    OBVIOUS
  <2> HIDE DEF p
  <2> QED BY <2>1 DEF AndMeans
<1> QED
  BY <1>1, <1>4, <1>5, <1>6

LEMMA AndSortedYields ==
  ASSUME NEW st, StoreOK(st), NEW a \in IdsOf(st), NEW b \in IdsOf(st)
  PROVE  Yields(st, AndSorted(st, a, b), AndMeans(Meaning(st, a), Meaning(st, b)))
<1> DEFINE res == AndSorted(st, a, b)
           M == AndMeans(Meaning(st, a), Meaning(st, b))
<1>1. SetsOK(st)
  BY DEF StoreOK
<1>2. Result("and", Meaning(st, a), Meaning(st, b)) = M /\ "and" \in {"or", "and"} /\ "and" # "or"
  BY DEF Result
<1>3. CASE a = EMPTY
  <2>1. res = Gives(st, EMPTY) /\ EMPTY \in IdsOf(st)
    BY <1>3 DEF AndSorted
  <2>2. M = {} /\ Meaning(st, EMPTY) = {}
    <3>1. Meaning(st, EMPTY) = {}
      BY <1>1, FirstSets
    <3> QED BY <1>3, <3>1, AndMeansFacts
  <2>3. Yields(st, Gives(st, EMPTY), Meaning(st, EMPTY))
    BY <2>1, GivesSelf
  <2> QED BY <2>1, <2>2, <2>3
<1>4. CASE a # EMPTY /\ a = b
  <2>1. res = Gives(st, a)
    BY <1>4 DEF AndSorted
  <2>2. M = Meaning(st, a)
    BY <1>4, AndMeansFacts
  <2>3. Yields(st, Gives(st, a), Meaning(st, a))
    BY GivesSelf
  <2> QED BY <2>1, <2>2, <2>3
<1>5. CASE a # EMPTY /\ a # b /\ Known(st, "and", a, b) # {}
  <2>1. res = Gives(st, (CHOOSE m \in Known(st, "and", a, b) : TRUE).id)
    BY <1>5 DEF AndSorted
  <2>2. Yields(st, Gives(st, (CHOOSE m \in Known(st, "and", a, b) : TRUE).id), M)
    BY <1>2, <1>5, KnownYields
  <2> QED BY <2>1, <2>2
<1>6. CASE a # EMPTY /\ a # b /\ Known(st, "and", a, b) = {}
  <2>1. LET u == Pair(st, a, b) IN
        res = Memo("and", a, b, GetRunsId(u, AndRuns(u.sets[a].runs, u.sets[b].runs)))
    BY <1>6 DEF AndSorted
  <2>2. LET u == Pair(st, a, b) IN
        Yields(st, Memo("and", a, b, GetRunsId(u, AndRuns(u.sets[a].runs, u.sets[b].runs))), M)
    <3>1. Grew(st, st)
      BY GrewSelf
    <3> HIDE DEF M
    <3> QED BY <1>2, <3>1, FullYields
  <2> QED BY <2>1, <2>2
<1> QED
  BY <1>3, <1>4, <1>5, <1>6

LEMMA AndIdYields ==
  ASSUME NEW st, StoreOK(st), NEW a \in IdsOf(st), NEW b \in IdsOf(st)
  PROVE  Yields(st, AndId(st, a, b), AndMeans(Meaning(st, a), Meaning(st, b)))
<1>1. CASE a <= b
  BY <1>1, AndSortedYields DEF AndId
<1>2. CASE ~ (a <= b)
  <2>1. Yields(st, AndSorted(st, b, a), AndMeans(Meaning(st, b), Meaning(st, a)))
    BY AndSortedYields
  <2>2. AndMeans(Meaning(st, b), Meaning(st, a)) = AndMeans(Meaning(st, a), Meaning(st, b))
    BY AndMeansFacts
  <2> QED BY <1>2, <2>1, <2>2 DEF AndId
<1> QED
  BY <1>1, <1>2

LEMMA AlwaysMask ==
  ASSUME NEW st, SetsOK(st), NEW a \in IdsOf(st)
  PROVE  {x \in Meaning(st, a) : x[3] \in Always} = Meaning(st, a)
<1>1. Normal(RunsOf(st, a))
  BY RunsOfNormal
<1>2. Meaning(st, a) \in SUBSET Places
  BY <1>1, MeanPlaces DEF Meaning
<1>3. \A x \in Places : x[3] \in Always
  BY DEF Places, Always
<1> QED
  BY <1>2, <1>3

LEMMA AndMaskYields ==
  ASSUME NEW st, StoreOK(st), NEW a \in IdsOf(st), NEW mask \in SUBSET Bit
  PROVE  Yields(st, AndMask(st, a, mask), {x \in Meaning(st, a) : x[3] \in mask})
<1> DEFINE res == AndMask(st, a, mask)
           M == {x \in Meaning(st, a) : x[3] \in mask}
<1>1. SetsOK(st)
  BY DEF StoreOK
<1>2. CASE a = EMPTY \/ mask = {}
  <2>1. res = Gives(st, EMPTY)
    BY <1>2 DEF AndMask
  <2>2. Meaning(st, EMPTY) = {} /\ EMPTY \in IdsOf(st)
    BY <1>1, FirstSets DEF EMPTY
  <2>3. M = {}
    BY <1>2, <2>2
  <2>4. Yields(st, Gives(st, EMPTY), Meaning(st, EMPTY))
    BY <2>2, GivesSelf
  <2> QED BY <2>1, <2>2, <2>3, <2>4
<1>3. CASE ~ (a = EMPTY \/ mask = {}) /\ mask = Always
  <2>1. res = Gives(st, a)
    BY <1>3 DEF AndMask
  <2>2. M = Meaning(st, a)
    BY <1>1, <1>3, AlwaysMask
  <2>3. Yields(st, Gives(st, a), Meaning(st, a))
    BY GivesSelf
  <2> QED BY <2>1, <2>2, <2>3
<1>4. CASE ~ (a = EMPTY \/ mask = {}) /\ mask # Always
  <2> DEFINE s == Materialised(st, a)
             p == RunsOf(st, a)
             runs == AndMaskRuns(p, mask)
  <2>1. Grew(st, s) /\ StoreOK(s) /\ s.sets[a].runs = p
    BY MaterialisedIs
  <2>2. res = GetRunsId(s, AndMaskRuns(s.sets[a].runs, mask))
    BY <1>4 DEF AndMask
  <2>3. res = GetRunsId(s, runs)
    BY <2>1, <2>2
  <2>4. Normal(p) /\ Meaning(st, a) = RunsMean(p)
    BY <1>1, RunsOfNormal DEF Meaning
  <2> HIDE DEF s, p, res
  <2>5. Normal(runs) /\ RunsMean(runs) = M
    BY <2>4, AndMaskMean
  <2> HIDE DEF runs, M
  <2>6. Yields(s, res, M)
    BY <2>1, <2>3, <2>5, GetRunsIdYields
  <2>7. Yields(st, res, M)
    BY <2>1, <2>6, YieldsOn
  <2> QED BY <2>7 DEF res, M
<1> QED
  BY <1>2, <1>3, <1>4

LEMMA NotFirst ==
  /\ NotMeans({}) = {<<0, NoTag, b>> : b \in Bit}
  /\ NotMeans({<<0, NoTag, b>> : b \in Bit}) = {}
  /\ NotMeans({<<0, NoTag, "begin">>}) = {<<0, NoTag, "center">>} \cup {<<0, NoTag, "end">>}
  /\ NotMeans({<<0, NoTag, "end">>}) = {<<0, NoTag, "center">>} \cup {<<0, NoTag, "begin">>}
<1>1. NotMeans({}) = {<<0, NoTag, b>> : b \in Bit}
  BY DEF NotMeans, Always
<1>2. ASSUME NEW B \in SUBSET Bit, B # {}
      PROVE  NotMeans({<<0, NoTag, b>> : b \in B}) = {<<0, NoTag, b>> : b \in Bit \ B}
  <2> DEFINE M == {<<0, NoTag, b>> : b \in B}
  <2>1. M # {} /\ \A m \in M : m[1] = 0 /\ m[2] = NoTag
    <3>1. PICK b \in B : TRUE
      BY <1>2
    <3>2. <<0, NoTag, b>> \in M
      OBVIOUS
    <3>3. \A m \in M : m[1] = 0 /\ m[2] = NoTag
      OBVIOUS
    <3> QED BY <3>2, <3>3
  <2>2. {<<m[1], m[2], b>> : m \in M, b \in Always} = {<<0, NoTag, b>> : b \in Always}
    <3> HIDE DEF M
    <3> QED BY <2>1
  <2>3. \A b : <<0, NoTag, b>> \in M <=> b \in B
    OBVIOUS
  <2> HIDE DEF M
  <2>4. NotMeans(M) = {x \in {<<0, NoTag, b>> : b \in Always} : x \notin M}
    BY <2>1, <2>2 DEF NotMeans
  <2>5. {x \in {<<0, NoTag, b>> : b \in Always} : x \notin M} = {<<0, NoTag, b>> : b \in Bit \ B}
    BY <2>3 DEF Always
  <2> QED BY <2>4, <2>5 DEF M
<1>3. NotMeans({<<0, NoTag, b>> : b \in Bit}) = {}
  <2>1. Bit \in SUBSET Bit /\ Bit # {} /\ Bit \ Bit = {}
    BY DEF Bit
  <2>2. NotMeans({<<0, NoTag, b>> : b \in Bit}) = {<<0, NoTag, b>> : b \in Bit \ Bit}
    BY <1>2, <2>1
  <2> QED BY <2>1, <2>2
<1>4. NotMeans({<<0, NoTag, "begin">>}) = {<<0, NoTag, "center">>} \cup {<<0, NoTag, "end">>}
  <2>1. {"begin"} \in SUBSET Bit /\ {"begin"} # {} /\ Bit \ {"begin"} = {"center", "end"}
    BY DEF Bit
  <2>2. NotMeans({<<0, NoTag, b>> : b \in {"begin"}}) = {<<0, NoTag, b>> : b \in {"center", "end"}}
    BY <1>2, <2>1
  <2>3. {<<0, NoTag, b>> : b \in {"begin"}} = {<<0, NoTag, "begin">>}
    OBVIOUS
  <2>4. {<<0, NoTag, b>> : b \in {"center", "end"}} = {<<0, NoTag, "center">>} \cup {<<0, NoTag, "end">>}
    OBVIOUS
  <2> QED BY <2>2, <2>3, <2>4
<1>5. NotMeans({<<0, NoTag, "end">>}) = {<<0, NoTag, "center">>} \cup {<<0, NoTag, "begin">>}
  <2>1. {"end"} \in SUBSET Bit /\ {"end"} # {} /\ Bit \ {"end"} = {"center", "begin"}
    BY DEF Bit
  <2>2. NotMeans({<<0, NoTag, b>> : b \in {"end"}}) = {<<0, NoTag, b>> : b \in {"center", "begin"}}
    BY <1>2, <2>1
  <2>3. {<<0, NoTag, b>> : b \in {"end"}} = {<<0, NoTag, "end">>}
    OBVIOUS
  <2>4. {<<0, NoTag, b>> : b \in {"center", "begin"}} = {<<0, NoTag, "center">>} \cup {<<0, NoTag, "begin">>}
    OBVIOUS
  <2> QED BY <2>2, <2>3, <2>4
<1> QED
  BY <1>1, <1>3, <1>4, <1>5

LEMMA NotIdYields ==
  ASSUME NEW st, StoreOK(st), NEW a \in IdsOf(st)
  PROVE  Yields(st, NotId(st, a), NotMeans(Meaning(st, a)))
<1> DEFINE res == NotId(st, a)
           s == Materialised(st, a)
           p == RunsOf(st, a)
           runs == NotRuns(p)
           M == NotMeans(Meaning(st, a))
<1>1. SetsOK(st)
  BY DEF StoreOK
<1>2. /\ EMPTY \in IdsOf(st) /\ CENTER0 \in IdsOf(st) /\ ALWAYS0 \in IdsOf(st) /\ BEGIN0 \in IdsOf(st) /\ END0 \in IdsOf(st)
      /\ Meaning(st, EMPTY) = {} /\ Meaning(st, CENTER0) = {<<0, NoTag, "center">>}
      /\ Meaning(st, ALWAYS0) = {<<0, NoTag, b>> : b \in Bit}
      /\ Meaning(st, BEGIN0) = {<<0, NoTag, "begin">>} /\ Meaning(st, END0) = {<<0, NoTag, "end">>}
  BY <1>1, FirstSets DEF EMPTY, CENTER0, ALWAYS0, BEGIN0, END0
<1>3. EMPTY # ALWAYS0 /\ EMPTY # BEGIN0 /\ EMPTY # END0 /\ ALWAYS0 # BEGIN0 /\ ALWAYS0 # END0 /\ BEGIN0 # END0
  BY DEF EMPTY, ALWAYS0, BEGIN0, END0
<1>4. CASE a = EMPTY
  <2>1. res = Gives(st, ALWAYS0) /\ M = Meaning(st, ALWAYS0)
    BY <1>2, <1>3, <1>4, NotFirst DEF NotId
  <2>2. Yields(st, Gives(st, ALWAYS0), Meaning(st, ALWAYS0))
    BY <1>2, GivesSelf
  <2> QED BY <2>1, <2>2
<1>5. CASE a = ALWAYS0
  <2>1. res = Gives(st, EMPTY) /\ M = Meaning(st, EMPTY)
    BY <1>2, <1>3, <1>5, NotFirst DEF NotId
  <2>2. Yields(st, Gives(st, EMPTY), Meaning(st, EMPTY))
    BY <1>2, GivesSelf
  <2> QED BY <2>1, <2>2
<1>6. CASE a = BEGIN0
  <2>1. res = OrId(st, CENTER0, END0) /\ M = Meaning(st, CENTER0) \cup Meaning(st, END0)
    BY <1>2, <1>3, <1>6, NotFirst DEF NotId
  <2>2. Yields(st, OrId(st, CENTER0, END0), Meaning(st, CENTER0) \cup Meaning(st, END0))
    BY <1>2, OrIdYields
  <2> QED BY <2>1, <2>2
<1>7. CASE a = END0
  <2>1. res = OrId(st, CENTER0, BEGIN0) /\ M = Meaning(st, CENTER0) \cup Meaning(st, BEGIN0)
    BY <1>2, <1>3, <1>7, NotFirst DEF NotId
  <2>2. Yields(st, OrId(st, CENTER0, BEGIN0), Meaning(st, CENTER0) \cup Meaning(st, BEGIN0))
    BY <1>2, OrIdYields
  <2> QED BY <2>1, <2>2
<1>8. CASE a # EMPTY /\ a # ALWAYS0 /\ a # BEGIN0 /\ a # END0
  <2>1. Grew(st, s) /\ StoreOK(s) /\ s.sets[a].runs = p
    BY MaterialisedIs
  <2>2. res = GetRunsId(s, NotRuns(s.sets[a].runs))
    BY <1>8 DEF NotId
  <2>3. res = GetRunsId(s, runs)
    BY <2>1, <2>2
  <2>4. Normal(p) /\ Meaning(st, a) = RunsMean(p) /\ p # <<>>
    BY <1>1, <1>8, RunsOfNormal DEF Meaning, SetsOK
  <2> HIDE DEF s, p, res
  <2>5. Normal(runs) /\ RunsMean(runs) = M
    BY <2>4, NotRunsMean
  <2> HIDE DEF runs, M
  <2>6. Yields(s, res, M)
    BY <2>1, <2>3, <2>5, GetRunsIdYields
  <2>7. Yields(st, res, M)
    BY <2>1, <2>6, YieldsOn
  <2> QED BY <2>7 DEF res, M
<1> QED
  BY <1>4, <1>5, <1>6, <1>7, <1>8

LEMMA OneRunYields ==
  ASSUME NEW st, StoreOK(st), NEW r \in Proper
  PROVE  Yields(st, GetRunsId(st, <<r>>), RunsMean(<<r>>))
<1>1. Normal(<<r>>)
  BY OneRunMeans
<1> QED
  BY <1>1, GetRunsIdYields

-----------------------------------------------------------------------------
(* add_rel.                                                                *)
LEMMA ShiftMeansFacts ==
  ASSUME NEW M \in SUBSET Places
  PROVE  /\ ShiftMeans(M, {0}) = M
         /\ \A d \in Nat, e \in Nat : ShiftMeans(ShiftMeans(M, {d}), {e}) = ShiftMeans(M, {d + e})
         /\ \A rels : ShiftMeans({}, rels) = {} /\ ShiftMeans(M, {}) = {}
<1>1. ASSUME NEW m \in M
      PROVE  m = <<m[1], m[2], m[3]>> /\ m[1] \in Nat
  <2>1. m \in Rel \X Nat \X Bit
    BY DEF Places
  <2>2. \A w \in Rel : w \in Nat
    BY NullSetsAssumption DEF Rel
  <2> QED BY <2>1, <2>2
<1>2. ShiftMeans(M, {0}) = M
  <2>1. ASSUME NEW m \in M PROVE <<m[1] + 0, m[2], m[3]>> = m
    BY <1>1
  <2>2. ShiftMeans(M, {0}) = {<<m[1] + 0, m[2], m[3]>> : m \in M}
    BY DEF ShiftMeans
  <2> QED BY <2>1, <2>2
<1>3. ASSUME NEW d \in Nat, NEW e \in Nat
      PROVE  ShiftMeans(ShiftMeans(M, {d}), {e}) = ShiftMeans(M, {d + e})
  <2> DEFINE N == {<<m[1] + d, m[2], m[3]>> : m \in M}
  <2>1. ShiftMeans(M, {d}) = N
    BY DEF ShiftMeans
  <2>2. ShiftMeans(N, {e}) = {<<n[1] + e, n[2], n[3]>> : n \in N}
    BY DEF ShiftMeans
  <2>3. ShiftMeans(M, {d + e}) = {<<m[1] + (d + e), m[2], m[3]>> : m \in M}
    BY DEF ShiftMeans
  <2>4. {<<n[1] + e, n[2], n[3]>> : n \in N} = {<<(m[1] + d) + e, m[2], m[3]>> : m \in M}
    <3>1. ASSUME NEW m \in M
          PROVE  /\ <<m[1] + d, m[2], m[3]>> \in N
                 /\ <<m[1] + d, m[2], m[3]>>[1] = m[1] + d
                 /\ <<m[1] + d, m[2], m[3]>>[2] = m[2] /\ <<m[1] + d, m[2], m[3]>>[3] = m[3]
      OBVIOUS
    <3>2. ASSUME NEW n \in N
          PROVE  \E m \in M : <<n[1] + e, n[2], n[3]>> = <<(m[1] + d) + e, m[2], m[3]>>
      <4>1. PICK m \in M : n = <<m[1] + d, m[2], m[3]>>
        OBVIOUS
      <4>2. n[1] = m[1] + d /\ n[2] = m[2] /\ n[3] = m[3]
        BY <4>1
      <4> QED BY <4>2
    <3>3. ASSUME NEW m \in M
          PROVE  \E n \in N : <<n[1] + e, n[2], n[3]>> = <<(m[1] + d) + e, m[2], m[3]>>
      <4> DEFINE n == <<m[1] + d, m[2], m[3]>>
      <4>1. n \in N /\ n[1] = m[1] + d /\ n[2] = m[2] /\ n[3] = m[3]
        BY <3>1
      <4> HIDE DEF n, N
      <4> QED BY <4>1
    <3> HIDE DEF N
    <3> QED BY <3>2, <3>3
  <2>5. \A m \in M : (m[1] + d) + e = m[1] + (d + e)
    <3> SUFFICES ASSUME NEW m \in M PROVE (m[1] + d) + e = m[1] + (d + e)
      OBVIOUS
    <3>1. m[1] \in Nat
      BY <1>1
    <3> QED BY <3>1
  <2> HIDE DEF N
  <2>6. {<<(m[1] + d) + e, m[2], m[3]>> : m \in M} = {<<m[1] + (d + e), m[2], m[3]>> : m \in M}
    BY <2>5
  <2> QED BY <2>1, <2>2, <2>3, <2>4, <2>6
<1>4. \A rels : ShiftMeans({}, rels) = {} /\ ShiftMeans(M, {}) = {}
  BY DEF ShiftMeans
<1> QED
  BY <1>2, <1>3, <1>4

RootTells(st, a, rel) ==
  /\ Root(st, a) \in IdsOf(st) /\ Offset(st, a) \in Nat /\ Offset(st, a) + rel \in Nat
  /\ ShiftMeans(Meaning(st, a), {rel}) = ShiftMeans(Meaning(st, Root(st, a)), {Offset(st, a) + rel})

LEMMA RootMeans ==
  ASSUME NEW st, StoreOK(st), NEW a \in IdsOf(st), NEW rel \in Nat
  PROVE  RootTells(st, a, rel)
<1> DEFINE f == Flat(st.sets[Root(st, a)])
           d == Offset(st, a)
<1>1. SetsOK(st)
  BY DEF StoreOK
<1>2. /\ Root(st, a) \in IdsOf(st) /\ d \in Nat /\ Normal(f)
      /\ RunsOf(st, Root(st, a)) = f /\ RunsOf(st, a) = AddRelRuns(f, d)
      /\ \A i \in 1 .. Len(f) : f[i].hi + d <= MaxRel
  BY <1>1, RootIs
<1>3. Meaning(st, a) = RunsMean(AddRelRuns(f, d)) /\ Meaning(st, Root(st, a)) = RunsMean(f)
  BY <1>2 DEF Meaning
<1> HIDE DEF f, d
<1>4. RunsMean(AddRelRuns(f, d)) = ShiftMeans(RunsMean(f), {d}) /\ RunsMean(f) \in SUBSET Places
  BY <1>2, AddRelMean, MeanPlaces
<1>5. ShiftMeans(ShiftMeans(RunsMean(f), {d}), {rel}) = ShiftMeans(RunsMean(f), {d + rel})
  <2> DEFINE K == RunsMean(f)
  <2>1. K \in SUBSET Places
    BY <1>4
  <2> HIDE DEF K
  <2>2. \A x \in Nat, y \in Nat : ShiftMeans(ShiftMeans(K, {x}), {y}) = ShiftMeans(K, {x + y})
    BY <2>1, ShiftMeansFacts
  <2>3. ShiftMeans(ShiftMeans(K, {d}), {rel}) = ShiftMeans(K, {d + rel})
    BY <1>2, <2>2
  <2> QED BY <2>3 DEF K
<1>6. d + rel \in Nat
  BY <1>2
<1> QED
  BY <1>2, <1>3, <1>4, <1>5, <1>6 DEF d, RootTells

(* A new shift of the root.                                                *)
LEMMA ShiftMade ==
  ASSUME NEW st, StoreOK(st), NEW root, NEW off \in Nat, RootOK(st.sets, root, off)
  PROVE  LET made == Add([st EXCEPT !.shifts = @ \cup {[root |-> root, off |-> off, id |-> Len(st.sets) + 1]}],
                         Shifted(root, off))
         IN Yields(st, made, ShiftMeans(Meaning(st, root), {off}))
<1> DEFINE e == Shifted(root, off)
           q == Add(st, e)
           m == [root |-> root, off |-> off, id |-> Len(st.sets) + 1]
           new == [q.st EXCEPT !.shifts = @ \cup {m}]
           made == Add([st EXCEPT !.shifts = @ \cup {m}], e)
           runs == AddRelRuns(Flat(st.sets[root]), off)
<1>1. SetsOK(st)
  BY DEF StoreOK
<1>2. /\ root \in IdsOf(st) /\ runs # <<>>
      /\ RunsMean(runs) = ShiftMeans(RunsMean(Flat(st.sets[root])), {off})
  BY <1>1, ShiftNormal
<1>3. RunsOf(st, root) = Flat(st.sets[root])
  BY <1>1, <1>2, RunsOfNormal DEF RootOK
<1>4. /\ e.form = "shift" /\ e.root = root /\ e.off = off /\ e = Shifted(e.root, e.off)
  BY DEF Shifted
<1>5. e \in SetRec
  <2>1. root \in Nat /\ <<>> \in Seq(Proper) /\ NoList \in ListRec
    <3>1. root \in Nat
      BY <1>1, <1>2, StoreTyped
    <3>2. MaxRel \in Nat /\ <<>> \in Seq(Proper)
      BY NullSetsAssumption, EmptyNormal
    <3>3. NoList \in ListRec
      BY <3>2 DEF NoList, ListRec
    <3> QED BY <3>1, <3>2, <3>3
  <2> QED BY <2>1 DEF Shifted, SetRec
<1>6. EntryOK(st.sets, e)
  <2> HIDE DEF e
  <2> QED BY <1>4 DEF EntryOK, ShiftEntry
<1>7. made.st = new /\ made.id = q.id
  <2>1. q.st = [st EXCEPT !.sets = Append(@, e)] /\ q.id = Len(st.sets) + 1
    BY DEF Add, Gives
  <2>2. /\ made.st = [[st EXCEPT !.shifts = @ \cup {m}] EXCEPT !.sets = Append(@, e)]
        /\ made.id = Len([st EXCEPT !.shifts = @ \cup {m}].sets) + 1
    BY DEF Add, Gives
  <2>3. st \in StoreRec
    BY <1>1, StoreTyped
  <2> HIDE DEF m, e, q, made
  <2>4. st = [sets |-> st.sets, cache |-> st.cache, created |-> st.created, shifts |-> st.shifts, rels |-> st.rels]
    BY <2>3 DEF StoreRec
  <2>5. [st EXCEPT !.shifts = @ \cup {m}] =
          [sets |-> st.sets, cache |-> st.cache, created |-> st.created, shifts |-> st.shifts \cup {m}, rels |-> st.rels]
    BY <2>4
  <2>6. made.st = [sets |-> Append(st.sets, e), cache |-> st.cache, created |-> st.created,
                   shifts |-> st.shifts \cup {m}, rels |-> st.rels]
    BY <2>2, <2>5
  <2>7. q.st = [sets |-> Append(st.sets, e), cache |-> st.cache, created |-> st.created,
                shifts |-> st.shifts, rels |-> st.rels]
    BY <2>1, <2>4
  <2>8. [q.st EXCEPT !.shifts = @ \cup {m}] =
          [sets |-> Append(st.sets, e), cache |-> st.cache, created |-> st.created,
           shifts |-> st.shifts \cup {m}, rels |-> st.rels]
    <3> DEFINE x == q.st
               S == Append(st.sets, e)
               T == st.shifts \cup {m}
    <3>1. x = [sets |-> S, cache |-> st.cache, created |-> st.created, shifts |-> st.shifts, rels |-> st.rels]
      BY <2>7
    <3> HIDE DEF x, S
    <3>2. x.shifts = st.shifts
      BY <3>1
    <3>3. x.shifts \cup {m} = T
      BY <3>2
    <3> HIDE DEF T
    <3>4. [x EXCEPT !.shifts = @ \cup {m}] = [x EXCEPT !.shifts = T]
      BY <3>3
    <3>5. [x EXCEPT !.shifts = T] =
            [sets |-> S, cache |-> st.cache, created |-> st.created, shifts |-> T, rels |-> st.rels]
      BY <3>1
    <3> QED BY <3>4, <3>5 DEF x, S, T
  <2>9. made.id = q.id
    BY <2>1, <2>2, <2>5
  <2> QED BY <2>6, <2>8, <2>9
<1> HIDE DEF e
<1>8. runs = IF e.form = "shift" THEN AddRelRuns(Flat(st.sets[e.root]), e.off) ELSE Flat(e)
  BY <1>4
<1> HIDE DEF runs
<1>9. /\ Grew(st, q.st) /\ q.id = Len(st.sets) + 1 /\ q.id \in IdsOf(q.st) /\ RunsOf(q.st, q.id) = runs
  BY <1>2, <1>5, <1>6, <1>8, AddKeeps
<1> DEFINE t == q.st
<1>10. /\ StoreOK(t) /\ root \in IdsOf(t) /\ q.id \in IdsOf(t) /\ Grew(st, t) /\ RunsOf(t, root) = Flat(st.sets[root])
       /\ RunsOf(t, q.id) = runs
  <2>1. Grew(st, t)
    BY <1>9
  <2> HIDE DEF t
  <2>2. StoreOK(t) /\ root \in IdsOf(t) /\ RunsOf(t, root) = Flat(st.sets[root])
    BY <1>2, <1>3, <2>1, GrewIds
  <2> QED BY <1>9, <2>1, <2>2 DEF t
<1>11. Meaning(t, q.id) = ShiftMeans(Meaning(t, root), {off}) /\ Meaning(t, root) = Meaning(st, root)
  BY <1>2, <1>3, <1>10 DEF Meaning
<1>12. m = [root |-> root, off |-> off, id |-> q.id]
  BY <1>9
<1> HIDE DEF t, q
<1>13. Grew(t, [t EXCEPT !.shifts = @ \cup {[root |-> root, off |-> off, id |-> q.id]}])
       /\ [t EXCEPT !.shifts = @ \cup {[root |-> root, off |-> off, id |-> q.id]}].sets = t.sets
  BY <1>10, <1>11, ShiftsMore
<1>14. Grew(t, new) /\ new.sets = t.sets
  BY <1>12, <1>13 DEF t
<1> HIDE DEF new, m, made
<1>15. Grew(st, new)
  BY <1>10, <1>14, GrewOn
<1>16. q.id \in IdsOf(new) /\ Meaning(new, q.id) = ShiftMeans(Meaning(st, root), {off})
  BY <1>10, <1>11, <1>14, GrewIds
<1>17. Yields(st, made, ShiftMeans(Meaning(st, root), {off}))
  BY <1>7, <1>15, <1>16 DEF Yields
<1> QED
  BY <1>17 DEF made, m, e

(* What the caller may shift: not the empty set, and not up to MaxRel.     *)
LEMMA AddRelYields ==
  ASSUME NEW st, StoreOK(st), NEW a \in IdsOf(st), NEW rel \in Nat,
         Meaning(st, a) # {}, MaxRelOf(st, a) + rel < MaxRel
  PROVE  Yields(st, AddRel(st, a, rel), ShiftMeans(Meaning(st, a), {rel}))
<1> DEFINE res == AddRel(st, a, rel)
           M == ShiftMeans(Meaning(st, a), {rel})
           done == {m \in st.rels : m.set = a /\ m.rel = rel}
           root == Root(st, a)
           off == Offset(st, a) + rel
           known == {m \in st.shifts : m.root = root /\ m.off = off}
           made == Add([st EXCEPT !.shifts = @ \cup {[root |-> root, off |-> off, id |-> Len(st.sets) + 1]}],
                       Shifted(root, off))
           r == IF known # {} THEN Gives(st, (CHOOSE m \in known : TRUE).id) ELSE made
           f == Flat(st.sets[root])
<1>1. SetsOK(st) /\ TablesOK(st)
  BY DEF StoreOK
<1>2. root \in IdsOf(st) /\ Offset(st, a) \in Nat /\ off \in Nat /\ M = ShiftMeans(Meaning(st, root), {off})
  <2>1. RootTells(st, a, rel)
    BY RootMeans
  <2> QED BY <2>1 DEF RootTells
<1>3. MaxRel \in Nat /\ MaxRelOf(st, a) \in Nat
  BY <1>1, ReadsAre, NullSetsAssumption
<1>4. Normal(RunsOf(st, a)) /\ Meaning(st, a) = RunsMean(RunsOf(st, a))
  BY <1>1, RunsOfNormal DEF Meaning
<1>5. CASE rel = 0 \/ rel = MaxRel
  <2>1. rel = 0
    BY <1>3, <1>5
  <2>2. Meaning(st, a) \in SUBSET Places
    BY <1>4, MeanPlaces
  <2>3. M = Meaning(st, a)
    BY <2>1, <2>2, ShiftMeansFacts
  <2>4. res = Gives(st, a)
    BY <1>5 DEF AddRel
  <2>5. Yields(st, Gives(st, a), Meaning(st, a))
    BY GivesSelf
  <2> QED BY <2>3, <2>4, <2>5
<1>6. CASE ~ (rel = 0 \/ rel = MaxRel) /\ done # {}
  <2> DEFINE m == CHOOSE x \in done : TRUE
  <2>1. m \in st.rels /\ m.set = a /\ m.rel = rel
    BY <1>6
  <2>2. res = Gives(st, m.id)
    BY <1>6 DEF AddRel
  <2> HIDE DEF m
  <2>3. m.id \in IdsOf(st) /\ Meaning(st, m.id) = M
    BY <1>1, <2>1 DEF TablesOK
  <2>4. Yields(st, Gives(st, m.id), Meaning(st, m.id))
    BY <2>3, GivesSelf
  <2> QED BY <2>2, <2>3, <2>4
<1>7. CASE ~ (rel = 0 \/ rel = MaxRel) /\ done = {}
  <2>1. res = [r EXCEPT !.st.rels = @ \cup {[set |-> a, rel |-> rel, id |-> r.id]}]
    BY <1>7 DEF AddRel
  <2>2. Yields(st, r, M) /\ r = [st |-> r.st, id |-> r.id]
    <3>1. CASE known # {}
      <4> DEFINE m == CHOOSE x \in known : TRUE
      <4>1. m \in st.shifts /\ m.root = root /\ m.off = off
        BY <3>1
      <4>2. r = Gives(st, m.id)
        BY <3>1
      <4> HIDE DEF m
      <4>3. m.id \in IdsOf(st) /\ Meaning(st, m.id) = M
        BY <1>1, <1>2, <4>1 DEF TablesOK
      <4>4. Yields(st, Gives(st, m.id), Meaning(st, m.id))
        BY <4>3, GivesSelf
      <4> HIDE DEF r
      <4>5. r = [st |-> r.st, id |-> r.id]
        BY <4>2 DEF Gives
      <4> QED BY <4>2, <4>3, <4>4, <4>5
    <3>2. CASE known = {}
      <4>1. /\ st.sets[root].form # "shift" /\ f \in Seq(Proper)
            /\ RunsOf(st, a) = AddRelRuns(f, Offset(st, a))
            /\ \A i \in 1 .. Len(f) : f[i].hi + Offset(st, a) <= MaxRel
        BY <1>1, RootIs
      <4>2. RunsOf(st, a) # <<>>
        BY <1>4, EmptyMean
      <4>3. \A i \in 1 .. Len(RunsOf(st, a)) : RunsOf(st, a)[i].hi <= MaxRelOf(st, a)
        BY <1>1, ReadsAre
      <4> DEFINE d == Offset(st, a)
                 q == RunsOf(st, a)
                 most == MaxRelOf(st, a)
      <4> HIDE DEF d, q, f, most, M
      <4>4. q \in Seq(Proper) /\ Len(q) = Len(f) /\ \A i \in 1 .. Len(f) : q[i] = ShiftRun(f[i], d)
        <5>1. q = AddRelRuns(f, d) /\ d \in Nat /\ \A i \in 1 .. Len(f) : f[i].hi + d <= MaxRel
          BY <1>2, <4>1 DEF q, d
        <5> QED BY <4>1, <5>1, AddRelRunsAre
      <4>5. f # <<>>
        <5>1. q # <<>>
          BY <4>2 DEF q
        <5> QED BY <4>1, <4>4, <5>1, Members
      <4>6. ASSUME NEW i \in 1 .. Len(f) PROVE f[i].hi + off < MaxRel
        <5>1. q[i] = ShiftRun(f[i], d) /\ q[i].hi <= most
          BY <4>3, <4>4 DEF q, most
        <5>2. f[i].hi \in Nat
          <6>1. f[i] \in Proper
            BY <4>1, Members
          <6> QED BY <6>1, ProperRun
        <5>3. f[i].hi + d <= most
          BY <5>1 DEF ShiftRun, Tagged
        <5>4. most + rel < MaxRel /\ most \in Nat /\ d \in Nat /\ off = d + rel
          BY <1>2, <1>3 DEF most, d
        <5> QED BY <1>3, <5>2, <5>3, <5>4
      <4>7. RootOK(st.sets, root, off)
        BY <1>2, <4>1, <4>5, <4>6 DEF RootOK, IdsOf, f
      <4> HIDE DEF root, off
      <4>8. Yields(st, made, ShiftMeans(Meaning(st, root), {off}))
        BY <1>2, <4>7, ShiftMade
      <4>9. r = made
        BY <3>2
      <4>10. made = [st |-> made.st, id |-> made.id]
        BY DEF Add, Gives
      <4> HIDE DEF made, r
      <4> QED BY <1>2, <4>8, <4>9, <4>10
    <3> QED BY <3>1, <3>2
  <2> DEFINE t == r.st
             k == r.id
             new == [t EXCEPT !.rels = @ \cup {[set |-> a, rel |-> rel, id |-> k]}]
  <2>3. res.st = new /\ res.id = k
    <3> HIDE DEF r, res
    <3>1. r = [st |-> t, id |-> k]
      BY <2>2
    <3> HIDE DEF t, k
    <3> QED BY <2>1, <3>1 DEF t, k
  <2>4. Grew(st, t) /\ k \in IdsOf(t) /\ Meaning(t, k) = M
    BY <2>2 DEF Yields
  <2> HIDE DEF t, k, r, res
  <2>5. StoreOK(t) /\ a \in IdsOf(t) /\ Meaning(t, a) = Meaning(st, a)
    BY <2>4, GrewIds
  <2>6. Grew(t, new) /\ new.sets = t.sets
    BY <2>4, <2>5, RelsMore
  <2> HIDE DEF new, M
  <2>7. Grew(st, new)
    BY <2>4, <2>6, GrewOn
  <2>8. k \in IdsOf(new) /\ Meaning(new, k) = M
    BY <2>4, <2>5, <2>6, GrewIds
  <2>9. Yields(st, res, M)
    BY <2>3, <2>7, <2>8 DEF Yields
  <2> QED BY <2>9 DEF res, M
<1> QED
  BY <1>5, <1>6, <1>7

-----------------------------------------------------------------------------
(* union_shifted.                                                          *)
LEMMA ZeroShifted ==
  ASSUME NEW D \in SUBSET Nat
  PROVE  ShiftMeans({<<0, NoTag, b>> : b \in Always}, D) = {<<d, NoTag, b>> : d \in D, b \in Always}
<1> DEFINE Z == {<<0, NoTag, b>> : b \in Always}
           S == {<<m[1] + d, m[2], m[3]>> : m \in Z, d \in D}
           T == {<<d, NoTag, b>> : d \in D, b \in Always}
<1>1. ASSUME NEW d \in D, NEW b \in Always PROVE <<d, NoTag, b>> \in S
  <2> DEFINE m == <<0, NoTag, b>>
  <2>1. m \in Z /\ m[1] = 0 /\ m[2] = NoTag /\ m[3] = b
    OBVIOUS
  <2>2. 0 + d = d
    OBVIOUS
  <2> HIDE DEF m, Z
  <2>3. <<m[1] + d, m[2], m[3]>> = <<d, NoTag, b>>
    BY <2>1, <2>2
  <2> QED BY <2>1, <2>3
<1>2. ASSUME NEW m \in Z, NEW d \in D PROVE <<m[1] + d, m[2], m[3]>> \in T
  <2>1. PICK b \in Always : m = <<0, NoTag, b>>
    OBVIOUS
  <2>2. m[1] + d = d /\ m[2] = NoTag /\ m[3] = b
    BY <2>1
  <2> QED BY <2>2
<1>3. S = T
  <2>1. ASSUME NEW x \in S PROVE x \in T
    <3>1. PICK m \in Z, d \in D : x = <<m[1] + d, m[2], m[3]>>
      OBVIOUS
    <3> HIDE DEF Z, T
    <3> QED BY <1>2, <3>1
  <2>2. ASSUME NEW x \in T PROVE x \in S
    <3>1. PICK d \in D, b \in Always : x = <<d, NoTag, b>>
      OBVIOUS
    <3> HIDE DEF Z, S
    <3> QED BY <1>1, <3>1
  <2> HIDE DEF S, T
  <2> QED BY <2>1, <2>2
<1>4. ShiftMeans(Z, D) = S
  BY DEF ShiftMeans
<1> HIDE DEF S, T
<1> QED
  BY <1>3, <1>4 DEF T

LEMMA NoRels == Rels({}) = {} /\ \A M : ShiftMeans({}, M) = {} /\ ShiftMeans(M, {}) = {}
  BY DEF Rels, ShiftMeans

LEMMA UnionShiftedYields ==
  ASSUME NEW st, StoreOK(st), NEW body \in IdsOf(st), NEW shifts \in IdsOf(st),
         Meaning(st, shifts) = {<<rel, NoTag, x>> : rel \in Rels(Meaning(st, shifts)), x \in Always},
         MaxRelOf(st, body) + MaxRelOf(st, shifts) < MaxRel
  PROVE  Yields(st, UnionShifted(st, body, shifts), ShiftMeans(Meaning(st, body), Rels(Meaning(st, shifts))))
<1> DEFINE res == UnionShifted(st, body, shifts)
           p == RunsOf(st, body)
           q == RunsOf(st, shifts)
           D == Rels(Meaning(st, shifts))
           M == ShiftMeans(Meaning(st, body), D)
<1>1. SetsOK(st)
  BY DEF StoreOK
<1>2. /\ Normal(p) /\ Normal(q) /\ p \in Seq(Proper) /\ q \in Seq(Proper)
      /\ Meaning(st, body) = RunsMean(p) /\ Meaning(st, shifts) = RunsMean(q)
  BY <1>1, RunsOfNormal DEF Meaning
<1>3. D \in SUBSET Nat
  <2>1. Meaning(st, shifts) \in SUBSET Places
    BY <1>2, MeanPlaces
  <2>2. \A x \in Places : x[1] \in Nat
    <3>1. \A w \in Rel : w \in Nat
      BY NullSetsAssumption DEF Rel
    <3> QED BY <3>1 DEF Places
  <2> QED BY <2>1, <2>2 DEF Rels
<1>4. CASE body = EMPTY \/ shifts = EMPTY
  <2>1. res = Gives(st, EMPTY)
    BY <1>4 DEF UnionShifted
  <2>2. Meaning(st, EMPTY) = {} /\ EMPTY \in IdsOf(st)
    BY <1>1, FirstSets DEF EMPTY
  <2>3. M = {}
    BY <1>4, <2>2, NoRels
  <2>4. Yields(st, Gives(st, EMPTY), Meaning(st, EMPTY))
    BY <2>2, GivesSelf
  <2> QED BY <2>1, <2>2, <2>3, <2>4
<1>5. CASE ~ (body = EMPTY \/ shifts = EMPTY) /\ IsAlways0(st, body)
  <2> DEFINE r == Run(Always, 0, 0)
  <2>1. res = Gives(st, shifts)
    BY <1>5 DEF UnionShifted
  <2>2. SingleRunView(st, body) = {r}
    BY <1>5 DEF IsAlways0
  <2>3. ToSet(p) = {r}
    BY <1>1, <2>2, ViewIs
  <2>4. r.lo = 0 /\ r.hi = 0 /\ r.tag = NoTag /\ r.mask = Always /\ 0 .. 0 = {0}
    BY DEF Run, Tagged
  <2> HIDE DEF r, p
  <2>5. RunsMean(p) = {<<rel, r.tag, b>> : rel \in r.lo .. r.hi, b \in r.mask}
    BY <2>3 DEF RunsMean
  <2>6. RunsMean(p) = {<<0, NoTag, b>> : b \in Always}
    BY <2>4, <2>5
  <2> HIDE DEF D
  <2>7. M = {<<d, NoTag, b>> : d \in D, b \in Always}
    BY <1>2, <1>3, <2>6, ZeroShifted
  <2>8. M = Meaning(st, shifts)
    BY <2>7 DEF D
  <2>9. Yields(st, Gives(st, shifts), Meaning(st, shifts))
    BY GivesSelf
  <2> QED BY <2>1, <2>8, <2>9 DEF D
<1>6. CASE ~ (body = EMPTY \/ shifts = EMPTY) /\ ~ IsAlways0(st, body)
  <2> DEFINE full == Pair(st, body, shifts)
             runs == UnionShiftedRuns(p, q)
  <2>1. Grew(st, full) /\ StoreOK(full) /\ full.sets[body].runs = p /\ full.sets[shifts].runs = q
    BY PairIs
  <2>2. res = GetRunsId(full, UnionShiftedRuns(full.sets[body].runs, full.sets[shifts].runs))
    BY <1>6 DEF UnionShifted
  <2>3. res = GetRunsId(full, runs)
    BY <2>1, <2>2
  <2>4. AllRels(q)
    BY <1>2 DEF AllRels
  <2>5. ASSUME NEW i \in 1 .. Len(p), NEW j \in 1 .. Len(q) PROVE p[i].hi + q[j].hi <= MaxRel
    <3> DEFINE m == MaxRelOf(st, body)
               n == MaxRelOf(st, shifts)
    <3>1. p[i].hi <= m /\ q[j].hi <= n /\ m \in Nat /\ n \in Nat /\ m + n < MaxRel
      BY <1>1, ReadsAre
    <3>2. p[i].hi \in Nat /\ q[j].hi \in Nat
      <4>1. p[i] \in Proper /\ q[j] \in Proper
        BY <1>2, Members
      <4> QED BY <4>1, ProperRun
    <3> HIDE DEF m, n, p, q
    <3>3. MaxRel \in Nat
      BY NullSetsAssumption
    <3> QED BY <3>1, <3>2, <3>3
  <2>6. M = ShiftMeans(RunsMean(p), Rels(RunsMean(q)))
    BY <1>2
  <2> HIDE DEF full, p, q, res, M, D
  <2>7. Normal(runs) /\ RunsMean(runs) = M
    BY <1>2, <2>4, <2>5, <2>6, UnionShiftedMean
  <2> HIDE DEF runs
  <2>8. Yields(full, res, M)
    BY <2>1, <2>3, <2>7, GetRunsIdYields
  <2>9. Yields(st, res, M)
    BY <2>1, <2>8, YieldsOn
  <2> QED BY <2>9 DEF res, M, D
<1> QED
  BY <1>4, <1>5, <1>6

-----------------------------------------------------------------------------
(* Steps.                                                                  *)
LEMMA NewestIs ==
  ASSUME StoreOK(store)
  PROVE  Ids = IdsOf(store) /\ Newest \in IdsOf(store) /\ \A id \in IdsOf(store) : id \in Nat
<1>1. /\ Len(store.sets) \in Nat /\ Len(store.sets) >= 5 /\ DOMAIN store.sets = IdsOf(store)
      /\ IdsOf(store) = 1 .. Len(store.sets)
  BY StoreTyped DEF StoreOK
<1>2. Len(store.sets) \in 1 .. Len(store.sets)
  BY <1>1
<1>3. \A id \in 1 .. Len(store.sets) : id \in Nat
  BY <1>1
<1> QED
  BY <1>1, <1>2, <1>3 DEF Ids, Newest

LEMMA BecomesGrew ==
  ASSUME NEW r, NEW M, Yields(store, r, M), Becomes(r)
  PROVE  Grew(store, store')
  BY DEF Yields, Becomes

LEMMA RelNat == \A rel \in Rel : rel \in Nat
  BY NullSetsAssumption DEF Rel

(* Every step leaves a good store, in which no set means anything else.    *)
LEMMA StepGrows ==
  ASSUME StoreOK(store), NullsNext
  PROVE  Grew(store, store')
<1>1. Ids = IdsOf(store) /\ Newest \in IdsOf(store)
  BY NewestIs
<1>2. \A a \in IdsOf(store) : Means(store, a) = Meaning(store, a)
  BY MaterialisedIs
<1>3. CASE Single
  <2>1. PICK r \in Runs : Becomes(SingleRun(store, r.mask, r.lo, r.hi))
    BY <1>3 DEF Single
  <2> DEFINE x == Run(r.mask, r.lo, r.hi)
  <2>2. x \in Proper
    BY NullSetsAssumption DEF Run, Tagged, Proper
  <2>3. SingleRun(store, r.mask, r.lo, r.hi) = GetRunsId(store, <<x>>)
    BY DEF SingleRun
  <2> HIDE DEF x
  <2>4. Yields(store, GetRunsId(store, <<x>>), RunsMean(<<x>>))
    BY <2>2, OneRunYields
  <2> QED BY <2>1, <2>3, <2>4, BecomesGrew
<1>4. CASE OfTag
  <2>1. PICK t \in Tag : Becomes(TagRun(store, t))
    BY <1>4 DEF OfTag
  <2> DEFINE x == Tagged(Always, 0, 0, t)
  <2>2. x \in Proper
    <3>1. 0 \in Rel /\ t \in Nat /\ 0 <= 0 /\ Always \in (SUBSET Bit) \ {{}}
      BY NullSetsAssumption DEF Rel, Always, Bit
    <3> QED BY <3>1 DEF Tagged, Proper
  <2>3. TagRun(store, t) = GetRunsId(store, <<x>>)
    BY DEF TagRun
  <2> HIDE DEF x
  <2>4. Yields(store, GetRunsId(store, <<x>>), RunsMean(<<x>>))
    BY <2>2, OneRunYields
  <2> QED BY <2>1, <2>3, <2>4, BecomesGrew
<1>5. CASE Or
  <2>1. PICK b \in IdsOf(store) : Becomes(OrId(store, Newest, b))
    BY <1>1, <1>5 DEF Or
  <2>2. Yields(store, OrId(store, Newest, b), Meaning(store, Newest) \cup Meaning(store, b))
    BY <1>1, OrIdYields
  <2> QED BY <2>1, <2>2, BecomesGrew
<1>6. CASE And
  <2>1. PICK b \in IdsOf(store) : Becomes(AndId(store, Newest, b))
    BY <1>1, <1>6 DEF And
  <2>2. Yields(store, AndId(store, Newest, b), AndMeans(Meaning(store, Newest), Meaning(store, b)))
    BY <1>1, AndIdYields
  <2> QED BY <2>1, <2>2, BecomesGrew
<1>7. CASE Masked
  <2>1. PICK mask \in Mask : Becomes(AndMask(store, Newest, mask))
    BY <1>7 DEF Masked
  <2>2. mask \in SUBSET Bit
    BY NullSetsAssumption
  <2>3. Yields(store, AndMask(store, Newest, mask), {x \in Meaning(store, Newest) : x[3] \in mask})
    BY <1>1, <2>2, AndMaskYields
  <2> QED BY <2>1, <2>3, BecomesGrew
<1>8. CASE Not
  <2>1. Becomes(NotId(store, Newest))
    BY <1>8 DEF Not
  <2>2. Yields(store, NotId(store, Newest), NotMeans(Meaning(store, Newest)))
    BY <1>1, NotIdYields
  <2> QED BY <2>1, <2>2, BecomesGrew
<1>9. CASE Shift
  <2>1. PICK rel \in Rel : MayShift(Newest, rel) /\ Becomes(AddRel(store, Newest, rel))
    BY <1>9 DEF Shift
  <2>2. rel \in Nat /\ Meaning(store, Newest) # {} /\ MaxRelOf(store, Newest) + rel < MaxRel
    BY <1>1, <1>2, <2>1, RelNat DEF MayShift
  <2>3. Yields(store, AddRel(store, Newest, rel), ShiftMeans(Meaning(store, Newest), {rel}))
    BY <1>1, <2>2, AddRelYields
  <2> QED BY <2>1, <2>3, BecomesGrew
<1>10. CASE ShiftBy
  <2>1. PICK b \in IdsOf(store) : MayShiftBy(Newest, b) /\ Becomes(UnionShifted(store, Newest, b))
    BY <1>1, <1>10 DEF ShiftBy
  <2>2. /\ Meaning(store, b) = {<<rel, NoTag, x>> : rel \in Rels(Meaning(store, b)), x \in Always}
        /\ MaxRelOf(store, Newest) + MaxRelOf(store, b) < MaxRel
    <3>1. Means(store, b) = Meaning(store, b)
      BY <1>2
    <3> QED BY <2>1, <3>1 DEF MayShiftBy
  <2>3. Yields(store, UnionShifted(store, Newest, b), ShiftMeans(Meaning(store, Newest), Rels(Meaning(store, b))))
    BY <1>1, <2>2, UnionShiftedYields
  <2> QED BY <2>1, <2>3, BecomesGrew
<1>11. CASE Read
  <2>1. PICK a \in IdsOf(store) : store' = Materialised(store, a)
    BY <1>1, <1>11 DEF Read
  <2>2. Grew(store, Materialised(store, a))
    BY MaterialisedIs
  <2> QED BY <2>1, <2>2
<1> QED
  BY <1>3, <1>4, <1>5, <1>6, <1>7, <1>8, <1>9, <1>10, <1>11 DEF NullsNext

LEMMA StepKeepsMeaning ==
  ASSUME StoreOK(store), NullsNext
  PROVE  \A id \in Ids : Means(store', id) = Means(store, id)
<1>1. Grew(store, store')
  BY StepGrows
<1>2. Ids = IdsOf(store)
  BY NewestIs
<1>3. IdsOf(store) \subseteq IdsOf(store') /\ StoreOK(store') /\ \A id \in IdsOf(store) : Meaning(store', id) = Meaning(store, id)
  BY <1>1, GrewIds
<1>4. ASSUME NEW id \in IdsOf(store) PROVE Means(store', id) = Means(store, id)
  <2>1. Means(store', id) = Meaning(store', id)
    BY <1>3, MaterialisedIs
  <2>2. Means(store, id) = Meaning(store, id)
    BY MaterialisedIs
  <2> QED BY <1>3, <2>1, <2>2
<1> QED
  BY <1>2, <1>4

LEMMA StoreSetsWellFormed ==
  ASSUME StoreOK(store)
  PROVE  SetsWellFormed
<1>1. Ids = IdsOf(store) /\ SetsOK(store)
  BY NewestIs DEF StoreOK
<1>2. SUFFICES ASSUME NEW id \in IdsOf(store)
      PROVE  LET runs == Materialised(store, id).sets[id].runs
             IN /\ runs = SortRuns(ToSet(runs))
                /\ \A i, j \in DOMAIN runs :
                     i < j /\ runs[i].tag = runs[j].tag =>
                       /\ runs[i].hi < runs[j].lo
                       /\ runs[i].mask = runs[j].mask => runs[i].hi + 1 < runs[j].lo
                /\ runs # <<>> => /\ MinRel(store, id) = runs[1].lo
                                  /\ MaxRelOf(store, id) = Max({r.hi : r \in ToSet(runs)})
                /\ SingleRunView(store, id) = IF Len(runs) = 1 THEN ToSet(runs) ELSE {}
                /\ store.sets[id].form = "shift" => store.sets[store.sets[id].root].form # "shift"
  BY <1>1 DEF SetsWellFormed
<1> DEFINE s == RunsOf(store, id)
<1>3. Materialised(store, id).sets[id].runs = s
  BY MaterialisedIs
<1>4. Normal(s) /\ s \in Seq(Proper) /\ DOMAIN s = 1 .. Len(s)
  BY <1>1, RunsOfNormal, Members
<1>5. s = SortRuns(ToSet(s))
  BY <1>4, NormalFacts
<1>6. ASSUME NEW i \in 1 .. Len(s), NEW j \in 1 .. Len(s), i < j, s[i].tag = s[j].tag
      PROVE  s[i].hi < s[j].lo /\ (s[i].mask = s[j].mask => s[i].hi + 1 < s[j].lo)
  <2> HIDE DEF s
  <2>1. Clear(s[i], s[j])
    BY <1>4, <1>6, NormalOrder
  <2> QED BY <2>1 DEF Clear
<1>7. ASSUME s # <<>> PROVE MinRel(store, id) = s[1].lo /\ MaxRelOf(store, id) = Max({r.hi : r \in ToSet(s)})
  <2> DEFINE m == MaxRelOf(store, id)
             S == {r.hi : r \in ToSet(s)}
  <2>1. /\ MinRel(store, id) = s[1].lo
        /\ \A i \in 1 .. Len(s) : s[i].hi <= m
        /\ \E i \in 1 .. Len(s) : s[i].hi = m
    BY <1>1, <1>7, ReadsAre
  <2> HIDE DEF m, s
  <2>2. \A r \in ToSet(s) : r \in Proper /\ \E i \in 1 .. Len(s) : r = s[i]
    BY <1>4, Members
  <2>3. \A i \in 1 .. Len(s) : s[i] \in ToSet(s)
    BY <1>4, Members
  <2>4. \A r \in ToSet(s) : r.hi \in 0 .. MaxRel
    BY <2>2, ProperRun DEF Rel
  <2>5. S \in SUBSET (0 .. MaxRel) /\ m \in S /\ \A x \in S : x <= m
    BY <2>1, <2>2, <2>3, <2>4
  <2> HIDE DEF S
  <2>6. Max(S) = m
    BY <2>5, MaxIs
  <2> QED BY <2>1, <2>6 DEF S, m
<1>8. SingleRunView(store, id) = IF Len(s) = 1 THEN ToSet(s) ELSE {}
  BY <1>1, ViewIs
<1>9. ASSUME store.sets[id].form = "shift" PROVE store.sets[store.sets[id].root].form # "shift"
  <2>1. EntryOK(store.sets, store.sets[id])
    BY <1>1, StoreTyped
  <2> QED BY <1>9, <2>1 DEF EntryOK, RunsEntry, ListEntry, ShiftEntry, RootOK
<1> HIDE DEF s
<1> QED
  BY <1>3, <1>4, <1>5, <1>6, <1>7, <1>8, <1>9

LEMMA YieldsReturns ==
  ASSUME NEW r, NEW M, Yields(store, r, M)
  PROVE  Means(r.st, r.id) = M
<1>1. StoreOK(r.st) /\ r.id \in IdsOf(r.st) /\ Meaning(r.st, r.id) = M
  BY DEF Yields, Grew
<1> DEFINE t == r.st
           k == r.id
<1> HIDE DEF t, k
<1>2. Means(t, k) = Meaning(t, k)
  BY <1>1, MaterialisedIs DEF t, k
<1> QED
  BY <1>1, <1>2 DEF t, k

LEMMA StoreResultsMean ==
  ASSUME StoreOK(store)
  PROVE  ResultsMean
<1> DEFINE m == [a \in Ids |-> Means(store, a)]
<1>1. Ids = IdsOf(store) /\ Newest \in IdsOf(store) /\ \A id \in IdsOf(store) : id \in Nat
  BY NewestIs
<1>2. \A a \in IdsOf(store) : Means(store, a) = Meaning(store, a) /\ m[a] = Meaning(store, a)
  BY <1>1, MaterialisedIs
<1> HIDE DEF m
<1>3. ASSUME NEW a \in IdsOf(store), NEW b \in a .. Newest
      PROVE  /\ Means(OrId(store, a, b).st, OrId(store, a, b).id) = m[a] \cup m[b]
             /\ Means(AndId(store, a, b).st, AndId(store, a, b).id) = AndMeans(m[a], m[b])
  <2>1. b \in IdsOf(store)
    <3>1. IdsOf(store) = 1 .. Len(store.sets) /\ a \in Nat /\ Newest \in Nat /\ Newest = Len(store.sets)
      BY <1>1 DEF IdsOf, Newest
    <3>2. 1 <= a
      BY <3>1
    <3> QED BY <3>1, <3>2
  <2>2. Yields(store, OrId(store, a, b), Meaning(store, a) \cup Meaning(store, b))
    BY <2>1, OrIdYields
  <2>3. Yields(store, AndId(store, a, b), AndMeans(Meaning(store, a), Meaning(store, b)))
    BY <2>1, AndIdYields
  <2>4. Means(OrId(store, a, b).st, OrId(store, a, b).id) = Meaning(store, a) \cup Meaning(store, b)
    BY <2>2, YieldsReturns
  <2>5. Means(AndId(store, a, b).st, AndId(store, a, b).id) = AndMeans(Meaning(store, a), Meaning(store, b))
    BY <2>3, YieldsReturns
  <2> QED BY <1>2, <2>1, <2>4, <2>5
<1>4. ASSUME NEW a \in IdsOf(store), NEW b \in IdsOf(store), MayShiftBy(a, b)
      PROVE  Means(UnionShifted(store, a, b).st, UnionShifted(store, a, b).id) = ShiftMeans(m[a], Rels(m[b]))
  <2>1. /\ Meaning(store, b) = {<<rel, NoTag, x>> : rel \in Rels(Meaning(store, b)), x \in Always}
        /\ MaxRelOf(store, a) + MaxRelOf(store, b) < MaxRel
    <3>1. Means(store, b) = Meaning(store, b)
      BY <1>2
    <3> QED BY <1>4, <3>1 DEF MayShiftBy
  <2>2. Yields(store, UnionShifted(store, a, b), ShiftMeans(Meaning(store, a), Rels(Meaning(store, b))))
    BY <2>1, UnionShiftedYields
  <2>3. Means(UnionShifted(store, a, b).st, UnionShifted(store, a, b).id) =
          ShiftMeans(Meaning(store, a), Rels(Meaning(store, b)))
    BY <2>2, YieldsReturns
  <2> QED BY <1>2, <2>3
<1>5. ASSUME NEW a \in IdsOf(store), NEW mask \in Mask
      PROVE  Means(AndMask(store, a, mask).st, AndMask(store, a, mask).id) = {x \in m[a] : x[3] \in mask}
  <2>1. mask \in SUBSET Bit
    BY NullSetsAssumption
  <2>2. Yields(store, AndMask(store, a, mask), {x \in Meaning(store, a) : x[3] \in mask})
    BY <2>1, AndMaskYields
  <2>3. Means(AndMask(store, a, mask).st, AndMask(store, a, mask).id) = {x \in Meaning(store, a) : x[3] \in mask}
    BY <2>2, YieldsReturns
  <2>4. m[a] = Meaning(store, a)
    BY <1>2
  <2> QED BY <2>3, <2>4
<1>6. ASSUME NEW a \in IdsOf(store)
      PROVE  Means(NotId(store, a).st, NotId(store, a).id) = NotMeans(m[a])
  <2>1. Yields(store, NotId(store, a), NotMeans(Meaning(store, a)))
    BY NotIdYields
  <2>2. Means(NotId(store, a).st, NotId(store, a).id) = NotMeans(Meaning(store, a))
    BY <2>1, YieldsReturns
  <2> QED BY <1>2, <2>2
<1>7. ASSUME NEW a \in IdsOf(store), NEW rel \in Rel, MayShift(a, rel)
      PROVE  Means(AddRel(store, a, rel).st, AddRel(store, a, rel).id) = ShiftMeans(m[a], {rel})
  <2>1. rel \in Nat /\ Meaning(store, a) # {} /\ MaxRelOf(store, a) + rel < MaxRel
    BY <1>2, <1>7, RelNat DEF MayShift
  <2>2. Yields(store, AddRel(store, a, rel), ShiftMeans(Meaning(store, a), {rel}))
    BY <2>1, AddRelYields
  <2>3. Means(AddRel(store, a, rel).st, AddRel(store, a, rel).id) = ShiftMeans(Meaning(store, a), {rel})
    BY <2>2, YieldsReturns
  <2> QED BY <1>2, <2>3
<1> QED
  BY <1>1, <1>3, <1>4, <1>5, <1>6, <1>7 DEF ResultsMean, m

-----------------------------------------------------------------------------
(* What a list of runs stands for: or_runs, and_runs, and_mask_runs and    *)
(* not_runs compute the union, the intersection, the masked part and the   *)
(* complement of what their operands mean, and add_rel_runs and            *)
(* union_shifted_runs the shifts, for every list of maximal runs; and what *)
(* they return is such a list again.                                       *)
THEOREM RunsComputeMeaning ==
  ASSUME NEW a, Normal(a), NEW b, Normal(b)
  PROVE  /\ Normal(OrRuns(a, b)) /\ RunsMean(OrRuns(a, b)) = RunsMean(a) \cup RunsMean(b)
         /\ Normal(AndRuns(a, b)) /\ RunsMean(AndRuns(a, b)) = AndMeans(RunsMean(a), RunsMean(b))
         /\ \A mask \in SUBSET Bit :
              /\ Normal(AndMaskRuns(a, mask))
              /\ RunsMean(AndMaskRuns(a, mask)) = {x \in RunsMean(a) : x[3] \in mask}
         /\ a # <<>> => Normal(NotRuns(a)) /\ RunsMean(NotRuns(a)) = NotMeans(RunsMean(a))
         /\ \A d \in Nat : (\A i \in 1 .. Len(a) : a[i].hi + d <= MaxRel) =>
              Normal(AddRelRuns(a, d)) /\ RunsMean(AddRelRuns(a, d)) = ShiftMeans(RunsMean(a), {d})
         /\ AllRels(b) /\ (\A i \in 1 .. Len(a), j \in 1 .. Len(b) : a[i].hi + b[j].hi <= MaxRel) =>
              /\ Normal(UnionShiftedRuns(a, b))
              /\ RunsMean(UnionShiftedRuns(a, b)) = ShiftMeans(RunsMean(a), Rels(RunsMean(b)))
<1>1. Normal(OrRuns(a, b)) /\ RunsMean(OrRuns(a, b)) = RunsMean(a) \cup RunsMean(b)
  BY OrRunsMean
<1>2. Normal(AndRuns(a, b)) /\ RunsMean(AndRuns(a, b)) = AndMeans(RunsMean(a), RunsMean(b))
  BY AndRunsMean
<1>3. \A mask \in SUBSET Bit :
        /\ Normal(AndMaskRuns(a, mask))
        /\ RunsMean(AndMaskRuns(a, mask)) = {x \in RunsMean(a) : x[3] \in mask}
  BY AndMaskMean
<1>4. a # <<>> => Normal(NotRuns(a)) /\ RunsMean(NotRuns(a)) = NotMeans(RunsMean(a))
  BY NotRunsMean
<1>5. ASSUME NEW d \in Nat, \A i \in 1 .. Len(a) : a[i].hi + d <= MaxRel
      PROVE  Normal(AddRelRuns(a, d)) /\ RunsMean(AddRelRuns(a, d)) = ShiftMeans(RunsMean(a), {d})
  BY <1>5, AddRelMean
<1>6. ASSUME AllRels(b), \A i \in 1 .. Len(a), j \in 1 .. Len(b) : a[i].hi + b[j].hi <= MaxRel
      PROVE  /\ Normal(UnionShiftedRuns(a, b))
             /\ RunsMean(UnionShiftedRuns(a, b)) = ShiftMeans(RunsMean(a), Rels(RunsMean(b)))
  BY <1>6, UnionShiftedMean
<1> QED
  BY <1>1, <1>2, <1>3, <1>4, <1>5, <1>6

(* The inductive invariant: in whatever form a set is held, its runs are   *)
(* maximal, sorted and apart; a list is a chain from its end with the      *)
(* bounds it names; a shift is of a set that is not one and stays below    *)
(* MaxRel; only EMPTY is empty; and every entry of the tables that or_id,  *)
(* and_id and add_rel remember by is true of what the ids mean.            *)
THEOREM StoreStaysGood == NullsSpec => []StoreOK(store)
<1>1. NullsInit => StoreOK(store)
  BY NewStoreOK DEF NullsInit
<1>2. StoreOK(store) /\ [NullsNext]_nullsVars => StoreOK(store)'
  <2>1. ASSUME StoreOK(store), NullsNext PROVE StoreOK(store')
    BY <2>1, StepGrows DEF Grew
  <2>2. ASSUME StoreOK(store), UNCHANGED nullsVars PROVE StoreOK(store')
    <3>1. store' = store
      BY <2>2 DEF nullsVars
    <3> QED BY <2>2, <3>1
  <2> QED BY <2>1, <2>2
<1> QED
  BY <1>1, <1>2, PTL DEF NullsSpec

(* What is read of a set that is still a list or a shift - its least and   *)
(* greatest rel, its only run - is what its runs would say, and those runs *)
(* are maximal and apart: whatever was unioned, masked, shifted or read    *)
(* before, in any order.                                                   *)
THEOREM SetsStayWellFormed == NullsSpec => []SetsWellFormed
<1>1. StoreOK(store) => SetsWellFormed
  BY StoreSetsWellFormed
<1> QED
  BY <1>1, StoreStaysGood, PTL

(* An operation returns a set that means what it should, whether it is     *)
(* computed from runs, made by extending a list or shifting a root, or     *)
(* remembered.                                                             *)
THEOREM ResultsStayExact == NullsSpec => []ResultsMean
<1>1. StoreOK(store) => ResultsMean
  BY StoreResultsMean
<1> QED
  BY <1>1, StoreStaysGood, PTL

(* No step changes what an id means: extending a list, materialising a     *)
(* shift or its root, interning a set leave every other set as it was.     *)
THEOREM IdsStayMeaning == NullsSpec => IdsKeepMeaning
<1>1. StoreOK(store) /\ [NullsNext]_nullsVars => [\A id \in Ids : Means(store', id) = Means(store, id)]_nullsVars
  BY StepKeepsMeaning
<1>2. NullsSpec => [][NullsNext]_nullsVars
  BY DEF NullsSpec
<1> QED
  BY <1>1, <1>2, StoreStaysGood, PTL DEF IdsKeepMeaning
=============================================================================
