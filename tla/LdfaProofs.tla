----------------------------- MODULE LdfaProofs -----------------------------
(***************************************************************************)
(* Ldfa, for every algebra, capacity and number of byte classes: the       *)
(* tables stay in bounds and agree with the algebra whatever is registered *)
(* when and wherever a row fails.                                          *)
(*                                                                         *)
(* The invariant is split by what it is about: the numbering of nodes, the *)
(* tables indexed by those numbers, the call in progress, and the answer   *)
(* last given.  Actions are grouped the same way: most leave the tables    *)
(* alone, some only write a skip id, and those that register a node change *)
(* them by one entry.                                                      *)
(***************************************************************************)
EXTENDS Ldfa, TLAPS

LEMMA ModBelow == ASSUME NEW n \in Nat, NEW k \in Nat \ {0}
                  PROVE  /\ n % k \in 0 .. k - 1
                         /\ n % k <= n
                         /\ n < k => n % k = n
  OBVIOUS

LEMMA GrownProperties ==
  ASSUME NEW len \in Nat, NEW s \in Nat
  PROVE  Grown(len, s) \in Nat /\ len <= Grown(len, s) /\ s <= Grown(len, s)
  BY DEF Grown, MaxOf

-----------------------------------------------------------------------------
(* The inductive invariant.                                                *)
Static == re \in Regexes /\ simd \in BOOLEAN /\ cap \in Capacities

Numbering ==
  /\ nodes \in Seq(Node) /\ Len(nodes) >= 2
  /\ nodes[1] = Bot /\ nodes[2] = re.initial
  /\ index \in [Node -> 0 .. Len(nodes)]
  /\ effects \in Seq(SUBSET Null) /\ Len(effects) = Len(nodes)
  /\ \A s \in 1 .. Len(nodes) : s # 1 => effects[s] = re.nulls[nodes[s]]
  /\ OneStatePerNode

CenterOK ==
  /\ center \in Seq([Minterm -> 0 .. Len(nodes)])
  /\ \A s \in 1 .. Len(center), m \in Minterm :
       center[s][m] # 0 => s <= Len(nodes) /\ nodes[center[s][m]] = Target(nodes[s], m)

SkipOK ==
  /\ skipIds \in Seq(0 .. SkipMod - 1)
  /\ searchers \in Seq(SkipperType)
  /\ \A s \in 1 .. Len(skipIds) : skipIds[s] <= Len(searchers)
  /\ \A s \in 1 .. Len(skipIds) : s > Len(nodes) => skipIds[s] = 0
  /\ SkipSoundBelowLimit

BeginOK ==
  /\ begin \in [Minterm -> 1 .. Len(nodes)]
  /\ pruned \in 1 .. Len(nodes) /\ nodes[pruned] = re.pruned
  /\ \A m \in Minterm :
       Built \/ (pc = "begin" /\ m < mt) => nodes[begin[m]] = re.begin[m]

Sized == Built => Len(nodes) <= Len(center) /\ Len(nodes) <= Len(skipIds)

CallOK ==
  /\ pc \in {"new", "begin", "prefix", "fill", "install", "dead", "seek", "ready", "failed"}
  /\ mt \in 0 .. Minterms
  /\ job \in [state : 0 .. Len(nodes), minterm : Minterm,
              call : {"none", "lazy", "create", "prefix", "inner", "resume"}]
  /\ pc = "new" => mt = 0
  /\ pc \in {"new", "begin"} => center = <<>> /\ skipIds = <<>>
  /\ pc = "fill" => /\ job.state \in 1 .. Len(nodes)
                    /\ job.call # "none"
                    /\ \A m \in Minterm : m < mt => center[job.state][m] # 0
                    /\ job.call = "inner" => index[re.resume] # 0

RetOK ==
  /\ ret \in [status : {"none", "ok", "err"}, call : {"none", "lazy", "create"},
              state : 0 .. Len(nodes), minterm : Minterm, next : 0 .. Len(nodes)]
  /\ ret.status = "ok" => ret.state \in 1 .. Len(nodes) /\ ret.state <= Len(center)
  /\ Answered

CapOK ==
  /\ (pc = "begin" /\ mt > 0) \/ pc = "prefix" => StatesLen <= cap
  /\ pc \in {"install", "dead", "seek"} \/ (pc = "fill" /\ ~InCall) => StatesLen <= cap + 1
  /\ pc = "ready" \/ (pc = "fill" /\ InCall) => StatesLen <= cap + 2

IInv == /\ Static /\ Numbering /\ CenterOK /\ SkipOK /\ BeginOK /\ Sized
        /\ CallOK /\ RetOK /\ CapOK

LEMMA Algebraic ==
  ASSUME Static
  PROVE  /\ re \in RegexType /\ cap \in Nat
         /\ re.initial \in Node /\ re.pruned \in Node
         /\ re.resume \in Node /\ re.seek \in Node
         /\ \A m \in Minterm : re.begin[m] \in Node
         /\ re.nulls \in [Node -> SUBSET Null]
         /\ \A n \in Node : re.prune[n] \in Node
         /\ \A n \in Node, m \in Minterm : re.der[n][m] \in Node
         /\ \A n \in Node, m \in Minterm : Target(n, m) \in Node
         /\ \A m \in Minterm : Target(Bot, m) = Bot
<1>1. re \in RegexType /\ cap \in Nat
  BY LdfaAssumption DEF Static
<1>2. /\ re.der \in [Node -> [Minterm -> Node]] /\ re.begin \in [Minterm -> Node]
      /\ re.prune \in [Node -> Node] /\ re.nulls \in [Node -> SUBSET Null]
      /\ re.initial \in Node /\ re.pruned \in Node
      /\ re.resume \in Node /\ re.seek \in Node
  BY <1>1 DEF RegexType
<1>3. \A n \in Node, m \in Minterm : re.der[n][m] \in Node
  BY <1>2
<1>4. \A m \in Minterm : re.der[Bot][m] = Bot
  BY LdfaAssumption DEF Static
<1>5. re.prune[Bot] = Bot
  BY LdfaAssumption DEF Static
<1> QED
  BY <1>1, <1>2, <1>3, <1>4, <1>5, LdfaAssumption DEF Target

-----------------------------------------------------------------------------
(* What registering a node does: nothing, or one state more at the end.    *)
Extended ==
  /\ Len(nodes') \in {Len(nodes), Len(nodes) + 1}
  /\ \A s \in 1 .. Len(nodes) : nodes'[s] = nodes[s]

LEMMA RegisterCorrect ==
  ASSUME Static, Numbering, re' = re, NEW n \in Node, RegisterState(n)
  PROVE  /\ Numbering' /\ Extended
         /\ StateOf(n) \in 1 .. Len(nodes') /\ nodes'[StateOf(n)] = n
         /\ index'[n] = StateOf(n)
         /\ \A k \in Node : index[k] # 0 => index'[k] # 0
<1> USE DEF MISSING, DEAD, StatesLen
<1>0. /\ nodes \in Seq(Node) /\ Len(nodes) \in Nat /\ Len(nodes) >= 2
      /\ index[n] \in 0 .. Len(nodes)
  BY DEF Numbering
<1>1. CASE index[n] # 0
  <2>1. nodes' = nodes /\ index' = index /\ effects' = effects
    BY <1>1 DEF RegisterState
  <2>2. Numbering'
    BY <2>1 DEF Numbering, OneStatePerNode
  <2>3. StateOf(n) = index[n] /\ nodes[index[n]] = n
    BY <1>1 DEF StateOf, Numbering, OneStatePerNode
  <2> QED
    BY <1>0, <1>1, <2>1, <2>2, <2>3 DEF Extended
<1>2. CASE index[n] = 0
  <2>1. /\ nodes' = Append(nodes, n)
        /\ index' = [index EXCEPT ![n] = Len(nodes) + 1]
        /\ effects' = Append(effects, re.nulls[n])
    BY <1>2 DEF RegisterState
  <2>2. /\ nodes' \in Seq(Node) /\ Len(nodes') = Len(nodes) + 1
        /\ \A s \in 1 .. Len(nodes) : nodes'[s] = nodes[s]
        /\ nodes'[Len(nodes) + 1] = n
    BY <1>0, <2>1
  <2>3. StateOf(n) = Len(nodes) + 1
    BY <1>2 DEF StateOf
  <2>4. re.nulls[n] \in SUBSET Null
    BY Algebraic
  <2>5. /\ effects' \in Seq(SUBSET Null) /\ Len(effects') = Len(nodes')
        /\ \A s \in 1 .. Len(nodes) : effects'[s] = effects[s]
        /\ effects'[Len(nodes) + 1] = re.nulls[n]
    BY <1>0, <2>1, <2>2, <2>4 DEF Numbering
  <2>6. /\ index' \in [Node -> 0 .. Len(nodes')]
        /\ index'[n] = Len(nodes) + 1
        /\ \A k \in Node : k # n => index'[k] = index[k]
    BY <1>0, <2>1, <2>2 DEF Numbering
  <2>7. \A s \in 1 .. Len(nodes) : nodes[s] # n
    BY <1>0, <1>2 DEF Numbering, OneStatePerNode
  <2>8. n # Bot
    BY <1>0, <2>7 DEF Numbering
  <2>9. OneStatePerNode'
    <3>1. \A k \in Node : index'[k] # 0 =>
            index'[k] <= Len(nodes') /\ nodes'[index'[k]] = k
      <4> TAKE k \in Node
      <4>1. CASE k = n
        BY <4>1, <2>2, <2>6
      <4>2. CASE k # n
        <5>1. index'[k] = index[k] /\ index[k] \in 0 .. Len(nodes)
          BY <4>2, <2>6 DEF Numbering
        <5>2. index[k] # 0 => nodes[index[k]] = k
          BY DEF Numbering, OneStatePerNode
        <5> QED
          BY <1>0, <5>1, <5>2, <2>2
      <4> QED
        BY <4>1, <4>2
    <3>2. \A s \in 1 .. Len(nodes') :
            index'[nodes'[s]] = IF nodes'[s] = Bot THEN 1 ELSE s
      <4> TAKE s \in 1 .. Len(nodes')
      <4>1. CASE s = Len(nodes) + 1
        BY <4>1, <2>2, <2>6, <2>8
      <4>2. CASE s \in 1 .. Len(nodes)
        <5>1. nodes'[s] = nodes[s] /\ nodes[s] # n /\ nodes[s] \in Node
          BY <4>2, <1>0, <2>2, <2>7
        <5>2. index[nodes[s]] = IF nodes[s] = Bot THEN 1 ELSE s
          BY <4>2 DEF Numbering, OneStatePerNode
        <5> QED
          BY <5>1, <5>2, <2>6
      <4> QED
        BY <1>0, <2>2, <4>1, <4>2
    <3> QED
      BY <3>1, <3>2 DEF OneStatePerNode
  <2>10. \A s \in 1 .. Len(nodes') : s # 1 => effects'[s] = re.nulls[nodes'[s]]
    <3> TAKE s \in 1 .. Len(nodes')
    <3>1. CASE s = Len(nodes) + 1
      BY <3>1, <2>2, <2>5
    <3>2. CASE s \in 1 .. Len(nodes)
      <4>1. s # 1 => effects[s] = re.nulls[nodes[s]]
        BY <3>2 DEF Numbering
      <4> QED
        BY <3>2, <4>1, <2>2, <2>5
    <3> QED
      BY <1>0, <2>2, <3>1, <3>2
  <2>11. Numbering'
    BY <1>0, <2>2, <2>5, <2>6, <2>9, <2>10 DEF Numbering
  <2> QED
    BY <1>0, <2>2, <2>3, <2>6, <2>11 DEF Extended
<1> QED
  BY <1>0, <1>1, <1>2

-----------------------------------------------------------------------------
(* The tables when a node has been registered: what they say stays true.   *)

(* A row of center whose entries were right before a node was registered   *)
(* is right after it.                                                      *)
LEMMA RowKept ==
  ASSUME Static, Numbering, Extended, re' = re,
         NEW row \in [Minterm -> 0 .. Len(nodes)], NEW s \in 1 .. Len(nodes),
         \A m \in Minterm : row[m] # 0 => nodes[row[m]] = Target(nodes[s], m)
  PROVE  /\ row \in [Minterm -> 0 .. Len(nodes')]
         /\ \A m \in Minterm : row[m] # 0 => nodes'[row[m]] = Target(nodes'[s], m)
<1>1. Len(nodes) \in Nat /\ Len(nodes') \in {Len(nodes), Len(nodes) + 1}
      /\ \A i \in 1 .. Len(nodes) : nodes'[i] = nodes[i]
  BY DEF Numbering, Extended
<1>2. row \in [Minterm -> 0 .. Len(nodes')]
  BY <1>1
<1>3. ASSUME NEW m \in Minterm, row[m] # 0
      PROVE  nodes'[row[m]] = Target(nodes'[s], m)
  <2>1. row[m] \in 1 .. Len(nodes)
    BY <1>1, <1>3
  <2>2. nodes'[row[m]] = nodes[row[m]] /\ nodes'[s] = nodes[s]
    BY <2>1, <1>1
  <2>3. Target(nodes'[s], m) = Target(nodes[s], m)
    BY <2>2
  <2> QED
    BY <2>2, <2>3, <1>3
<1> QED
  BY <1>2, <1>3

(* Growing center and skip_ids for a state, without writing to them.       *)
Rows(s) == Resized(center, Grown(Len(center), s), NoRow)
Ids(s)  == Resized(skipIds, Grown(Len(skipIds), s), 0)

LEMMA CenterGrown ==
  ASSUME Static, Numbering, CenterOK, Extended, re' = re, NEW s \in 1 .. Len(nodes')
  PROVE  /\ Rows(s) \in Seq([Minterm -> 0 .. Len(nodes')])
         /\ Len(center) <= Len(Rows(s)) /\ s <= Len(Rows(s))
         /\ \A i \in 1 .. Len(center) : Rows(s)[i] = center[i]
         /\ \A i \in 1 .. Len(Rows(s)), m \in Minterm :
              Rows(s)[i][m] # 0 => /\ i <= Len(center) /\ i <= Len(nodes)
                                   /\ nodes'[Rows(s)[i][m]] = Target(nodes'[i], m)
<1> DEFINE Row1 == [Minterm -> 0 .. Len(nodes')]
<1>1. /\ Len(nodes) \in Nat /\ Len(nodes') \in {Len(nodes), Len(nodes) + 1}
      /\ center \in Seq([Minterm -> 0 .. Len(nodes)]) /\ Len(center) \in Nat
  BY DEF Numbering, CenterOK, Extended
<1>2. [Minterm -> 0 .. Len(nodes)] \subseteq Row1
  BY <1>1
<1>3. center \in Seq(Row1) /\ NoRow \in Row1
  BY <1>1, <1>2 DEF NoRow, MISSING
<1>4. Grown(Len(center), s) \in Nat /\ Len(center) <= Grown(Len(center), s)
      /\ s <= Grown(Len(center), s)
  BY <1>1, GrownProperties
<1> HIDE DEF Row1
<1>5. /\ Rows(s) \in Seq(Row1) /\ Len(Rows(s)) = Grown(Len(center), s)
      /\ \A i \in 1 .. Len(Rows(s)) :
           Rows(s)[i] = IF i <= Len(center) THEN center[i] ELSE NoRow
  <2>1. \A new \in Nat :
          /\ Resized(center, new, NoRow) \in Seq(Row1)
          /\ Len(Resized(center, new, NoRow)) = new
          /\ \A i \in 1 .. new :
               Resized(center, new, NoRow)[i] = IF i <= Len(center) THEN center[i] ELSE NoRow
    BY <1>3 DEF Resized
  <2> QED
    BY <1>4, <2>1 DEF Rows
<1>6. ASSUME NEW i \in 1 .. Len(Rows(s)), NEW m \in Minterm, Rows(s)[i][m] # 0
      PROVE  /\ i <= Len(center) /\ i <= Len(nodes)
             /\ nodes'[Rows(s)[i][m]] = Target(nodes'[i], m)
  <2>1. i \in 1 .. Len(center) /\ Rows(s)[i] = center[i]
    BY <1>1, <1>4, <1>5, <1>6 DEF NoRow, MISSING
  <2>2. center[i] \in [Minterm -> 0 .. Len(nodes)]
    BY <1>1, <2>1
  <2>3. i \in 1 .. Len(nodes)
    BY <1>1, <1>6, <2>1 DEF CenterOK
  <2>4. \A k \in Minterm : center[i][k] # 0 => nodes[center[i][k]] = Target(nodes[i], k)
    BY <2>1 DEF CenterOK
  <2>5. \A k \in Minterm : center[i][k] # 0 => nodes'[center[i][k]] = Target(nodes'[i], k)
    BY <2>2, <2>3, <2>4, RowKept
  <2> QED
    BY <1>6, <2>1, <2>3, <2>5
<1> QED
  BY <1>1, <1>4, <1>5, <1>6 DEF Row1

LEMMA SkipGrown ==
  ASSUME Static, Numbering, SkipOK, Extended, re' = re, pruned' = pruned,
         searchers' = searchers,
         NEW s \in 1 .. Len(nodes'), skipIds' = Ids(s)
  PROVE  SkipOK' /\ Len(skipIds) <= Len(skipIds') /\ s <= Len(skipIds')
<1>1. /\ Len(nodes) \in Nat /\ Len(nodes') \in {Len(nodes), Len(nodes) + 1}
      /\ \A i \in 1 .. Len(nodes) : nodes'[i] = nodes[i]
      /\ skipIds \in Seq(0 .. SkipMod - 1) /\ Len(skipIds) \in Nat
      /\ searchers \in Seq(SkipperType) /\ Len(searchers) \in Nat
  BY DEF Numbering, SkipOK, Extended
<1>2. Grown(Len(skipIds), s) \in Nat /\ Len(skipIds) <= Grown(Len(skipIds), s)
      /\ s <= Grown(Len(skipIds), s)
  BY <1>1, GrownProperties
<1> DEFINE Id == 0 .. SkipMod - 1
<1>3. 0 \in Id /\ skipIds \in Seq(Id)
  BY <1>1, LdfaAssumption
<1> HIDE DEF Id
<1>4. /\ skipIds' \in Seq(0 .. SkipMod - 1) /\ Len(skipIds') = Grown(Len(skipIds), s)
      /\ \A i \in 1 .. Len(skipIds') :
           skipIds'[i] = IF i <= Len(skipIds) THEN skipIds[i] ELSE 0
  <2>1. \A new \in Nat :
          /\ Resized(skipIds, new, 0) \in Seq(Id)
          /\ Len(Resized(skipIds, new, 0)) = new
          /\ \A i \in 1 .. new :
               Resized(skipIds, new, 0)[i] = IF i <= Len(skipIds) THEN skipIds[i] ELSE 0
    BY <1>3 DEF Resized
  <2> QED
    BY <1>2, <2>1 DEF Ids, Id
<1>5. \A i \in 1 .. Len(skipIds') : skipIds'[i] # 0 =>
        i \in 1 .. Len(skipIds) /\ i \in 1 .. Len(nodes) /\ skipIds'[i] = skipIds[i]
  BY <1>1, <1>2, <1>4 DEF SkipOK
<1>6. \A i \in 1 .. Len(skipIds') : skipIds'[i] <= Len(searchers')
  BY <1>1, <1>2, <1>4 DEF SkipOK
<1>7. \A i \in 1 .. Len(skipIds') : i > Len(nodes') => skipIds'[i] = 0
  BY <1>1, <1>5
<1>8. ASSUME Len(searchers) < SkipMod
      PROVE  SkipSound'
  <2>1. SkipSound
    BY <1>8 DEF SkipOK, SkipSoundBelowLimit
  <2> SUFFICES ASSUME NEW i \in 1 .. Len(skipIds'), skipIds'[i] # 0
               PROVE  Fits(searchers[skipIds[i]], i)'
    BY <1>5 DEF SkipSound
  <2>2. i \in 1 .. Len(skipIds) /\ skipIds'[i] = skipIds[i] /\ nodes'[i] = nodes[i]
    BY <1>1, <1>5
  <2>3. Fits(searchers[skipIds[i]], i)
    BY <2>1, <2>2 DEF SkipSound
  <2> QED
    BY <2>2, <2>3 DEF Fits, Target
<1> QED
  BY <1>1, <1>2, <1>4, <1>6, <1>7, <1>8 DEF SkipOK, SkipSoundBelowLimit

LEMMA BeginKept ==
  ASSUME Numbering, BeginOK, Extended, re' = re, begin' = begin, pruned' = pruned,
         Built' => Built,
         pc' = "begin" => mt' = 0 \/ (pc = "begin" /\ mt' = mt)
  PROVE  BeginOK'
<1>1. /\ Len(nodes) \in Nat /\ Len(nodes') \in {Len(nodes), Len(nodes) + 1}
      /\ \A i \in 1 .. Len(nodes) : nodes'[i] = nodes[i]
  BY DEF Numbering, Extended
<1>2. /\ begin \in [Minterm -> 1 .. Len(nodes)] /\ begin' = begin
      /\ pruned \in 1 .. Len(nodes) /\ nodes[pruned] = re.pruned /\ pruned' = pruned
  BY DEF BeginOK
<1>3. begin' \in [Minterm -> 1 .. Len(nodes')]
  BY <1>1, <1>2
<1>4. pruned' \in 1 .. Len(nodes') /\ nodes'[pruned'] = re.pruned
  BY <1>1, <1>2
<1>5. ASSUME NEW m \in Minterm, Built' \/ (pc' = "begin" /\ m < mt')
      PROVE  nodes'[begin'[m]] = re.begin[m]
  <2>1. Built \/ (pc = "begin" /\ m < mt)
    BY <1>5 DEF Minterm
  <2>2. nodes[begin[m]] = re.begin[m]
    BY <2>1 DEF BeginOK
  <2>3. begin[m] \in 1 .. Len(nodes)
    BY <1>2
  <2> QED
    BY <1>1, <1>2, <2>2, <2>3
<1> QED
  BY <1>3, <1>4, <1>5 DEF BeginOK

(* No entry of center that was there changes.                              *)
CenterKept ==
  /\ Len(center) <= Len(center')
  /\ \A s \in 1 .. Len(center), m \in Minterm :
       center[s][m] # 0 => center'[s][m] = center[s][m]

LEMMA RetKept ==
  ASSUME Numbering, CenterOK, RetOK, Extended, CenterKept, re' = re, ret' = ret,
         Len(center') \in Nat
  PROVE  RetOK'
<1>1. /\ Len(nodes) \in Nat /\ Len(nodes') \in {Len(nodes), Len(nodes) + 1}
      /\ \A i \in 1 .. Len(nodes) : nodes'[i] = nodes[i]
      /\ Len(center) \in Nat /\ Len(center) <= Len(center')
  BY DEF Numbering, CenterOK, Extended, CenterKept
<1>2. ret \in [status : {"none", "ok", "err"}, call : {"none", "lazy", "create"},
               state : 0 .. Len(nodes), minterm : Minterm, next : 0 .. Len(nodes)]
  BY DEF RetOK
<1>3. ret' \in [status : {"none", "ok", "err"}, call : {"none", "lazy", "create"},
                state : 0 .. Len(nodes'), minterm : Minterm, next : 0 .. Len(nodes')]
  BY <1>1, <1>2
<1>4. ret.status = "ok" => /\ ret.state \in 1 .. Len(nodes) /\ ret.state \in 1 .. Len(center)
                           /\ ret.state \in 1 .. Len(nodes') /\ ret.state <= Len(center')
  BY <1>1 DEF RetOK
<1>5. ASSUME ret.status = "ok", ret.call = "lazy"
      PROVE  ret.next # 0 /\ nodes'[ret.next] = Target(nodes'[ret.state], ret.minterm)
  <2>1. ret.next # 0 /\ nodes[ret.next] = Target(nodes[ret.state], ret.minterm)
    BY <1>5 DEF RetOK, Answered, MISSING
  <2>2. ret.next \in 1 .. Len(nodes)
    BY <1>1, <1>2, <2>1
  <2>3. nodes'[ret.next] = nodes[ret.next] /\ nodes'[ret.state] = nodes[ret.state]
    BY <1>1, <1>4, <1>5, <2>2
  <2> QED
    BY <2>1, <2>3
<1>6. ASSUME ret.status = "ok", ret.call = "create", NEW m \in Minterm
      PROVE  center'[ret.state][m] # 0
  <2>1. center[ret.state][m] # 0
    BY <1>6 DEF RetOK, Answered, MISSING
  <2> QED
    BY <1>4, <1>6, <2>1 DEF CenterKept
<1>7. Answered'
  BY <1>5, <1>6 DEF Answered, MISSING, Target
<1> QED
  BY <1>3, <1>4, <1>7 DEF RetOK

-----------------------------------------------------------------------------
(* The three ways the tables change.                                       *)
LEMMA GetOrRegisterCorrect ==
  ASSUME Static, Numbering, CenterOK, SkipOK, re' = re, pruned' = pruned,
         searchers' = searchers, NEW n \in Node, GetOrRegister(n)
  PROVE  /\ Numbering' /\ CenterOK' /\ SkipOK' /\ Extended /\ CenterKept
         /\ Len(center') \in Nat
         /\ index'[n] # 0
         /\ Len(nodes) <= Len(center) /\ Len(nodes) <= Len(skipIds) =>
              Len(nodes') <= Len(center') /\ Len(nodes') <= Len(skipIds')
<1>1. /\ Numbering' /\ Extended /\ StateOf(n) \in 1 .. Len(nodes')
      /\ index'[n] = StateOf(n)
  BY RegisterCorrect DEF GetOrRegister
<1>2. center' = Rows(StateOf(n)) /\ skipIds' = Ids(StateOf(n))
  BY DEF GetOrRegister, EnsureCapacity, Rows, Ids
<1>3. /\ center' \in Seq([Minterm -> 0 .. Len(nodes')])
      /\ Len(center) <= Len(center') /\ StateOf(n) <= Len(center')
      /\ \A i \in 1 .. Len(center) : center'[i] = center[i]
      /\ \A i \in 1 .. Len(center'), m \in Minterm :
           center'[i][m] # 0 => /\ i <= Len(center) /\ i <= Len(nodes)
                               /\ nodes'[center'[i][m]] = Target(nodes'[i], m)
  <2> DEFINE s == StateOf(n)
  <2>1. s \in 1 .. Len(nodes')
    BY <1>1
  <2> HIDE DEF s
  <2>2. /\ Rows(s) \in Seq([Minterm -> 0 .. Len(nodes')])
        /\ Len(center) <= Len(Rows(s)) /\ s <= Len(Rows(s))
        /\ \A i \in 1 .. Len(center) : Rows(s)[i] = center[i]
        /\ \A i \in 1 .. Len(Rows(s)), m \in Minterm :
             Rows(s)[i][m] # 0 => /\ i <= Len(center) /\ i <= Len(nodes)
                                  /\ nodes'[Rows(s)[i][m]] = Target(nodes'[i], m)
    BY <1>1, <2>1, CenterGrown
  <2> QED
    BY <1>2, <2>2 DEF s
<1>4. SkipOK' /\ Len(skipIds) <= Len(skipIds') /\ StateOf(n) <= Len(skipIds')
  BY <1>1, <1>2, SkipGrown
<1>5. Len(nodes) \in Nat /\ Len(nodes') \in {Len(nodes), Len(nodes) + 1}
      /\ Len(center) \in Nat /\ Len(center') \in Nat /\ Len(skipIds) \in Nat
      /\ Len(skipIds') \in Nat
  <2>1. Len(nodes) \in Nat /\ Len(nodes') \in {Len(nodes), Len(nodes) + 1}
    BY <1>1 DEF Numbering, Extended
  <2>2. Len(center) \in Nat /\ Len(center') \in Nat
    BY <1>3 DEF CenterOK
  <2>3. Len(skipIds) \in Nat
    BY DEF SkipOK
  <2>4. Len(skipIds') \in Nat
    BY <1>4 DEF SkipOK
  <2> QED
    BY <2>1, <2>2, <2>3, <2>4
<1>6. CenterOK'
  BY <1>3, <1>5, <1>1 DEF CenterOK, Target, Extended
<1>7. CenterKept
  BY <1>3 DEF CenterKept
<1>8. Len(nodes') = Len(nodes) \/ StateOf(n) = Len(nodes')
  BY <1>1, <1>5 DEF GetOrRegister, RegisterState, StateOf, MISSING, StatesLen, Numbering
<1> QED
  BY <1>1, <1>3, <1>4, <1>5, <1>6, <1>7, <1>8

(* An entry of a row of a registered state, where there was none.          *)
LEMMA FillCorrect ==
  ASSUME Static, Numbering, CenterOK, SkipOK, re' = re, pruned' = pruned,
         searchers' = searchers, NEW s \in 1 .. Len(nodes), s <= Len(center),
         NEW m \in Minterm, center[s][m] = 0,
         RegisterState(Target(nodes[s], m)),
         center' = [Rows(StateOf(Target(nodes[s], m)))
                      EXCEPT ![s][m] = StateOf(Target(nodes[s], m))],
         skipIds' = Ids(StateOf(Target(nodes[s], m)))
  PROVE  /\ Numbering' /\ CenterOK' /\ SkipOK' /\ Extended /\ CenterKept
         /\ Len(center') \in Nat
         /\ center'[s][m] # 0
         /\ \A k \in Node : index[k] # 0 => index'[k] # 0
         /\ Len(nodes) <= Len(center) /\ Len(nodes) <= Len(skipIds) =>
              Len(nodes') <= Len(center') /\ Len(nodes') <= Len(skipIds')
<1> DEFINE n == Target(nodes[s], m)
           t == StateOf(n)
           R == Rows(t)
<1>0. /\ nodes \in Seq(Node) /\ Len(nodes) \in Nat /\ nodes[s] \in Node
      /\ Len(center) \in Nat /\ s \in 1 .. Len(center)
      /\ center \in Seq([Minterm -> 0 .. Len(nodes)])
      /\ Len(skipIds) \in Nat
  BY DEF Numbering, CenterOK, SkipOK
<1>1. n \in Node
  BY <1>0, Algebraic
<1>2. RegisterState(n) /\ center' = [R EXCEPT ![s][m] = t] /\ skipIds' = Ids(t)
  OBVIOUS
<1> HIDE DEF n
<1>3. /\ Numbering' /\ Extended /\ t \in 1 .. Len(nodes') /\ nodes'[t] = n
      /\ \A k \in Node : index[k] # 0 => index'[k] # 0
  BY <1>1, <1>2, RegisterCorrect
<1>4. Len(nodes') = Len(nodes) \/ t = Len(nodes')
  BY <1>0, <1>2, <1>3 DEF RegisterState, StateOf, MISSING, StatesLen
<1> HIDE DEF t
<1>5. /\ Len(nodes') \in {Len(nodes), Len(nodes) + 1}
      /\ \A i \in 1 .. Len(nodes) : nodes'[i] = nodes[i]
  BY <1>3 DEF Extended
<1>6. /\ R \in Seq([Minterm -> 0 .. Len(nodes')])
      /\ Len(center) <= Len(R) /\ t <= Len(R)
      /\ \A i \in 1 .. Len(center) : R[i] = center[i]
      /\ \A i \in 1 .. Len(R), k \in Minterm :
           R[i][k] # 0 => /\ i <= Len(center) /\ i <= Len(nodes)
                          /\ nodes'[R[i][k]] = Target(nodes'[i], k)
  BY <1>3, CenterGrown
<1> HIDE DEF R
<1> DEFINE Row1 == [Minterm -> 0 .. Len(nodes')]
<1>11. R \in Seq(Row1)
  BY <1>6
<1> HIDE DEF Row1
<1>7. Len(R) \in Nat /\ s \in 1 .. Len(R) /\ R[s] \in Row1 /\ R[s] = center[s]
  <2>1. Len(R) \in Nat /\ s \in 1 .. Len(R)
    BY <1>0, <1>6, <1>11
  <2> QED
    BY <1>0, <1>6, <1>11, <2>1
<1>8. t \in 0 .. Len(nodes')
  BY <1>0, <1>3, <1>5
<1> DEFINE row == [R[s] EXCEPT ![m] = t]
<1>9. /\ row \in Row1 /\ row[m] = t
      /\ \A k \in Minterm : k # m => row[k] = R[s][k]
  BY <1>7, <1>8 DEF Row1
<1>10. center' = [R EXCEPT ![s] = row]
  BY <1>2
<1> HIDE DEF row
<1>12. /\ center' \in Seq(Row1) /\ Len(center') = Len(R)
       /\ center'[s] = row
       /\ \A i \in 1 .. Len(R) : i # s => center'[i] = R[i]
  <2>1. row \in Row1
    BY <1>9
  <2>2. DOMAIN R = 1 .. Len(R)
    BY <1>11
  <2>3. /\ [R EXCEPT ![s] = row] \in Seq(Row1)
        /\ Len([R EXCEPT ![s] = row]) = Len(R)
    BY <2>1, <1>7, <1>11
  <2>4. /\ [R EXCEPT ![s] = row][s] = row
        /\ \A i \in 1 .. Len(R) : i # s => [R EXCEPT ![s] = row][i] = R[i]
    BY <2>2, <1>7
  <2> QED
    BY <2>3, <2>4, <1>10
<1>13. ASSUME NEW i \in 1 .. Len(center'), NEW k \in Minterm, center'[i][k] # 0
       PROVE  i <= Len(nodes') /\ nodes'[center'[i][k]] = Target(nodes'[i], k)
  <2>1. CASE i = s /\ k = m
    <3>1. center'[i][k] = t /\ nodes'[i] = nodes[s]
      BY <2>1, <1>0, <1>5, <1>9, <1>12
    <3>2. i <= Len(nodes')
      BY <2>1, <1>0, <1>5
    <3> QED
      BY <2>1, <3>1, <3>2, <1>3 DEF n
  <2>2. CASE i # s \/ k # m
    <3>1. center'[i][k] = R[i][k]
      BY <2>2, <1>9, <1>12, <1>13
    <3>2. i \in 1 .. Len(R) /\ R[i][k] # 0
      BY <3>1, <1>12, <1>13
    <3>3. i <= Len(nodes) /\ nodes'[R[i][k]] = Target(nodes'[i], k)
      BY <3>2, <1>6
    <3>4. i <= Len(nodes')
      BY <3>2, <3>3, <1>0, <1>5, <1>7
    <3> QED
      BY <3>1, <3>3, <3>4
  <2> QED
    BY <2>1, <2>2
<1>14. CenterOK'
  <2>1. center' \in Seq([Minterm -> 0 .. Len(nodes')])
    BY <1>12 DEF Row1
  <2>2. \A i \in 1 .. Len(center'), k \in Minterm : center'[i][k] # 0 =>
          i <= Len(nodes') /\ nodes'[center'[i][k]] = re'.prune[re'.der[nodes'[i]][k]]
    <3> TAKE i \in 1 .. Len(center'), k \in Minterm
    <3> HAVE center'[i][k] # 0
    <3>1. i <= Len(nodes') /\ nodes'[center'[i][k]] = Target(nodes'[i], k)
      BY <1>13
    <3>2. Target(nodes'[i], k) = re'.prune[re'.der[nodes'[i]][k]]
      BY DEF Target
    <3> QED
      BY <3>1, <3>2
  <2> QED
    BY <2>1, <2>2 DEF CenterOK, Target
<1>15. ASSUME NEW i \in 1 .. Len(center), NEW k \in Minterm, center[i][k] # 0
       PROVE  center'[i][k] = center[i][k]
  <2>1. i \in 1 .. Len(R) /\ R[i] = center[i]
    BY <1>0, <1>6, <1>7
  <2>2. i # s \/ k # m
    BY <1>15
  <2> QED
    BY <2>1, <2>2, <1>9, <1>12
<1>16. CenterKept
  BY <1>6, <1>12, <1>15 DEF CenterKept
<1>17. SkipOK' /\ Len(skipIds) <= Len(skipIds') /\ t <= Len(skipIds')
  BY <1>2, <1>3, SkipGrown
<1>18. Len(skipIds') \in Nat
  BY <1>17 DEF SkipOK
<1>19. center'[s][m] # 0
  <2>1. center'[s][m] = t
    BY <1>9, <1>12
  <2> QED
    BY <2>1, <1>0, <1>3, <1>5
<1> QED
  BY <1>0, <1>3, <1>4, <1>5, <1>6, <1>7, <1>12, <1>14, <1>16, <1>17, <1>18, <1>19

LEMMA SkipKept ==
  ASSUME SkipOK, nodes' = nodes, re' = re, pruned' = pruned,
         searchers' = searchers, skipIds' = skipIds
  PROVE  SkipOK' /\ Len(skipIds') = Len(skipIds)
<1>1. ASSUME SkipSound PROVE SkipSound'
  <2> SUFFICES ASSUME NEW s \in 1 .. Len(skipIds), skipIds[s] # 0
               PROVE  Fits(searchers[skipIds[s]], s)'
    BY DEF SkipSound
  <2>1. Fits(searchers[skipIds[s]], s)
    BY <1>1 DEF SkipSound
  <2> QED
    BY <2>1 DEF Fits, Target
<1> QED
  BY <1>1 DEF SkipOK, SkipSoundBelowLimit

(* A state is given the id of a skipper that fits it.                      *)
LEMMA IdCorrect ==
  ASSUME Static, Numbering, SkipOK, nodes' = nodes, re' = re, pruned' = pruned,
         searchers' \in Seq(SkipperType), Len(searchers) <= Len(searchers'),
         \A i \in 1 .. Len(searchers) : searchers'[i] = searchers[i],
         NEW s \in 1 .. Len(nodes), s <= Len(skipIds),
         NEW x \in 1 .. Len(searchers'), Fits(searchers'[x], s),
         skipIds' = [skipIds EXCEPT ![s] = x % SkipMod]
  PROVE  SkipOK' /\ Len(skipIds') = Len(skipIds)
<1> DEFINE Id == 0 .. SkipMod - 1
           id == x % SkipMod
<1>1. /\ skipIds \in Seq(Id) /\ Len(skipIds) \in Nat
      /\ searchers \in Seq(SkipperType) /\ Len(searchers) \in Nat
      /\ Len(nodes) \in Nat /\ s \in 1 .. Len(skipIds)
  BY DEF SkipOK, Numbering
<1>2. skipIds' = [skipIds EXCEPT ![s] = id]
  OBVIOUS
<1>3. /\ Len(searchers') \in Nat /\ x \in Nat /\ x <= Len(searchers')
      /\ Len(searchers) <= Len(searchers')
      /\ \A i \in 1 .. Len(searchers) : searchers'[i] = searchers[i]
  OBVIOUS
<1>5. id \in Id /\ id <= x /\ (x < SkipMod => id = x)
  BY <1>3, ModBelow, LdfaAssumption
<1> HIDE DEF id, Id
<1>6. /\ skipIds' \in Seq(Id) /\ Len(skipIds') = Len(skipIds)
      /\ skipIds'[s] = id
      /\ \A i \in 1 .. Len(skipIds) : i # s => skipIds'[i] = skipIds[i]
  BY <1>1, <1>2, <1>5
<1>7. \A i \in 1 .. Len(skipIds') : skipIds'[i] <= Len(searchers')
  <2> TAKE i \in 1 .. Len(skipIds')
  <2>1. CASE i = s
    <3>1. id \in Int
      BY <1>5, LdfaAssumption DEF Id
    <3> QED
      BY <2>1, <3>1, <1>3, <1>5, <1>6
  <2>2. CASE i # s
    <3>1. i \in 1 .. Len(skipIds) /\ skipIds'[i] = skipIds[i]
      BY <2>2, <1>6
    <3>2. skipIds[i] <= Len(searchers)
      BY <3>1 DEF SkipOK
    <3>3. skipIds[i] \in Id
      BY <3>1, <1>1
    <3>4. skipIds[i] \in Int
      BY <3>3, LdfaAssumption DEF Id
    <3> QED
      BY <3>1, <3>2, <3>4, <1>1, <1>3
  <2> QED
    BY <2>1, <2>2
<1>8. \A i \in 1 .. Len(skipIds') : i > Len(nodes') => skipIds'[i] = 0
  BY <1>1, <1>6 DEF SkipOK
<1>9. ASSUME Len(searchers') < SkipMod
      PROVE  SkipSound'
  <2>1. SkipSound
    BY <1>1, <1>3, <1>9, LdfaAssumption DEF SkipOK, SkipSoundBelowLimit
  <2> SUFFICES ASSUME NEW i \in 1 .. Len(skipIds'), skipIds'[i] # 0
               PROVE  Fits(searchers[skipIds[i]], i)'
    BY DEF SkipSound
  <2>2. CASE i = s
    <3>1. skipIds'[i] = x
      BY <2>2, <1>3, <1>5, <1>6, <1>9, LdfaAssumption
    <3>2. Fits(searchers'[skipIds'[i]], i)
      BY <2>2, <3>1
    <3> QED
      BY <3>2 DEF Fits, Target
  <2>3. CASE i # s
    <3>1. i \in 1 .. Len(skipIds) /\ skipIds'[i] = skipIds[i]
      BY <2>3, <1>6
    <3>2. Fits(searchers[skipIds[i]], i)
      BY <2>1, <3>1 DEF SkipSound
    <3>3. skipIds[i] \in Id
      BY <3>1, <1>1
    <3>6. skipIds[i] <= Len(searchers)
      BY <3>1 DEF SkipOK
    <3>7. skipIds[i] \in Nat /\ skipIds[i] # 0
      BY <3>1, <3>3, LdfaAssumption DEF Id
    <3>4. skipIds[i] \in 1 .. Len(searchers)
      BY <3>6, <3>7, <1>1
    <3>5. searchers'[skipIds'[i]] = searchers[skipIds[i]]
      BY <3>1, <3>4, <1>3
    <3> QED
      BY <3>2, <3>5 DEF Fits, Target
  <2> QED
    BY <2>2, <2>3
<1> QED
  BY <1>3, <1>6, <1>7, <1>8, <1>9 DEF SkipOK, SkipSoundBelowLimit, Id

LEMMA PushCorrect ==
  ASSUME Static, Numbering, SkipOK, nodes' = nodes, re' = re, pruned' = pruned,
         NEW k \in SkipperType, NEW s \in 1 .. Len(nodes), s <= Len(skipIds),
         Fits(k, s), Push(k, s)
  PROVE  SkipOK' /\ Len(skipIds') = Len(skipIds)
<1>1. searchers \in Seq(SkipperType) /\ Len(searchers) \in Nat
  BY DEF SkipOK
<1>2. searchers' = Append(searchers, k)
      /\ skipIds' = [skipIds EXCEPT ![s] = (Len(searchers) + 1) % SkipMod]
  BY DEF Push
<1>3. /\ searchers' \in Seq(SkipperType) /\ Len(searchers') = Len(searchers) + 1
      /\ \A i \in 1 .. Len(searchers) : searchers'[i] = searchers[i]
      /\ searchers'[Len(searchers) + 1] = k
  BY <1>1, <1>2
<1> DEFINE x == Len(searchers) + 1
<1>4. x \in 1 .. Len(searchers') /\ Fits(searchers'[x], s)
      /\ skipIds' = [skipIds EXCEPT ![s] = x % SkipMod]
  BY <1>1, <1>2, <1>3
<1>5. Len(searchers) <= Len(searchers')
  BY <1>1, <1>3
<1> HIDE DEF x
<1> QED
  BY <1>3, <1>4, <1>5, IdCorrect

LEMMA CreateSkipCorrect ==
  ASSUME Static, Numbering, SkipOK, nodes' = nodes, re' = re, pruned' = pruned,
         NEW exits \in SUBSET Minterm, NEW s \in 1 .. Len(nodes), s <= Len(skipIds),
         \A m \in Minterm \ exits : Target(nodes[s], m) = re.prune[nodes[s]],
         GetOrCreateSkip(exits, s)
  PROVE  SkipOK' /\ Len(skipIds') = Len(skipIds)
<1> DEFINE k == StateSkipper(exits)
<1>1. k \in SkipperType /\ Fits(k, s)
  BY LdfaAssumption DEF StateSkipper, Skipper, SkipperType, Fits
<1>2. searchers \in Seq(SkipperType)
  BY DEF SkipOK
<1> HIDE DEF k
<1>3. CASE Push(k, s)
  BY <1>1, <1>3, PushCorrect
<1>4. ASSUME NEW i \in 1 .. Len(searchers), searchers[i] = k,
             skipIds' = [skipIds EXCEPT ![s] = i % SkipMod], searchers' = searchers
      PROVE  SkipOK' /\ Len(skipIds') = Len(skipIds)
  <2>1. /\ searchers' \in Seq(SkipperType) /\ Len(searchers) <= Len(searchers')
        /\ \A j \in 1 .. Len(searchers) : searchers'[j] = searchers[j]
        /\ i \in 1 .. Len(searchers') /\ Fits(searchers'[i], s)
    BY <1>1, <1>2, <1>4
  <2> QED
    BY <2>1, <1>4, IdCorrect
<1> QED
  BY <1>3, <1>4 DEF GetOrCreateSkip, k

LEMMA TryBuildSkipCorrect ==
  ASSUME Static, Numbering, SkipOK, nodes' = nodes, re' = re, pruned' = pruned,
         NEW s \in 1 .. Len(nodes), s <= Len(skipIds), TryBuildSkip(s)
  PROVE  SkipOK' /\ Len(skipIds') = Len(skipIds)
<1>1. nodes[s] \in Node
  BY DEF Numbering
<1>2. CASE GetOrCreateSkip(Exits(nodes[s]), s)
  <2>1. Exits(nodes[s]) \in SUBSET Minterm
    BY DEF Exits
  <2>2. \A m \in Minterm \ Exits(nodes[s]) : Target(nodes[s], m) = re.prune[nodes[s]]
    BY DEF Exits, Target
  <2> QED
    BY <1>2, <2>1, <2>2, CreateSkipCorrect
<1>3. CASE UNCHANGED <<searchers, skipIds>>
  <2>1. searchers' = searchers /\ skipIds' = skipIds
    BY <1>3
  <2> QED
    BY <2>1, SkipKept
<1> QED
  BY <1>2, <1>3 DEF TryBuildSkip

-----------------------------------------------------------------------------
(* The steps.  Kept is what an action leaves alone when it registers       *)
(* nothing and writes no entry of center.                                  *)
Kept ==
  /\ re' = re /\ simd' = simd /\ cap' = cap
  /\ nodes' = nodes /\ index' = index /\ effects' = effects
  /\ begin' = begin /\ center' = center /\ pruned' = pruned

LEMMA KeptCorrect ==
  ASSUME IInv, Kept, Built' => Built, Len(skipIds') = Len(skipIds),
         pc' = "begin" => mt' = 0 \/ (pc = "begin" /\ mt' = mt)
  PROVE  /\ Static' /\ Numbering' /\ CenterOK' /\ BeginOK' /\ Sized'
         /\ Extended /\ CenterKept
         /\ (ret' = ret => RetOK')
<1>1. Static'
  BY DEF IInv, Static, Kept
<1>2. Numbering'
  BY DEF IInv, Numbering, OneStatePerNode, Kept
<1>3. Extended /\ CenterKept
  BY DEF IInv, Numbering, CenterOK, Extended, CenterKept, Kept
<1>4. CenterOK'
  BY DEF IInv, CenterOK, Target, Kept
<1>5. BeginOK'
  BY <1>3, BeginKept DEF IInv, Kept
<1>6. Sized'
  BY DEF IInv, Sized, Kept
<1>7. Len(center') \in Nat
  BY <1>4 DEF CenterOK
<1>8. ret' = ret => RetOK'
  BY <1>3, <1>7, RetKept DEF IInv, Kept
<1> QED
  BY <1>1, <1>2, <1>3, <1>4, <1>5, <1>6, <1>8

LEMMA TablesKept ==
  ASSUME IInv, UNCHANGED <<re, simd, cap, tables>>, Built' => Built,
         pc' = "begin" => mt' = 0 \/ (pc = "begin" /\ mt' = mt)
  PROVE  /\ Static' /\ Numbering' /\ CenterOK' /\ SkipOK' /\ BeginOK' /\ Sized'
         /\ Kept
         /\ (ret' = ret => RetOK')
<1>1. Kept /\ searchers' = searchers /\ skipIds' = skipIds
  BY DEF Kept, tables
<1>2. SkipOK'
  BY <1>1, SkipKept DEF IInv, Kept
<1> QED
  BY <1>1, <1>2, KeptCorrect

LEMMA NewCorrect == ASSUME IInv, New PROVE IInv'
<1>1. pc = "new" /\ pc' \in {"begin", "failed"} /\ mt' = mt /\ job' = job /\ ret' = ret
      /\ mt = 0
  BY DEF New, IInv, CallOK
<1>2. /\ Static' /\ Numbering' /\ CenterOK' /\ SkipOK' /\ BeginOK' /\ Sized'
      /\ RetOK' /\ Kept
  BY <1>1, TablesKept DEF New, Built
<1>3. center' = center /\ skipIds' = skipIds
  BY DEF New, tables
<1>4. CallOK'
  BY <1>1, <1>2, <1>3 DEF IInv, CallOK, Kept
<1>5. CapOK'
  BY <1>1 DEF CapOK
<1> QED
  BY <1>2, <1>4, <1>5 DEF IInv

LEMMA FailCorrect == ASSUME IInv, pc = "fill", Fail PROVE IInv'
<1>1. /\ pc' = IF InCall THEN "ready" ELSE "failed"
      /\ job' = NoJob /\ mt' = mt
      /\ ret' = IF InCall
                THEN [status |-> "err", call |-> job.call, state |-> job.state,
                      minterm |-> job.minterm, next |-> 0]
                ELSE ret
  BY DEF Fail, MISSING
<1>2. /\ Static' /\ Numbering' /\ CenterOK' /\ SkipOK' /\ BeginOK' /\ Sized'
      /\ Kept /\ (ret' = ret => RetOK')
  BY <1>1, TablesKept DEF Fail, Built
<1>3. /\ Len(nodes) \in Nat
      /\ job \in [state : 0 .. Len(nodes), minterm : Minterm,
                   call : {"none", "lazy", "create", "prefix", "inner", "resume"}]
  BY DEF IInv, Numbering, CallOK
<1>4. 0 \in Minterm
  BY LdfaAssumption DEF Minterm
<1>5. NoJob \in [state : 0 .. Len(nodes), minterm : Minterm,
                 call : {"none", "lazy", "create", "prefix", "inner", "resume"}]
  BY <1>3, <1>4 DEF NoJob, MISSING
<1>6. CallOK'
  BY <1>1, <1>2, <1>5 DEF IInv, CallOK, Kept
<1>7. RetOK'
  <2>1. CASE ~InCall
    BY <2>1, <1>1, <1>2
  <2>2. CASE InCall
    <3>1. /\ ret' \in [status : {"none", "ok", "err"}, call : {"none", "lazy", "create"},
                       state : 0 .. Len(nodes), minterm : Minterm, next : 0 .. Len(nodes)]
          /\ ret'.status = "err"
      BY <2>2, <1>1, <1>3 DEF InCall
    <3> QED
      BY <3>1, <1>2 DEF RetOK, Answered, Kept
  <2> QED
    BY <2>1, <2>2
<1>8. CapOK'
  BY <1>1, <1>2 DEF IInv, CapOK, InCall, StatesLen, Kept, NoJob
<1> QED
  BY <1>2, <1>6, <1>7, <1>8 DEF IInv

LEMMA FillKeptCorrect == ASSUME IInv, FillKept PROVE IInv'
<1>1. /\ pc = "fill" /\ mt < Minterms /\ center[job.state][mt] # 0
      /\ pc' = pc /\ mt' = mt + 1 /\ job' = job /\ ret' = ret
  BY DEF FillKept, MISSING
<1>2. /\ Static' /\ Numbering' /\ CenterOK' /\ SkipOK' /\ BeginOK' /\ Sized'
      /\ Kept /\ RetOK'
  BY <1>1, TablesKept DEF FillKept, Built
<1>3. mt \in 0 .. Minterms /\ Minterms \in Nat
  BY LdfaAssumption DEF IInv, CallOK
<1>4. \A m \in Minterm : m < mt + 1 => center[job.state][m] # 0
  BY <1>1, <1>3 DEF IInv, CallOK, Minterm
<1>5. mt + 1 \in 0 .. Minterms
  BY <1>1, <1>3
<1>6. CallOK'
  BY <1>1, <1>2, <1>4, <1>5 DEF IInv, CallOK, Kept
<1>7. CapOK'
  BY <1>1, <1>2 DEF IInv, CapOK, InCall, StatesLen, Kept
<1> QED
  BY <1>2, <1>6, <1>7 DEF IInv

LEMMA FillNextCorrect == ASSUME IInv, FillNext PROVE IInv'
<1> DEFINE s == job.state
           n == Target(nodes[s], mt)
<1>1. /\ pc = "fill" /\ mt < Minterms /\ center[s][mt] = 0 /\ StatesLen < cap
      /\ RegisterState(n)
      /\ center' = [Rows(StateOf(n)) EXCEPT ![s][mt] = StateOf(n)]
      /\ skipIds' = Ids(StateOf(n))
      /\ re' = re /\ simd' = simd /\ cap' = cap /\ begin' = begin
      /\ searchers' = searchers /\ pruned' = pruned
      /\ pc' = pc /\ mt' = mt + 1 /\ job' = job /\ ret' = ret
  BY DEF FillNext, FillNextWith, MISSING, Rows, Ids
<1>2. /\ Static /\ Numbering /\ CenterOK /\ SkipOK /\ BeginOK /\ Sized /\ CallOK
      /\ RetOK /\ CapOK
  BY DEF IInv
<1>3. /\ s \in 1 .. Len(nodes) /\ Len(nodes) \in Nat /\ Built
      /\ Len(nodes) <= Len(center) /\ Len(nodes) <= Len(skipIds) /\ s <= Len(center)
      /\ mt \in Minterm /\ mt \in Nat /\ Minterms \in Nat /\ mt + 1 \in 0 .. Minterms
  <2>1. mt \in 0 .. Minterms /\ s \in 1 .. Len(nodes) /\ Minterms \in Nat
    BY <1>1, <1>2, LdfaAssumption DEF CallOK
  <2>2. Built /\ Len(nodes) \in Nat /\ Len(center) \in Nat
    BY <1>1, <1>2 DEF Built, Numbering, CenterOK
  <2> QED
    BY <1>1, <1>2, <2>1, <2>2 DEF Sized, Minterm
<1> HIDE DEF s
<1>4. /\ Numbering' /\ CenterOK' /\ SkipOK' /\ Extended /\ CenterKept
      /\ Len(center') \in Nat
      /\ center'[s][mt] # 0
      /\ \A k \in Node : index[k] # 0 => index'[k] # 0
      /\ Len(nodes') <= Len(center') /\ Len(nodes') <= Len(skipIds')
  BY <1>1, <1>2, <1>3, FillCorrect
<1>5. Static'
  BY <1>1, <1>2 DEF Static
<1>6. BeginOK'
  BY <1>1, <1>2, <1>4, BeginKept DEF Built
<1>7. Sized'
  BY <1>4 DEF Sized
<1>8. RetOK'
  BY <1>1, <1>2, <1>4, RetKept
<1>9. Len(nodes') \in {Len(nodes), Len(nodes) + 1}
  BY <1>4 DEF Extended
<1>10. CallOK'
  <2>1. \A m \in Minterm : m < mt + 1 => center'[s][m] # 0
    <3> TAKE m \in Minterm
    <3>1. CASE m = mt
      BY <3>1, <1>4
    <3>2. CASE m < mt
      <4>1. center[s][m] # 0
        BY <3>2, <1>1, <1>2 DEF CallOK, s
      <4>2. s \in 1 .. Len(center)
        BY <1>2, <1>3 DEF CenterOK
      <4>3. center'[s][m] = center[s][m]
        BY <4>1, <4>2, <1>4 DEF CenterKept
      <4> QED
        BY <4>1, <4>3
    <3> QED
      BY <1>3, <3>1, <3>2 DEF Minterm
  <2>2. job.call = "inner" => index'[re.resume] # 0
    BY <1>1, <1>2, <1>4, Algebraic DEF CallOK
  <2>3. job \in [state : 0 .. Len(nodes'), minterm : Minterm,
                 call : {"none", "lazy", "create", "prefix", "inner", "resume"}]
    BY <1>2, <1>3, <1>9 DEF CallOK
  <2> QED
    BY <1>1, <1>2, <1>3, <1>9, <2>1, <2>2, <2>3 DEF CallOK, s
<1>11. CapOK'
  <2>1. cap \in Nat
    BY <1>2, Algebraic
  <2>2. StatesLen' <= cap
    BY <1>1, <1>3, <1>9, <2>1 DEF StatesLen
  <2> QED
    BY <1>1, <1>3, <1>9, <2>1, <2>2 DEF CapOK, StatesLen
<1> QED
  BY <1>4, <1>5, <1>6, <1>7, <1>8, <1>10, <1>11 DEF IInv

(* Starting on the row of a registered state.                              *)
LEMMA StartCorrect ==
  ASSUME IInv, Kept, Built, SkipOK', Len(skipIds') = Len(skipIds), ret' = ret,
         NEW s \in 1 .. Len(nodes), NEW m \in Minterm,
         NEW call \in {"lazy", "create", "prefix", "inner", "resume"},
         call = "inner" => index[re.resume] # 0,
         Start(s, call, m),
         StatesLen <= IF call \in {"lazy", "create"} THEN cap + 2 ELSE cap + 1
  PROVE  IInv'
<1>1. /\ pc' = "fill" /\ job' = [state |-> s, call |-> call, minterm |-> m] /\ mt' = 0
  BY DEF Start
<1>2. /\ Static' /\ Numbering' /\ CenterOK' /\ BeginOK' /\ Sized' /\ RetOK'
  BY <1>1, KeptCorrect DEF Built
<1>3. Len(nodes) \in Nat /\ 0 \in 0 .. Minterms
  BY LdfaAssumption DEF IInv, Numbering
<1>4. /\ job'.state = s /\ job'.call = call
      /\ job' \in [state : 0 .. Len(nodes), minterm : Minterm,
                    call : {"none", "lazy", "create", "prefix", "inner", "resume"}]
  BY <1>1, <1>3
<1>5. \A k \in Minterm : ~(k < 0)
  BY LdfaAssumption DEF Minterm
<1>6. CallOK'
  BY <1>1, <1>3, <1>4, <1>5 DEF CallOK, Kept
<1>7. CapOK'
  BY <1>1, <1>4 DEF CapOK, InCall, StatesLen, Kept
<1> QED
  BY <1>2, <1>6, <1>7 DEF IInv

LEMMA FillDoneCorrect == ASSUME IInv, FillDone PROVE IInv'
<1>1. /\ pc = "fill" /\ mt = Minterms /\ TryBuildSkip(job.state) /\ Kept
  BY DEF FillDone, Kept
<1>2. /\ Static /\ Numbering /\ CenterOK /\ SkipOK /\ BeginOK /\ Sized /\ CallOK
      /\ RetOK /\ CapOK
  BY DEF IInv
<1>3. /\ job.state \in 1 .. Len(nodes) /\ Len(nodes) \in Nat /\ Built
      /\ job.state <= Len(skipIds) /\ job.state <= Len(center)
      /\ Len(nodes) <= Len(center)
  <2>1. Built /\ job.state \in 1 .. Len(nodes) /\ Len(nodes) \in Nat
    BY <1>1, <1>2 DEF Built, CallOK, Numbering
  <2>2. Len(skipIds) \in Nat /\ Len(center) \in Nat
    BY <1>2 DEF SkipOK, CenterOK
  <2> QED
    BY <1>2, <2>1, <2>2 DEF Sized
<1>4. SkipOK' /\ Len(skipIds') = Len(skipIds)
  <2> DEFINE s == job.state
  <2>1. s \in 1 .. Len(nodes) /\ s <= Len(skipIds) /\ TryBuildSkip(s)
    BY <1>1, <1>3
  <2> HIDE DEF s
  <2> QED
    BY <1>1, <1>2, <2>1, TryBuildSkipCorrect DEF Kept
<1>5. job \in [state : 0 .. Len(nodes), minterm : Minterm,
               call : {"none", "lazy", "create", "prefix", "inner", "resume"}]
  BY <1>2 DEF CallOK
<1>6. 0 \in Minterm
  BY LdfaAssumption DEF Minterm
<1>7. CASE /\ InCall
           /\ pc' = "ready"
           /\ ret' = [status |-> "ok", call |-> job.call, state |-> job.state,
                      minterm |-> job.minterm, next |-> center[job.state][job.minterm]]
           /\ job' = NoJob /\ UNCHANGED mt
  <2>1. /\ Static' /\ Numbering' /\ CenterOK' /\ BeginOK' /\ Sized'
    BY <1>1, <1>3, <1>4, <1>7, KeptCorrect
  <2>2. NoJob \in [state : 0 .. Len(nodes), minterm : Minterm,
                   call : {"none", "lazy", "create", "prefix", "inner", "resume"}]
    BY <1>3, <1>6 DEF NoJob, MISSING
  <2>3. CallOK'
    BY <1>1, <1>2, <1>7, <2>2 DEF CallOK, Kept
  <2>4. CapOK'
    BY <1>1, <1>2, <1>7 DEF CapOK, InCall, StatesLen, Kept
  <2> DEFINE s == job.state
             t == center[s][job.minterm]
  <2>5. \A m \in Minterm : center[s][m] # 0
    BY <1>1, <1>2, LdfaAssumption DEF CallOK, Minterm
  <2>6. s \in 1 .. Len(center) /\ job.minterm \in Minterm
    BY <1>2, <1>3, <1>5 DEF CenterOK
  <2>7. t \in 0 .. Len(nodes) /\ t # 0 /\ nodes[t] = Target(nodes[s], job.minterm)
    BY <1>2, <2>5, <2>6 DEF CenterOK
  <2> HIDE DEF t
  <2>8. ret' = [status |-> "ok", call |-> job.call, state |-> s,
                minterm |-> job.minterm, next |-> t]
    BY <1>7 DEF t
  <2>9. job.call \in {"none", "lazy", "create"}
    BY <1>7 DEF InCall
  <2>10. /\ ret' \in [status : {"none", "ok", "err"}, call : {"none", "lazy", "create"},
                       state : 0 .. Len(nodes), minterm : Minterm, next : 0 .. Len(nodes)]
         /\ ret'.state = s /\ ret'.next = t /\ ret'.minterm = job.minterm
    BY <1>5, <2>7, <2>8, <2>9
  <2>11. Answered'
    BY <1>1, <2>5, <2>7, <2>10 DEF Answered, Kept, Target, MISSING
  <2>12. RetOK'
    BY <1>1, <1>3, <2>10, <2>11 DEF RetOK, Kept
  <2> QED
    BY <1>4, <2>1, <2>3, <2>4, <2>12 DEF IInv
<1>8. CASE job.call = "inner" /\ Start(index[re.resume], "resume", 0) /\ UNCHANGED ret
  <2> DEFINE r == index[re.resume]
  <2>1. r \in 1 .. Len(nodes)
    <3>1. r # 0 /\ re.resume \in Node
      BY <1>1, <1>2, <1>8, Algebraic DEF CallOK
    <3>2. r \in 0 .. Len(nodes)
      BY <1>2, <3>1 DEF Numbering
    <3> QED
      BY <1>3, <3>1, <3>2
  <2>2. StatesLen <= cap + 1
    BY <1>1, <1>2, <1>8 DEF CapOK, InCall
  <2>3. Start(r, "resume", 0) /\ ret' = ret
    BY <1>8
  <2> HIDE DEF r
  <2> QED
    BY <1>1, <1>3, <1>4, <1>6, <2>1, <2>2, <2>3, StartCorrect
<1>9. CASE job.call \in {"prefix", "resume"} /\ pc' = "install" /\ UNCHANGED <<job, mt, ret>>
  <2>1. /\ Static' /\ Numbering' /\ CenterOK' /\ BeginOK' /\ Sized' /\ RetOK'
    BY <1>1, <1>3, <1>4, <1>9, KeptCorrect
  <2>2. CallOK'
    BY <1>1, <1>2, <1>9 DEF CallOK, Kept
  <2>3. CapOK'
    BY <1>1, <1>2, <1>9 DEF CapOK, InCall, StatesLen, Kept
  <2> QED
    BY <1>4, <2>1, <2>2, <2>3 DEF IInv
<1> QED
  BY <1>7, <1>8, <1>9 DEF FillDone

LEMMA NoPrefixCorrect == ASSUME IInv, NoPrefix PROVE IInv'
<1>1. /\ pc = "prefix" /\ pc' \in {"seek", "dead"} /\ job' = job /\ mt' = mt
      /\ ret' = ret
  BY DEF NoPrefix
<1>2. /\ Static' /\ Numbering' /\ CenterOK' /\ SkipOK' /\ BeginOK' /\ Sized'
      /\ RetOK' /\ Kept
  BY <1>1, TablesKept DEF NoPrefix, Built
<1>3. CallOK'
  BY <1>1, <1>2 DEF IInv, CallOK, Kept
<1>4. cap \in Nat /\ Len(nodes) \in Nat
  BY Algebraic DEF IInv, Numbering
<1>5. CapOK'
  BY <1>1, <1>2, <1>4 DEF IInv, CapOK, StatesLen, Kept
<1> QED
  BY <1>2, <1>3, <1>5 DEF IInv

LEMMA InstallPrefixCorrect == ASSUME IInv, InstallPrefix PROVE IInv'
<1>1. /\ pc = "prefix" /\ Start(pruned, "prefix", 0) /\ ret' = ret
      /\ Kept /\ searchers' = searchers /\ skipIds' = skipIds
  BY DEF InstallPrefix, Kept, tables
<1>2. SkipOK' /\ Len(skipIds') = Len(skipIds)
  BY <1>1, SkipKept DEF IInv, Kept
<1>3. Built /\ pruned \in 1 .. Len(nodes) /\ 0 \in Minterm
  BY <1>1, LdfaAssumption DEF IInv, BeginOK, Built, Minterm
<1>4. StatesLen <= cap + 1
  <2>1. cap \in Nat /\ Len(nodes) \in Nat
    BY Algebraic DEF IInv, Numbering
  <2> QED
    BY <1>1, <2>1 DEF IInv, CapOK, StatesLen
<1> QED
  BY <1>1, <1>2, <1>3, <1>4, StartCorrect

LEMMA InstallCorrect == ASSUME IInv, Install PROVE IInv'
<1>1. /\ pc = "install" /\ pc' = "dead" /\ job' = NoJob /\ mt' = mt /\ ret' = ret /\ Kept
  BY DEF Install, Kept
<1> DEFINE k == Skipper(IF job.call = "resume" THEN "inner" ELSE "prefix", {})
<1>2. Push(k, pruned)
  BY DEF Install
<1>3. k \in SkipperType /\ Fits(k, pruned)
  BY LdfaAssumption DEF Skipper, SkipperType, Fits
<1>4. Built /\ pruned \in 1 .. Len(nodes) /\ pruned <= Len(skipIds)
  <2>1. Built /\ pruned \in 1 .. Len(nodes) /\ Len(nodes) \in Nat
    BY <1>1 DEF IInv, Built, BeginOK, Numbering
  <2>2. Len(skipIds) \in Nat
    BY DEF IInv, SkipOK
  <2> QED
    BY <2>1, <2>2 DEF IInv, Sized
<1> HIDE DEF k
<1>5. SkipOK' /\ Len(skipIds') = Len(skipIds)
  BY <1>1, <1>2, <1>3, <1>4, PushCorrect DEF IInv, Kept
<1>6. /\ Static' /\ Numbering' /\ CenterOK' /\ BeginOK' /\ Sized' /\ RetOK'
  BY <1>1, <1>4, <1>5, KeptCorrect
<1>7. NoJob \in [state : 0 .. Len(nodes), minterm : Minterm,
                 call : {"none", "lazy", "create", "prefix", "inner", "resume"}]
  BY LdfaAssumption DEF NoJob, MISSING, Minterm, IInv, Numbering
<1>8. CallOK'
  BY <1>1, <1>7 DEF IInv, CallOK, Kept
<1>9. CapOK'
  BY <1>1 DEF IInv, CapOK, StatesLen, Kept
<1> QED
  BY <1>5, <1>6, <1>8, <1>9 DEF IInv

LEMMA EnsureDeadSkipCorrect == ASSUME IInv, EnsureDeadSkip PROVE IInv'
<1>1. /\ pc = "dead" /\ pc' = "seek" /\ job' = job /\ mt' = mt /\ ret' = ret /\ Kept
      /\ GetOrCreateSkip({}, DEAD) \/ (searchers' = searchers /\ skipIds' = skipIds)
  BY DEF EnsureDeadSkip, Kept
<1>2. /\ Built /\ DEAD \in 1 .. Len(nodes) /\ DEAD <= Len(skipIds) /\ nodes[DEAD] = Bot
  <2>1. Built /\ Len(nodes) \in Nat /\ Len(nodes) >= 2 /\ nodes[1] = Bot
    BY <1>1 DEF IInv, Built, Numbering
  <2>2. Len(skipIds) \in Nat
    BY DEF IInv, SkipOK
  <2> QED
    BY <2>1, <2>2 DEF IInv, Sized, DEAD
<1>3. {} \in SUBSET Minterm
      /\ \A m \in Minterm \ {} : Target(nodes[DEAD], m) = re.prune[nodes[DEAD]]
  BY <1>2, LdfaAssumption DEF IInv, Static, Target
<1>4. SkipOK' /\ Len(skipIds') = Len(skipIds)
  <2>1. CASE GetOrCreateSkip({}, DEAD)
    BY <1>1, <1>2, <1>3, <2>1, CreateSkipCorrect DEF IInv, Kept
  <2>2. CASE searchers' = searchers /\ skipIds' = skipIds
    BY <1>1, <2>2, SkipKept DEF IInv, Kept
  <2> QED
    BY <1>1, <2>1, <2>2
<1>5. /\ Static' /\ Numbering' /\ CenterOK' /\ BeginOK' /\ Sized' /\ RetOK'
  BY <1>1, <1>2, <1>4, KeptCorrect
<1>6. CallOK'
  BY <1>1 DEF IInv, CallOK, Kept
<1>7. CapOK'
  BY <1>1 DEF IInv, CapOK, StatesLen, Kept
<1> QED
  BY <1>4, <1>5, <1>6, <1>7 DEF IInv

LEMMA LazyTransitionCorrect ==
  ASSUME IInv, NEW s \in 1 .. Len(nodes), NEW m \in Minterm, LazyTransition(s, m)
  PROVE  IInv'
<1>1. /\ pc = "ready" /\ Kept /\ searchers' = searchers /\ skipIds' = skipIds
      /\ UNCHANGED <<re, simd, cap, tables>>
  BY DEF LazyTransition, Kept, tables
<1>2. Built /\ s \in 1 .. Len(center)
  <2>1. Built /\ Len(nodes) \in Nat /\ Len(center) \in Nat
    BY <1>1 DEF IInv, Built, Numbering, CenterOK
  <2> QED
    BY <2>1 DEF IInv, Sized
<1>3. CASE /\ center[s][m] # 0
           /\ ret' = [status |-> "ok", call |-> "lazy", state |-> s, minterm |-> m,
                      next |-> center[s][m]]
           /\ UNCHANGED <<pc, job, mt>>
  <2>1. /\ Static' /\ Numbering' /\ CenterOK' /\ SkipOK' /\ BeginOK' /\ Sized'
    BY <1>1, <1>2, <1>3, TablesKept
  <2>2. CallOK'
    BY <1>1, <1>3 DEF IInv, CallOK, Kept
  <2>3. CapOK'
    BY <1>1, <1>3 DEF IInv, CapOK, StatesLen, Kept
  <2> DEFINE t == center[s][m]
  <2>4. t \in 0 .. Len(nodes) /\ t # 0 /\ nodes[t] = Target(nodes[s], m)
    BY <1>2, <1>3 DEF IInv, CenterOK
  <2>5. ret' = [status |-> "ok", call |-> "lazy", state |-> s, minterm |-> m, next |-> t]
    BY <1>3
  <2> HIDE DEF t
  <2>6. Len(nodes) \in Nat
    BY DEF IInv, Numbering
  <2>7. /\ ret' \in [status : {"none", "ok", "err"}, call : {"none", "lazy", "create"},
                      state : 0 .. Len(nodes), minterm : Minterm, next : 0 .. Len(nodes)]
        /\ ret'.state = s /\ ret'.next = t /\ ret'.minterm = m /\ ret'.call = "lazy"
    BY <2>4, <2>5, <2>6
  <2>8. Answered'
    BY <1>1, <2>4, <2>7 DEF Answered, Kept, Target, MISSING
  <2>9. RetOK'
    BY <1>1, <1>2, <2>7, <2>8 DEF RetOK, Kept
  <2> QED
    BY <2>1, <2>2, <2>3, <2>9 DEF IInv
<1>4. CASE Start(s, "lazy", m) /\ ret' = ret
  <2>1. SkipOK' /\ Len(skipIds') = Len(skipIds)
    BY <1>1, SkipKept DEF IInv, Kept
  <2>2. StatesLen <= cap + 2
    BY <1>1 DEF IInv, CapOK
  <2> QED
    BY <1>1, <1>2, <1>4, <2>1, <2>2, StartCorrect
<1> QED
  BY <1>3, <1>4 DEF LazyTransition, MISSING

LEMMA CreateStateCorrect ==
  ASSUME IInv, NEW s \in 1 .. Len(nodes), CreateState(s)
  PROVE  IInv'
<1>1. /\ pc = "ready" /\ Kept /\ searchers' = searchers /\ skipIds' = skipIds
      /\ Start(s, "create", 0) /\ ret' = ret
  BY DEF CreateState, Kept, tables
<1>2. Built /\ 0 \in Minterm
  BY <1>1, LdfaAssumption DEF Built, Minterm
<1>3. SkipOK' /\ Len(skipIds') = Len(skipIds)
  BY <1>1, SkipKept DEF IInv, Kept
<1>4. StatesLen <= cap + 2
  BY <1>1 DEF IInv, CapOK
<1> QED
  BY <1>1, <1>2, <1>3, <1>4, StartCorrect

(* The actions that register a node without filling an entry.              *)
LEMMA RegisterKept ==
  ASSUME IInv, Built, NEW n \in Node, GetOrRegister(n), ret' = ret,
         UNCHANGED <<re, simd, cap, begin, searchers, pruned>>, pc' # "begin"
  PROVE  /\ Static' /\ Numbering' /\ CenterOK' /\ SkipOK' /\ BeginOK' /\ Sized' /\ RetOK'
         /\ index'[n] # 0 /\ Len(nodes) \in Nat
         /\ Len(nodes') \in {Len(nodes), Len(nodes) + 1}
<1>1. /\ Static /\ Numbering /\ CenterOK /\ SkipOK /\ BeginOK /\ RetOK
      /\ re' = re /\ begin' = begin /\ searchers' = searchers /\ pruned' = pruned
  BY DEF IInv
<1>2. /\ Numbering' /\ CenterOK' /\ SkipOK' /\ Extended /\ CenterKept
      /\ Len(center') \in Nat /\ index'[n] # 0
      /\ Len(nodes) <= Len(center) /\ Len(nodes) <= Len(skipIds) =>
           Len(nodes') <= Len(center') /\ Len(nodes') <= Len(skipIds')
  BY <1>1, GetOrRegisterCorrect
<1>3. Static'
  BY DEF IInv, Static
<1>4. BeginOK'
  BY <1>1, <1>2, BeginKept
<1>5. RetOK'
  BY <1>1, <1>2, RetKept
<1>6. Sized'
  BY <1>2 DEF IInv, Sized
<1>7. Len(nodes) \in Nat /\ Len(nodes') \in {Len(nodes), Len(nodes) + 1}
  BY <1>1, <1>2 DEF Numbering, Extended
<1> QED
  BY <1>2, <1>3, <1>4, <1>5, <1>6, <1>7

LEMMA InstallInnerCorrect == ASSUME IInv, InstallInner PROVE IInv'
<1>1. /\ pc = "prefix" /\ GetOrRegister(re.resume) /\ ret' = ret
      /\ UNCHANGED <<re, simd, cap, begin, searchers, pruned>>
      /\ pc' = "fill" /\ mt' = 0
      /\ job' = [state |-> pruned, call |-> "inner", minterm |-> 0]
  BY DEF InstallInner, Start
<1>2. re.resume \in Node /\ cap \in Nat /\ Built
  BY <1>1, Algebraic DEF IInv, Built
<1>3. /\ Static' /\ Numbering' /\ CenterOK' /\ SkipOK' /\ BeginOK' /\ Sized' /\ RetOK'
      /\ index'[re.resume] # 0 /\ Len(nodes) \in Nat
      /\ Len(nodes') \in {Len(nodes), Len(nodes) + 1}
  BY <1>1, <1>2, RegisterKept
<1>4. pruned \in 1 .. Len(nodes)
  BY DEF IInv, BeginOK
<1>5. 0 \in Minterm /\ 0 \in 0 .. Minterms /\ \A m \in Minterm : ~(m < 0)
  BY LdfaAssumption DEF Minterm
<1>6. /\ job' \in [state : 0 .. Len(nodes'), minterm : Minterm,
                    call : {"none", "lazy", "create", "prefix", "inner", "resume"}]
      /\ job'.state = pruned /\ job'.call = "inner" /\ pruned \in 1 .. Len(nodes')
  BY <1>1, <1>3, <1>4, <1>5
<1>7. CallOK'
  BY <1>1, <1>3, <1>5, <1>6 DEF CallOK
<1>8. CapOK'
  BY <1>1, <1>2, <1>3, <1>6 DEF IInv, CapOK, StatesLen, InCall
<1> QED
  BY <1>3, <1>7, <1>8 DEF IInv

LEMMA SeekCorrect == ASSUME IInv, Seek PROVE IInv'
<1>1. /\ pc = "seek" /\ pc' = "ready" /\ job' = job /\ mt' = mt /\ ret' = ret
      /\ UNCHANGED <<re, simd, cap, begin, searchers, pruned>>
      /\ GetOrRegister(re.seek) \/ UNCHANGED <<nodes, index, effects, center, skipIds>>
  BY DEF Seek
<1>2. re.seek \in Node /\ cap \in Nat /\ Built /\ Len(nodes) \in Nat
  BY <1>1, Algebraic DEF IInv, Built, Numbering
<1>3. /\ Static' /\ Numbering' /\ CenterOK' /\ SkipOK' /\ BeginOK' /\ Sized' /\ RetOK'
      /\ Len(nodes') \in {Len(nodes), Len(nodes) + 1}
  <2>1. CASE GetOrRegister(re.seek)
    BY <1>1, <1>2, <2>1, RegisterKept
  <2>2. CASE UNCHANGED <<nodes, index, effects, center, skipIds>>
    <3>1. UNCHANGED <<re, simd, cap, tables>> /\ nodes' = nodes
      BY <1>1, <2>2 DEF tables
    <3> QED
      BY <1>1, <1>2, <3>1, TablesKept
  <2> QED
    BY <1>1, <2>1, <2>2
<1>4. CallOK'
  BY <1>1, <1>2, <1>3 DEF IInv, CallOK
<1>5. CapOK'
  BY <1>1, <1>2, <1>3 DEF IInv, CapOK, StatesLen
<1> QED
  BY <1>3, <1>4, <1>5 DEF IInv

(* The constructor's own registrations: there are no rows yet.             *)
LEMMA BeginStepCorrect == ASSUME IInv, BeginStep PROVE IInv'
<1> DEFINE n == re.begin[mt]
           t == StateOf(n)
<1>1. /\ pc = "begin" /\ mt < Minterms /\ RegisterState(n)
      /\ re' = re /\ simd' = simd /\ cap' = cap /\ center' = center
      /\ skipIds' = skipIds /\ searchers' = searchers /\ pruned' = pruned
      /\ job' = job /\ ret' = ret
      /\ \/ pc' = "failed" /\ begin' = begin /\ mt' = mt
         \/ /\ StatesLen' <= cap /\ pc' = "begin" /\ mt' = mt + 1
            /\ begin' = [begin EXCEPT ![mt] = t]
  BY DEF BeginStep
<1>2. /\ Static /\ Numbering /\ CenterOK /\ SkipOK /\ BeginOK /\ CallOK /\ RetOK
      /\ center = <<>> /\ skipIds = <<>>
  BY <1>1 DEF IInv, CallOK
<1>3. mt \in Minterm /\ mt + 1 \in 0 .. Minterms /\ n \in Node
  <2>1. mt \in 0 .. Minterms /\ Minterms \in Nat
    BY <1>2, LdfaAssumption DEF CallOK
  <2>2. mt \in Minterm /\ mt + 1 \in 0 .. Minterms
    BY <1>1, <2>1 DEF Minterm
  <2> QED
    BY <1>2, <2>2, Algebraic
<1> HIDE DEF n
<1>4. /\ Numbering' /\ Extended /\ t \in 1 .. Len(nodes') /\ nodes'[t] = n
  BY <1>1, <1>2, <1>3, RegisterCorrect
<1> HIDE DEF t
<1>5. /\ Len(nodes) \in Nat /\ Len(nodes') \in {Len(nodes), Len(nodes) + 1}
      /\ \A i \in 1 .. Len(nodes) : nodes'[i] = nodes[i]
  BY <1>2, <1>4 DEF Numbering, Extended
<1>6. Static'
  BY <1>1, <1>2 DEF Static
<1>7. center' = <<>> /\ skipIds' = <<>> /\ Len(center') = 0 /\ Len(skipIds') = 0
  BY <1>1, <1>2
<1>8. CenterOK' /\ CenterKept
  BY <1>2, <1>7 DEF CenterOK, CenterKept
<1>9. SkipOK'
  BY <1>1, <1>2, <1>7 DEF SkipOK, SkipSoundBelowLimit, SkipSound
<1>10. BeginOK'
  <2>1. pruned' \in 1 .. Len(nodes') /\ nodes'[pruned'] = re'.pruned
    BY <1>1, <1>2, <1>5 DEF BeginOK
  <2>2. CASE pc' = "failed" /\ begin' = begin /\ mt' = mt
    <3>1. begin' \in [Minterm -> 1 .. Len(nodes')]
      BY <2>2, <1>2, <1>5 DEF BeginOK
    <3> QED
      BY <2>1, <2>2, <3>1 DEF BeginOK, Built
  <2>3. CASE pc' = "begin" /\ mt' = mt + 1 /\ begin' = [begin EXCEPT ![mt] = t]
    <3>1. /\ begin' \in [Minterm -> 1 .. Len(nodes')]
          /\ begin'[mt] = t
          /\ \A m \in Minterm : m # mt => begin'[m] = begin[m]
      BY <2>3, <1>2, <1>3, <1>4, <1>5 DEF BeginOK
    <3>2. ASSUME NEW m \in Minterm, m < mt + 1
          PROVE  nodes'[begin'[m]] = re.begin[m]
      <4>1. CASE m = mt
        BY <4>1, <3>1, <1>4 DEF n
      <4>2. CASE m < mt
        <5>1. nodes[begin[m]] = re.begin[m] /\ begin[m] \in 1 .. Len(nodes)
          BY <4>2, <1>1, <1>2 DEF BeginOK
        <5>2. m # mt
          BY <4>2, <1>3 DEF Minterm
        <5> QED
          BY <5>1, <5>2, <3>1, <1>5
      <4> QED
        BY <4>1, <4>2, <3>2, <1>3 DEF Minterm
    <3> QED
      BY <2>1, <2>3, <3>1, <3>2, <1>1 DEF BeginOK, Built
  <2> QED
    BY <1>1, <2>2, <2>3
<1>11. Sized'
  BY <1>1 DEF Sized, Built
<1>12. RetOK'
  BY <1>1, <1>2, <1>4, <1>7, <1>8, RetKept
<1>13. CallOK'
  <2>1. job' \in [state : 0 .. Len(nodes'), minterm : Minterm,
                  call : {"none", "lazy", "create", "prefix", "inner", "resume"}]
    BY <1>1, <1>2, <1>5 DEF CallOK
  <2>2. mt' \in 0 .. Minterms
    BY <1>1, <1>2, <1>3 DEF CallOK
  <2> QED
    BY <1>1, <1>7, <2>1, <2>2 DEF CallOK
<1>14. CapOK'
  BY <1>1 DEF CapOK
<1> QED
  BY <1>4, <1>6, <1>8, <1>9, <1>10, <1>11, <1>12, <1>13, <1>14 DEF IInv

LEMMA BeginDoneCorrect == ASSUME IInv, BeginDone PROVE IInv'
<1>1. /\ pc = "begin" /\ mt = Minterms /\ pc' = "prefix"
      /\ center' = [s \in 1 .. Len(nodes) |-> IF s = 1 THEN DeadRow ELSE NoRow]
      /\ skipIds' = [s \in 1 .. Len(nodes) |-> 0]
      /\ re' = re /\ simd' = simd /\ cap' = cap /\ nodes' = nodes /\ index' = index
      /\ effects' = effects /\ begin' = begin /\ searchers' = searchers
      /\ pruned' = pruned /\ job' = job /\ mt' = mt /\ ret' = ret
  BY DEF BeginDone, DEAD
<1>2. /\ Static /\ Numbering /\ CenterOK /\ SkipOK /\ BeginOK /\ CallOK /\ RetOK
      /\ CapOK /\ center = <<>>
  BY <1>1 DEF IInv, CallOK
<1>3. Len(nodes) \in Nat /\ Len(nodes) >= 2 /\ nodes[1] = Bot
  BY <1>2 DEF Numbering
<1>4. Static' /\ Numbering' /\ Extended
  BY <1>1, <1>2, <1>3 DEF Static, Numbering, OneStatePerNode, Extended
<1> DEFINE Row1 == [Minterm -> 0 .. Len(nodes)]
<1>5. DeadRow \in Row1 /\ NoRow \in Row1
  BY <1>3 DEF DeadRow, NoRow, DEAD, MISSING
<1> HIDE DEF Row1
<1>6. center' \in Seq(Row1) /\ Len(center') = Len(nodes)
  BY <1>1, <1>3, <1>5
<1>7. ASSUME NEW s \in 1 .. Len(center'), NEW m \in Minterm, center'[s][m] # 0
      PROVE  s <= Len(nodes) /\ nodes[center'[s][m]] = Target(nodes[s], m)
  <2>1. s = 1
    BY <1>1, <1>6, <1>7 DEF NoRow, MISSING
  <2>2. center'[s][m] = 1
    BY <1>1, <1>3, <2>1 DEF DeadRow, DEAD
  <2>3. Target(Bot, m) = Bot
    BY <1>2, Algebraic
  <2> QED
    BY <1>3, <2>1, <2>2, <2>3
<1>8. CenterOK'
  BY <1>1, <1>6, <1>7 DEF CenterOK, Target, Row1
<1>9. CenterKept
  <2>1. Len(center) = 0 /\ Len(center') \in Nat
    BY <1>2, <1>3, <1>6
  <2> QED
    BY <2>1 DEF CenterKept
<1>10. SkipOK'
  <2> DEFINE Id == 0 .. SkipMod - 1
  <2>1. 0 \in Id
    BY LdfaAssumption
  <2> HIDE DEF Id
  <2>2. skipIds' \in Seq(Id) /\ Len(skipIds') = Len(nodes)
        /\ \A s \in 1 .. Len(nodes) : skipIds'[s] = 0
    BY <1>1, <1>3, <2>1
  <2>3. searchers' \in Seq(SkipperType) /\ Len(searchers') \in Nat
    BY <1>1, <1>2 DEF SkipOK
  <2> QED
    BY <2>2, <2>3 DEF SkipOK, SkipSoundBelowLimit, SkipSound, Id
<1>11. BeginOK'
  BY <1>1, <1>2, LdfaAssumption DEF BeginOK, Minterm
<1>12. Sized'
  <2>1. Len(skipIds') = Len(nodes)
    BY <1>1, <1>3
  <2> QED
    BY <1>1, <1>3, <1>6, <2>1 DEF Sized
<1>13. RetOK'
  BY <1>1, <1>2, <1>3, <1>4, <1>6, <1>9, RetKept
<1>14. CallOK'
  BY <1>1, <1>2 DEF CallOK
<1>15. CapOK'
  BY <1>1, <1>2, LdfaAssumption DEF CapOK, StatesLen
<1> QED
  BY <1>4, <1>8, <1>10, <1>11, <1>12, <1>13, <1>14, <1>15 DEF IInv

-----------------------------------------------------------------------------
(* The initial states: DEAD, the initial node, and its pruned form if that *)
(* is neither.                                                             *)
LEMMA InitCorrect == ASSUME Init PROVE IInv
<1> DEFINE old == [n \in Node |-> IF n = Bot THEN 1 ELSE IF n = re.initial THEN 2 ELSE 0]
<1>1. /\ re \in Regexes /\ simd \in BOOLEAN /\ cap \in Capacities
      /\ begin = DeadRow /\ center = <<>> /\ skipIds = <<>> /\ searchers = <<>>
      /\ pc = "new" /\ job = NoJob /\ mt = 0 /\ ret = NoRet
  BY DEF Init
<1>2. Static
  BY <1>1 DEF Static
<1>3. /\ Bot \in Node /\ re.initial \in Node /\ re.pruned \in Node
      /\ re.nulls \in [Node -> SUBSET Null]
  BY <1>2, Algebraic, LdfaAssumption
<1>4. \/ /\ old[re.pruned] # 0
         /\ nodes = <<Bot, re.initial>> /\ index = old
         /\ effects = <<{}, re.nulls[re.initial]>> /\ pruned = old[re.pruned]
      \/ /\ old[re.pruned] = 0
         /\ nodes = <<Bot, re.initial, re.pruned>>
         /\ index = [old EXCEPT ![re.pruned] = 3]
         /\ effects = <<{}, re.nulls[re.initial], re.nulls[re.pruned]>>
         /\ pruned = 3
  BY DEF Init, DEAD, INITIAL, MISSING
<1>5. /\ old \in [Node -> {0, 1, 2}]
      /\ \A n \in Node : old[n] = IF n = Bot THEN 1 ELSE IF n = re.initial THEN 2 ELSE 0
  OBVIOUS
<1> HIDE DEF old
<1>6. Numbering /\ pruned \in 1 .. Len(nodes) /\ nodes[pruned] = re.pruned
  <2>1. CASE /\ old[re.pruned] # 0
             /\ nodes = <<Bot, re.initial>> /\ index = old
             /\ effects = <<{}, re.nulls[re.initial]>> /\ pruned = old[re.pruned]
    <3>1. /\ nodes \in Seq(Node) /\ Len(nodes) = 2 /\ nodes[1] = Bot
          /\ nodes[2] = re.initial
      BY <2>1, <1>3
    <3>2. /\ effects \in Seq(SUBSET Null) /\ Len(effects) = 2
          /\ effects[2] = re.nulls[re.initial]
      BY <2>1, <1>3
    <3>3. index \in [Node -> 0 .. 2]
      BY <2>1, <1>5
    <3>4. OneStatePerNode
      BY <2>1, <3>1, <1>3, <1>5 DEF OneStatePerNode, MISSING, DEAD
    <3>5. \A s \in 1 .. 2 : s # 1 => effects[s] = re.nulls[nodes[s]]
      BY <3>1, <3>2
    <3> QED
      BY <2>1, <3>1, <3>2, <3>3, <3>4, <3>5, <1>3, <1>5 DEF Numbering
  <2>2. CASE /\ old[re.pruned] = 0
             /\ nodes = <<Bot, re.initial, re.pruned>>
             /\ index = [old EXCEPT ![re.pruned] = 3]
             /\ effects = <<{}, re.nulls[re.initial], re.nulls[re.pruned]>>
             /\ pruned = 3
    <3>1. /\ nodes \in Seq(Node) /\ Len(nodes) = 3 /\ nodes[1] = Bot
          /\ nodes[2] = re.initial /\ nodes[3] = re.pruned
      BY <2>2, <1>3
    <3>2. /\ effects \in Seq(SUBSET Null) /\ Len(effects) = 3
          /\ effects[2] = re.nulls[re.initial] /\ effects[3] = re.nulls[re.pruned]
      BY <2>2, <1>3
    <3>3. /\ index \in [Node -> 0 .. 3] /\ index[re.pruned] = 3
          /\ \A n \in Node : n # re.pruned => index[n] = old[n]
      BY <2>2, <1>3, <1>5
    <3>4. OneStatePerNode
      BY <2>2, <3>1, <3>3, <1>3, <1>5 DEF OneStatePerNode, MISSING, DEAD
    <3>5. \A s \in 1 .. 3 : s # 1 => effects[s] = re.nulls[nodes[s]]
      BY <3>1, <3>2
    <3> QED
      BY <2>2, <3>1, <3>2, <3>3, <3>4, <3>5 DEF Numbering
  <2> QED
    BY <1>4, <2>1, <2>2
<1>7. Len(nodes) \in Nat /\ Len(nodes) >= 2
  BY <1>6 DEF Numbering
<1>8. CenterOK /\ SkipOK
  BY <1>1 DEF CenterOK, SkipOK, SkipSoundBelowLimit, SkipSound
<1>9. BeginOK
  BY <1>1, <1>6, <1>7 DEF BeginOK, Built, DeadRow, DEAD
<1>10. Sized
  BY <1>1 DEF Sized, Built
<1>11. 0 \in Minterm /\ 0 \in 0 .. Minterms
  BY LdfaAssumption DEF Minterm
<1>12. CallOK
  BY <1>1, <1>7, <1>11 DEF CallOK, NoJob, MISSING
<1>13. RetOK
  BY <1>1, <1>7, <1>11 DEF RetOK, NoRet, Answered, MISSING
<1>14. CapOK
  BY <1>1 DEF CapOK
<1> QED
  BY <1>2, <1>6, <1>8, <1>9, <1>10, <1>12, <1>13, <1>14 DEF IInv

LEMMA StutterCorrect == ASSUME IInv, UNCHANGED vars PROVE IInv'
<1>1. /\ UNCHANGED <<re, simd, cap, tables>> /\ pc' = pc /\ mt' = mt /\ job' = job
      /\ ret' = ret /\ center' = center /\ skipIds' = skipIds
  BY DEF vars, tables
<1>2. /\ Static' /\ Numbering' /\ CenterOK' /\ SkipOK' /\ BeginOK' /\ Sized'
      /\ RetOK' /\ Kept
  BY <1>1, TablesKept DEF Built
<1>3. CallOK'
  BY <1>1, <1>2 DEF IInv, CallOK, Kept
<1>4. CapOK'
  BY <1>1, <1>2 DEF IInv, CapOK, InCall, StatesLen, Kept
<1> QED
  BY <1>2, <1>3, <1>4 DEF IInv

LEMMA NextCorrect == ASSUME IInv, [Next]_vars PROVE IInv'
<1>1. CASE Construct
  BY <1>1, NewCorrect, BeginStepCorrect, BeginDoneCorrect, NoPrefixCorrect,
     InstallPrefixCorrect, InstallInnerCorrect, InstallCorrect,
     EnsureDeadSkipCorrect, SeekCorrect DEF Construct
<1>2. CASE Fill
  BY <1>2, FailCorrect, FillKeptCorrect, FillNextCorrect, FillDoneCorrect
     DEF Fill, DerFails, FillFull
<1>3. CASE \E s \in 1 .. Len(nodes), m \in Minterm : LazyTransition(s, m)
  BY <1>3, LazyTransitionCorrect
<1>4. CASE \E s \in 1 .. Len(nodes) : CreateState(s)
  BY <1>4, CreateStateCorrect
<1>5. CASE UNCHANGED vars
  BY <1>5, StutterCorrect
<1> QED
  BY <1>1, <1>2, <1>3, <1>4, <1>5 DEF Next

LEMMA Inductive == Spec => []IInv
<1>1. Init => IInv
  BY InitCorrect
<1>2. IInv /\ [Next]_vars => IInv'
  BY NextCorrect
<1> QED
  BY <1>1, <1>2, PTL DEF Spec

-----------------------------------------------------------------------------
(* What the invariant says in the terms of Ldfa.                           *)
LEMMA Consequences ==
  ASSUME IInv
  PROVE  /\ TypeOK /\ InBounds /\ Coherent /\ OneStatePerNode
         /\ Answered /\ CapacityRespected /\ SkipSoundBelowLimit
<1> USE DEF MISSING, DEAD, INITIAL
<1>1. /\ Static /\ Numbering /\ CenterOK /\ SkipOK /\ BeginOK /\ Sized /\ CallOK
      /\ RetOK /\ CapOK
  BY DEF IInv
<1>2. Len(nodes) \in Nat /\ Len(nodes) >= 2
  BY <1>1 DEF Numbering
<1>3. TypeOK
  <2>1. begin \in [Minterm -> 0 .. Len(nodes)] /\ pruned \in 0 .. Len(nodes)
    BY <1>1, <1>2 DEF BeginOK
  <2>2. re \in RegexType
    BY <1>1, Algebraic
  <2> QED
    BY <1>1, <2>1, <2>2 DEF TypeOK, Sid, Row, Static, Numbering, CenterOK, SkipOK,
       CallOK, RetOK
<1>4. InBounds
  <2>1. \A s \in 1 .. Len(skipIds) : skipIds[s] \in 0 .. Len(searchers)
    <3> DEFINE Id == 0 .. SkipMod - 1
    <3>1. skipIds \in Seq(Id) /\ Len(searchers) \in Nat
      BY <1>1 DEF SkipOK
    <3> HIDE DEF Id
    <3> TAKE s \in 1 .. Len(skipIds)
    <3>2. skipIds[s] \in Id
      BY <3>1
    <3>3. skipIds[s] <= Len(searchers)
      BY <1>1 DEF SkipOK
    <3> QED
      BY <3>1, <3>2, <3>3, LdfaAssumption DEF Id
  <2>2. pruned # 0 /\ \A m \in Minterm : begin[m] # 0
    BY <1>1 DEF BeginOK
  <2> QED
    BY <1>1, <1>2, <2>1, <2>2 DEF InBounds, Numbering, Sized
<1>5. Coherent
  BY <1>1 DEF Coherent, Numbering, BeginOK, CenterOK
<1>6. CapacityRespected
  <2>1. cap \in Nat
    BY <1>1, Algebraic
  <2>2. pc \in {"prefix", "fill", "install", "dead", "seek", "ready"} <=> Built
    BY <1>1 DEF CallOK, Built
  <2> QED
    BY <1>1, <1>2, <2>1, <2>2 DEF CapacityRespected, CapOK, StatesLen
<1> QED
  BY <1>1, <1>3, <1>4, <1>5, <1>6 DEF Numbering, RetOK, SkipOK

(* What each kind of step leaves as it was.                                *)
LEMMA StableCorrect == ASSUME IInv, [Next]_vars PROVE StableStep
<1> USE DEF MISSING
<1>1. /\ Static /\ Numbering /\ CenterOK /\ SkipOK /\ BeginOK /\ Sized /\ CallOK
      /\ RetOK /\ CapOK /\ Len(nodes) \in Nat /\ Len(center) \in Nat
  BY DEF IInv, Numbering, CenterOK
<1>2. ASSUME Extended, CenterKept, begin' = begin \/ ~Built, Len(center') \in Nat
      PROVE  StableStep
  <2>1. Len(nodes') \in Nat /\ Len(nodes) <= Len(nodes')
    BY <1>1, <1>2 DEF Extended
  <2> QED
    BY <1>1, <1>2, <2>1 DEF StableStep, Extended, CenterKept
<1>3. ASSUME nodes' = nodes, center' = center, begin' = begin
      PROVE  StableStep
  BY <1>1, <1>3 DEF StableStep
<1>4. CASE BeginStep
  <2>1. /\ pc = "begin" /\ mt < Minterms /\ RegisterState(re.begin[mt])
        /\ re' = re /\ center' = center
    BY <1>4 DEF BeginStep
  <2>2. re.begin[mt] \in Node
    BY <2>1, <1>1, Algebraic, LdfaAssumption DEF CallOK, Minterm
  <2>3. Extended
    BY <2>1, <2>2, <1>1, RegisterCorrect
  <2> QED
    BY <2>1, <2>3, <1>1, <1>2 DEF CenterKept, Built
<1>5. CASE BeginDone
  <2>1. pc = "begin" /\ nodes' = nodes
        /\ center' = [s \in 1 .. Len(nodes) |-> IF s = DEAD THEN DeadRow ELSE NoRow]
    BY <1>5 DEF BeginDone
  <2>2. center = <<>> /\ Len(center) = 0
    BY <2>1, <1>1 DEF CallOK
  <2> QED
    BY <2>1, <2>2, <1>1 DEF StableStep, Built
<1>6. CASE FillNext
  <2> DEFINE s == job.state
             n == Target(nodes[s], mt)
  <2>1. /\ pc = "fill" /\ mt < Minterms /\ center[s][mt] = 0
        /\ RegisterState(n)
        /\ center' = [Rows(StateOf(n)) EXCEPT ![s][mt] = StateOf(n)]
        /\ skipIds' = Ids(StateOf(n))
        /\ re' = re /\ begin' = begin /\ searchers' = searchers /\ pruned' = pruned
    BY <1>6 DEF FillNext, FillNextWith, Rows, Ids
  <2>2. s \in 1 .. Len(nodes) /\ s <= Len(center) /\ mt \in Minterm
    <3>1. mt \in 0 .. Minterms /\ s \in 1 .. Len(nodes) /\ Len(nodes) <= Len(center)
      BY <2>1, <1>1 DEF CallOK, Sized, Built
    <3> QED
      BY <3>1, <2>1, <1>1, LdfaAssumption DEF Minterm
  <2> HIDE DEF s
  <2>3. Extended /\ CenterKept /\ Len(center') \in Nat
    BY <2>1, <2>2, <1>1, FillCorrect
  <2> QED
    BY <2>1, <2>3, <1>2
<1>7. ASSUME NEW n \in Node, GetOrRegister(n),
             UNCHANGED <<re, begin, searchers, pruned>>
      PROVE  StableStep
  BY <1>1, <1>2, <1>7, GetOrRegisterCorrect
<1>8. CASE InstallInner
  <2>1. re.resume \in Node
    BY <1>1, Algebraic
  <2> QED
    BY <1>7, <1>8, <2>1 DEF InstallInner
<1>9. CASE Seek
  <2>1. re.seek \in Node
    BY <1>1, Algebraic
  <2>2. CASE GetOrRegister(re.seek)
    BY <1>7, <1>9, <2>1, <2>2 DEF Seek
  <2>3. CASE UNCHANGED <<nodes, index, effects, center, skipIds>>
    BY <1>3, <1>9, <2>3 DEF Seek
  <2> QED
    BY <1>9, <2>2, <2>3 DEF Seek
<1>10. CASE \/ New \/ NoPrefix \/ InstallPrefix \/ Install \/ EnsureDeadSkip
  BY <1>3, <1>10 DEF New, NoPrefix, InstallPrefix, Install, EnsureDeadSkip, tables
<1>11. CASE DerFails \/ FillFull \/ FillKept \/ FillDone
  BY <1>3, <1>11 DEF DerFails, FillFull, Fail, FillKept, FillDone, tables
<1>12. CASE \/ \E s \in 1 .. Len(nodes), m \in Minterm : LazyTransition(s, m)
            \/ \E s \in 1 .. Len(nodes) : CreateState(s)
            \/ UNCHANGED vars
  BY <1>3, <1>12 DEF LazyTransition, CreateState, tables, vars
<1> QED
  BY <1>4, <1>5, <1>6, <1>8, <1>9, <1>10, <1>11, <1>12 DEF Next, Construct, Fill

-----------------------------------------------------------------------------
(* The type invariant: no table holds a number that was not handed out.    *)
THEOREM Typed == Spec => []TypeOK
<1>1. IInv => TypeOK
  BY Consequences
<1> QED
  BY <1>1, Inductive, PTL

(* The unchecked reads of the scan loops are in bounds, and every skip id  *)
(* has a skipper, for every regex, capacity and number of byte classes.    *)
THEOREM ReadsInBounds == Spec => []InBounds
<1>1. IInv => InBounds
  BY Consequences
<1> QED
  BY <1>1, Inductive, PTL

(* Every entry of the automaton leads to the state of the derivative, and  *)
(* distinct states are distinct nodes.                                     *)
THEOREM AutomatonCoherent == Spec => [](Coherent /\ OneStatePerNode)
<1>1. IInv => Coherent /\ OneStatePerNode
  BY Consequences
<1> QED
  BY <1>1, Inductive, PTL

(* lazy_transition and create_state keep their promise whenever they       *)
(* return Ok, also after calls that failed half way.                       *)
THEOREM CallsAnswered == Spec => []Answered
<1>1. IInv => Answered
  BY Consequences
<1> QED
  BY <1>1, Inductive, PTL

(* max_dfa_capacity is exceeded by at most two states.                     *)
THEOREM Bounded == Spec => []CapacityRespected
<1>1. IInv => CapacityRespected
  BY Consequences
<1> QED
  BY <1>1, Inductive, PTL

(* Below the limit of the id's width no state has another state's skipper. *)
THEOREM SkippersFit == Spec => []SkipSoundBelowLimit
<1>1. IInv => SkipSoundBelowLimit
  BY Consequences
<1> QED
  BY <1>1, Inductive, PTL

(* The automaton only grows: what a scan has read stays true.              *)
THEOREM OnlyGrows == Spec => Stable
<1>1. IInv /\ [Next]_vars => StableStep
  BY StableCorrect
<1> QED
  BY <1>1, Inductive, PTL DEF Spec, Stable
=============================================================================
