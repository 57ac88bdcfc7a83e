-------------------------------- MODULE Ldfa --------------------------------
(***************************************************************************)
(* The lazily built automaton of the engine (resharp-engine, ldfa.rs): a   *)
(* cache of the derivatives of a regex.  A state is a node of the regex    *)
(* algebra, numbered when it is first met; its row of transitions is       *)
(* filled the first time a scan misses there.  Filling a row may register  *)
(* new states, grow four tables that the scan loops read without bounds    *)
(* checks, fail half way when the capacity is reached, and attach a        *)
(* searcher that lets the scan skip over the bytes on which the state      *)
(* stays where it is.                                                      *)
(*                                                                         *)
(* The algebra is external here: a regex is the record of what the         *)
(* automaton asks of it, see RegexType.  Slot 0 of every vector stands for   *)
(* the state MISSING and is never used; the sequences start at slot 1.     *)
(***************************************************************************)
EXTENDS Integers, Sequences

CONSTANTS
  Node,             \* the nodes of the algebra
  Bot,              \* the empty language, NodeId::BOT
  Minterms,         \* minterms.len(), the number of byte classes
  Regexes,          \* the regexes to build an automaton for
  Capacities,       \* the values of max_dfa_capacity
  SkipMod           \* 256: skip ids are u8

Minterm == 0 .. Minterms - 1

Null == {"center", "end"}

(* What the automaton asks of the algebra.  der is the derivative at       *)
(* CENTER for each byte class, begin the pruned one of the initial node at *)
(* BEGIN, prune is prune_fwd or prune_rev, seek the nodes registered for   *)
(* streaming, resume the node at which an inner prefix resumes, searchable *)
(* the sets of classes a byte or range searcher can look for.              *)
RegexType ==
  [forward : BOOLEAN, initial : Node, pruned : Node, resume : Node, seek : Node,
   der : [Node -> [Minterm -> Node]], begin : [Minterm -> Node],
   prune : [Node -> Node], nulls : [Node -> SUBSET Null],
   searchable : SUBSET SUBSET Minterm]

ASSUME LdfaAssumption ==
  /\ Bot \in Node
  /\ Minterms \in Nat \ {0}
  /\ SkipMod \in Nat \ {0}
  /\ Capacities \subseteq Nat
  /\ \A r \in Regexes :
       /\ r \in RegexType
       /\ \A m \in Minterm : r.der[Bot][m] = Bot   \* it stays empty
       /\ r.prune[Bot] = Bot

VARIABLES
  re,               \* the regex
  simd,             \* has_simd()
  cap,              \* max_capacity
  nodes,            \* state_nodes
  index,            \* node_to_state, MISSING where there is no entry
  effects,          \* effects_id
  begin,            \* begin_table
  center,           \* center_table, one row per state
  skipIds,          \* skip_ids, 0 for none
  searchers,        \* skip_searchers
  pruned,           \* pruned, the state scans start in away from position 0
  pc,               \* where the constructor or the current call is
  job,              \* the row being filled and the call it is filled for
  mt,               \* the loop variable mt_idx
  ret               \* what the last call returned

vars == <<re, simd, cap, nodes, index, effects, begin, center, skipIds,
          searchers, pruned, pc, job, mt, ret>>
tables == <<nodes, index, effects, begin, center, skipIds, searchers, pruned>>

MISSING == 0
DEAD    == 1
INITIAL == 2

(* A state number is one that has been handed out, or MISSING.             *)
Sid == 0 .. Len(nodes)

MaxOf(a, b) == IF a >= b THEN a ELSE b

StatesLen == Len(nodes) + 1

(* The node a transition leads to: derivative, then pruning.               *)
Target(n, m) == re.prune[re.der[n][m]]

-----------------------------------------------------------------------------
(* As a bug would have it: the entries are lost when a table grows.        *)
ResizedFresh(t, new, x) == [i \in 1 .. new |-> x]

(* Vec::resize of a table to new slots, the new ones holding x.            *)
Resized(t, new, x) == [i \in 1 .. new |-> IF i <= Len(t) THEN t[i] ELSE x]

NoRow   == [m \in Minterm |-> MISSING]
DeadRow == [m \in Minterm |-> DEAD]

(* As a bug would have it: off by one in the comparison with the length.   *)
GrownLate(len, s) == IF s <= len + 1 THEN len ELSE MaxOf(2 * len + 1, s)

(* How a table grows when state s must have a slot: to twice its length,   *)
(* or further.  (The code's floor of four entries changes the length of    *)
(* tables of fewer than four entries only.)                                *)
Grown(len, s) == IF s <= len THEN len ELSE MaxOf(2 * len + 1, s)

(* ensure_capacity, applied after register_state has sized effects.        *)
EnsureCapacity(s) ==
  /\ center'  = Resized(center, Grown(Len(center), s), NoRow)
  /\ skipIds' = Resized(skipIds, Grown(Len(skipIds), s), 0)

(* register_state without `force`: the state of node n, a new one if it    *)
(* has none.                                                               *)
StateOf(n) == IF index[n] # MISSING THEN index[n] ELSE StatesLen

RegisterState(n) ==
  IF index[n] # MISSING
  THEN UNCHANGED <<nodes, index, effects>>
  ELSE /\ nodes' = Append(nodes, n)
       /\ index' = [index EXCEPT ![n] = StatesLen]
       /\ effects' = Append(effects, re.nulls[n])

GetOrRegister(n) ==
  /\ RegisterState(n)
  /\ EnsureCapacity(StateOf(n))

-----------------------------------------------------------------------------
NoJob == [state |-> MISSING, call |-> "none", minterm |-> 0]
NoRet == [status |-> "none", call |-> "none", state |-> MISSING, minterm |-> 0,
          next |-> MISSING]

(* The constructor up to the derivative at BEGIN: DEAD, then the initial   *)
(* node under its own number whatever it is, then its pruned form.         *)
Init ==
  /\ re \in Regexes
  /\ simd \in BOOLEAN
  /\ cap \in Capacities
  /\ LET old == [n \in Node |-> IF n = Bot THEN DEAD
                                ELSE IF n = re.initial THEN INITIAL ELSE MISSING]
     IN IF old[re.pruned] # MISSING
        THEN /\ nodes = <<Bot, re.initial>>
             /\ index = old
             /\ effects = <<{}, re.nulls[re.initial]>>
             /\ pruned = old[re.pruned]
        ELSE /\ nodes = <<Bot, re.initial, re.pruned>>
             /\ index = [old EXCEPT ![re.pruned] = 3]
             /\ effects = <<{}, re.nulls[re.initial], re.nulls[re.pruned]>>
             /\ pruned = 3
  /\ begin = DeadRow
  /\ center = <<>> /\ skipIds = <<>> /\ searchers = <<>>
  /\ pc = "new"
  /\ job = NoJob /\ mt = 0 /\ ret = NoRet

(* `b.der(initial, BEGIN)?` may fail, and with it the constructor.         *)
New ==
  /\ pc = "new"
  /\ pc' \in {"begin", "failed"}
  /\ UNCHANGED <<re, simd, cap, tables, job, mt, ret>>

(* One entry of begin_table.  The state is registered before the capacity  *)
(* is looked at, and the automaton discarded when it is exceeded.          *)
BeginStep ==
  /\ pc = "begin" /\ mt < Minterms
  /\ RegisterState(re.begin[mt])
  /\ \/ /\ StatesLen' > cap
        /\ pc' = "failed"
        /\ UNCHANGED <<begin, mt>>
     \/ /\ StatesLen' <= cap
        /\ begin' = [begin EXCEPT ![mt] = StateOf(re.begin[mt])]
        /\ mt' = mt + 1
        /\ UNCHANGED pc
  /\ UNCHANGED <<re, simd, cap, center, skipIds, searchers, pruned, job, ret>>

(* The rest of the constructor: a row and a skip id for every state so far,*)
(* the row of DEAD filled.  ensure_capacity(pruned) has nothing to do.     *)
BeginDone ==
  /\ pc = "begin" /\ mt = Minterms
  /\ center' = [s \in 1 .. Len(nodes) |-> IF s = DEAD THEN DeadRow ELSE NoRow]
  /\ skipIds' = [s \in 1 .. Len(nodes) |-> 0]
  /\ pc' = "prefix"
  /\ UNCHANGED <<re, simd, cap, nodes, index, effects, begin, searchers, pruned,
                 job, mt, ret>>

-----------------------------------------------------------------------------
(* create_state, the loop over one row.  It is started for a caller        *)
(* recorded in job and goes back to it in FillDone or with an error.       *)
Start(s, call, m) ==
  /\ pc' = "fill"
  /\ job' = [state |-> s, call |-> call, minterm |-> m]
  /\ mt' = 0

InCall == job.call \in {"lazy", "create"}

(* The error of create_state: handed to the scan by a call, the end of the *)
(* constructor otherwise.  What the row has got by then it keeps.          *)
Fail ==
  /\ pc' = IF InCall THEN "ready" ELSE "failed"
  /\ ret' = IF InCall
            THEN [status |-> "err", call |-> job.call, state |-> job.state,
                  minterm |-> job.minterm, next |-> MISSING]
            ELSE ret
  /\ job' = NoJob
  /\ UNCHANGED <<re, simd, cap, tables, mt>>

DerFails == pc = "fill" /\ mt = 0 /\ Fail

FillKept ==
  /\ pc = "fill" /\ mt < Minterms
  /\ center[job.state][mt] # MISSING
  /\ mt' = mt + 1
  /\ UNCHANGED <<re, simd, cap, tables, pc, job, ret>>

(* As a bug would have it: the error is dropped, as try_create drops it.   *)
FillFullIgnored ==
  /\ pc = "fill" /\ mt < Minterms
  /\ center[job.state][mt] = MISSING
  /\ StatesLen >= cap
  /\ mt' = mt + 1
  /\ UNCHANGED <<re, simd, cap, tables, pc, job, ret>>

(* The capacity is checked before the target is looked up, so at capacity  *)
(* an entry fails even if its target has a state already.                  *)
FillFull ==
  /\ pc = "fill" /\ mt < Minterms
  /\ center[job.state][mt] = MISSING
  /\ StatesLen >= cap
  /\ Fail

(* One entry of the row: the node it leads to is registered, the tables    *)
(* grow, the entry is written.                                             *)
FillNextWith(n) ==
  /\ pc = "fill" /\ mt < Minterms
  /\ center[job.state][mt] = MISSING
  /\ LET rows == Resized(center, Grown(Len(center), StateOf(n)), NoRow)
     IN /\ RegisterState(n)
        /\ center' = [rows EXCEPT ![job.state][mt] = StateOf(n)]
        /\ skipIds' = Resized(skipIds, Grown(Len(skipIds), StateOf(n)), 0)
  /\ mt' = mt + 1
  /\ UNCHANGED <<re, simd, cap, begin, searchers, pruned, pc, job, ret>>

(* As a bug would have it: the derivative is registered unpruned, or the   *)
(* capacity not looked at.                                                 *)
FillNextUnpruned ==
  StatesLen < cap /\ FillNextWith(re.der[nodes[job.state]][mt])
FillNextUnlimited == FillNextWith(Target(nodes[job.state], mt))

FillNext ==
  StatesLen < cap /\ FillNextWith(Target(nodes[job.state], mt))

-----------------------------------------------------------------------------
(* The classes that take a state elsewhere.  The self loop is that of the  *)
(* derivative before pruning.                                              *)
Exits(n) == {m \in Minterm : re.der[n][m] # n}

(* Skippers: one that stops at the classes in exits, and the two prefix    *)
(* searches of the state pruned.                                           *)
Skipper(kind, exits) == [kind |-> kind, exits |-> exits]
StateSkipper(exits) == Skipper("state", exits)

SkipperType ==
  [kind : {"state", "prefix", "inner"}, exits : SUBSET Minterm]

(* As a bug would have it: the id is taken before the push.                *)
PushBefore(k, s) ==
  /\ searchers' = Append(searchers, k)
  /\ skipIds' = [skipIds EXCEPT ![s] = Len(searchers) % SkipMod]

(* The id of the skipper pushed last, `skip_searchers.len() as u8`.        *)
Push(k, s) ==
  /\ searchers' = Append(searchers, k)
  /\ skipIds' = [skipIds EXCEPT ![s] = (Len(searchers) + 1) % SkipMod]

(* get_or_create_skip: the first equal skipper, `(i + 1) as u8`, or a push.*)
GetOrCreateSkip(exits, s) ==
  \/ \E i \in 1 .. Len(searchers) :
       /\ searchers[i] = StateSkipper(exits)
       /\ \A j \in 1 .. i - 1 : searchers[j] # StateSkipper(exits)
       /\ skipIds' = [skipIds EXCEPT ![s] = i % SkipMod]
       /\ UNCHANGED searchers
  \/ /\ \A i \in 1 .. Len(searchers) : searchers[i] # StateSkipper(exits)
     /\ Push(StateSkipper(exits), s)

WantsSkip(s) == simd /\ skipIds[s] = 0 /\ nodes[s] # Bot /\ Exits(nodes[s]) # Minterm

(* Exits by which a searcher can stop: none at all, few bytes or ranges.   *)
Stoppable(n) == Exits(n) = {} \/ Exits(n) \in re.searchable

(* The code's last resort, try_build_offset_skip, never finds anything: it *)
(* wants a branch out of the node that covers its self loop, a set that is *)
(* not empty here and that no branch out of the node meets.                *)
TryBuildSkip(s) ==
  \/ /\ WantsSkip(s) /\ Stoppable(nodes[s])
     /\ GetOrCreateSkip(Exits(nodes[s]), s)
  \/ /\ ~(WantsSkip(s) /\ Stoppable(nodes[s]))
     /\ UNCHANGED <<searchers, skipIds>>

(* The end of create_state, and what its caller does next.                 *)
FillDone ==
  /\ pc = "fill" /\ mt = Minterms
  /\ TryBuildSkip(job.state)
  /\ \/ /\ InCall
        /\ pc' = "ready"
        /\ ret' = [status |-> "ok", call |-> job.call, state |-> job.state,
                   minterm |-> job.minterm, next |-> center[job.state][job.minterm]]
        /\ job' = NoJob /\ UNCHANGED mt
     \/ /\ job.call = "inner"
        /\ Start(index[re.resume], "resume", 0)
        /\ UNCHANGED ret
     \/ /\ job.call \in {"prefix", "resume"}
        /\ pc' = "install"
        /\ UNCHANGED <<job, mt, ret>>
  /\ UNCHANGED <<re, simd, cap, nodes, index, effects, begin, center, pruned>>

-----------------------------------------------------------------------------
(* The rest of the build (lib.rs): a prefix skipper for the reverse        *)
(* automaton, the skipper of DEAD, the nodes streams start from.  The      *)
(* registrations here look at no capacity.                                 *)
NoPrefix ==
  /\ pc = "prefix"
  /\ pc' = IF re.forward THEN "seek" ELSE "dead"
  /\ UNCHANGED <<re, simd, cap, tables, job, mt, ret>>

InstallPrefix ==
  /\ pc = "prefix" /\ ~re.forward
  /\ Start(pruned, "prefix", 0)
  /\ UNCHANGED <<re, simd, cap, tables, ret>>

InstallInner ==
  /\ pc = "prefix" /\ ~re.forward
  /\ GetOrRegister(re.resume)
  /\ Start(pruned, "inner", 0)
  /\ UNCHANGED <<re, simd, cap, begin, searchers, pruned, ret>>

(* The prefix skipper replaces whatever skipper the state pruned had.      *)
Install ==
  /\ pc = "install"
  /\ Push(Skipper(IF job.call = "resume" THEN "inner" ELSE "prefix", {}), pruned)
  /\ pc' = "dead"
  /\ job' = NoJob
  /\ UNCHANGED <<re, simd, cap, nodes, index, effects, begin, center, pruned, mt, ret>>

(* ensure_dead_skip, for a regex that does not start with TS.              *)
EnsureDeadSkip ==
  /\ pc = "dead"
  /\ \/ skipIds[DEAD] = 0 /\ GetOrCreateSkip({}, DEAD)
     \/ UNCHANGED <<searchers, skipIds>>
  /\ pc' = "seek"
  /\ UNCHANGED <<re, simd, cap, nodes, index, effects, begin, center, pruned, job, mt, ret>>

Seek ==
  /\ pc = "seek"
  /\ \/ GetOrRegister(re.seek)
     \/ UNCHANGED <<nodes, index, effects, center, skipIds>>
  /\ pc' = "ready"
  /\ UNCHANGED <<re, simd, cap, begin, searchers, pruned, job, mt, ret>>

-----------------------------------------------------------------------------
(* The calls of the scans.                                                 *)
LazyTransition(s, m) ==
  /\ pc = "ready"
  /\ \/ /\ center[s][m] # MISSING
        /\ ret' = [status |-> "ok", call |-> "lazy", state |-> s, minterm |-> m,
                   next |-> center[s][m]]
        /\ UNCHANGED <<pc, job, mt>>
     \/ /\ center[s][m] = MISSING
        /\ Start(s, "lazy", m)
        /\ UNCHANGED ret
  /\ UNCHANGED <<re, simd, cap, tables>>

CreateState(s) ==
  /\ pc = "ready"
  /\ Start(s, "create", 0)
  /\ UNCHANGED <<re, simd, cap, tables, ret>>

Construct == New \/ BeginStep \/ BeginDone \/ NoPrefix \/ InstallPrefix
             \/ InstallInner \/ Install \/ EnsureDeadSkip \/ Seek

Fill == DerFails \/ FillKept \/ FillFull \/ FillNext \/ FillDone

Next ==
  \/ Construct
  \/ Fill
  \/ \E s \in 1 .. Len(nodes), m \in Minterm : LazyTransition(s, m)
  \/ \E s \in 1 .. Len(nodes) : CreateState(s)

Spec == Init /\ [][Next]_vars

-----------------------------------------------------------------------------
Row == [Minterm -> Sid]

(* Every number the automaton stores, in a table or for a call, is one that*)
(* register_state has handed out, or MISSING.                              *)
TypeOK ==
  /\ re \in RegexType /\ simd \in BOOLEAN /\ cap \in Capacities
  /\ nodes \in Seq(Node)
  /\ index \in [Node -> Sid]
  /\ effects \in Seq(SUBSET Null)
  /\ begin \in Row
  /\ center \in Seq(Row)
  /\ skipIds \in Seq(0 .. SkipMod - 1)
  /\ searchers \in Seq(SkipperType)
  /\ pruned \in Sid
  /\ pc \in {"new", "begin", "prefix", "fill", "install", "dead", "seek", "ready", "failed"}
  /\ job \in [state : Sid, minterm : Minterm,
              call : {"none", "lazy", "create", "prefix", "inner", "resume"}]
  /\ mt \in 0 .. Minterms
  /\ ret \in [status : {"none", "ok", "err"}, call : {"none", "lazy", "create"},
              state : Sid, minterm : Minterm, next : Sid]

Built == pc \notin {"new", "begin", "failed"}

(* The scan loops read effects_id, center_table and skip_ids through raw   *)
(* pointers at any state they reach ("bounds: see `register_state`").      *)
(* Every state they can reach has a slot in each of them, whatever grew    *)
(* when, and every skip id has a skipper.                                  *)
InBounds ==
  /\ Len(effects) = Len(nodes)
  /\ Len(nodes) >= INITIAL /\ pruned # MISSING
  /\ \A m \in Minterm : begin[m] # MISSING
  /\ Built => Len(nodes) <= Len(center) /\ Len(nodes) <= Len(skipIds)
  /\ \A s \in 1 .. Len(skipIds) : skipIds[s] \in 0 .. Len(searchers)

(* The cache agrees with the algebra: an entry that is there leads to the  *)
(* state of the derivative, and a state has the nullability of its node.   *)
Coherent ==
  /\ nodes[DEAD] = Bot /\ nodes[INITIAL] = re.initial /\ nodes[pruned] = re.pruned
  /\ \A s \in 1 .. Len(nodes) : s # DEAD => effects[s] = re.nulls[nodes[s]]
  /\ \A m \in Minterm : Built \/ (pc = "begin" /\ m < mt) => nodes[begin[m]] = re.begin[m]
  /\ \A s \in 1 .. Len(center), m \in Minterm :
       center[s][m] # MISSING => s <= Len(nodes)
                                 /\ nodes[center[s][m]] = Target(nodes[s], m)

(* node_to_state is the inverse of state_nodes: no node has two states,    *)
(* but for an initial node that is Bot and has DEAD as well.               *)
OneStatePerNode ==
  /\ \A n \in Node : index[n] # MISSING => index[n] <= Len(nodes) /\ nodes[index[n]] = n
  /\ \A s \in 1 .. Len(nodes) : index[nodes[s]] = IF nodes[s] = Bot THEN DEAD ELSE s

(* What a scan relies on when a call returns Ok: lazy_transition has an    *)
(* answer and the right one, create_state has filled the whole row, so     *)
(* that the scan does not miss there again.                                *)
Answered ==
  /\ ret.status = "ok" /\ ret.call = "lazy" =>
       ret.next # MISSING /\ nodes[ret.next] = Target(nodes[ret.state], ret.minterm)
  /\ ret.status = "ok" /\ ret.call = "create" =>
       \A m \in Minterm : center[ret.state][m] # MISSING

(* max_dfa_capacity bounds the states, the slot of MISSING included, but   *)
(* for the two nodes the build registers without looking: the resumption   *)
(* of an inner prefix and the start of a stream (both behind features that *)
(* are off by default).                                                    *)
CapacityRespected == Built => StatesLen <= cap + 2

(* A skipper may only pass over classes on which the state stays what it   *)
(* is: the entry it saves reading would lead to the pruned form of the     *)
(* node the scan is at.  A prefix search belongs to the state pruned.      *)
Fits(k, s) ==
  /\ k.kind = "state" =>
       \A m \in Minterm \ k.exits : Target(nodes[s], m) = re.prune[nodes[s]]
  /\ k.kind \in {"prefix", "inner"} => s = pruned

(* No state ever uses a skipper that passes over bytes it has to stop at.  *)
(* The u8 of a skip id breaks it once it wraps: with SkipMod skippers the  *)
(* next one gets the id of the first.                                      *)
SkipSound ==
  \A s \in 1 .. Len(skipIds) : skipIds[s] # 0 => Fits(searchers[skipIds[s]], s)

(* As long as there are fewer skippers than ids, every state uses its own, *)
(* over any number of registrations, replaced prefixes and shared ids.     *)
SkipSoundBelowLimit == Len(searchers) < SkipMod => SkipSound

(* Scans keep state numbers across calls that grow the automaton, and a    *)
(* scan that missed goes on from the number it had: no state changes its   *)
(* node and no entry of a table that was there changes, whatever a later   *)
(* call registers or fails at.                                             *)
StableStep ==
  /\ \A s \in 1 .. Len(nodes) : s <= Len(nodes') /\ nodes'[s] = nodes[s]
  /\ \A s \in 1 .. Len(center) : s <= Len(center')
       /\ \A m \in Minterm : center[s][m] # MISSING => center'[s][m] = center[s][m]
  /\ Built => begin' = begin

Stable == [][StableStep]_vars
=============================================================================
