------------------------------ MODULE FwdScan ------------------------------
(***************************************************************************)
(* The forward scans of the engine (resharp-engine, scan.rs and ldfa.rs):  *)
(* given a position, they run the forward automaton over the input and     *)
(* return the end of the longest match that starts there.  The automaton   *)
(* is a cache: a scan stops at a transition that is not there yet, fills   *)
(* the row and goes on, and it jumps over bytes on which a state loops     *)
(* once the row of that state has been filled.  What it returns must       *)
(* depend on none of this.                                                 *)
(*                                                                         *)
(* Three scans are modelled: scan_fwd_optional, which tries one position,  *)
(* scan_fwd_all, which visits the starts the reverse scan reported, and    *)
(* scan_fwd_from after walk_input, which verifies the candidate of a       *)
(* literal prefix.  The first two share the loop scan_fwd, the third has   *)
(* a loop of its own, scan_fwd_verify.                                     *)
(*                                                                         *)
(* Of the automaton (module Ldfa) the scans need the transitions and where *)
(* a state accepts: center[s] is how far back the match ends that state s  *)
(* reports in the middle of the input (the smallest `rel` of its effects   *)
(* at CENTER), end[s] the same at the end of the input, NoRel for none.    *)
(***************************************************************************)
EXTENDS Matching

CONSTANTS
  Automata,         \* the automata to scan with
  Inputs,           \* the inputs, sequences of byte classes
  Calls             \* the operations called: "optional", "all", "from"

ASSUME FwdScanAssumption ==
  /\ Minterms \in Nat \ {0}
  /\ \A x \in Inputs : IsInput(x)
  /\ \A a \in Automata : WellFormed(a)
  /\ \A a \in Automata, x \in Inputs : EndsFollowStarts(a, x)

VARIABLES
  dfa,              \* the automaton
  filled,           \* the transitions present in center_table
  data,             \* the input of the current call
  op,               \* the current call
  pc,               \* where it is
  st,               \* l_state, curr
  pos,              \* l_pos, pos
  best,             \* max_end
  start,            \* where the match would start
  stop,             \* scan_fwd_from: where the walk of the prefix ends
  nulls,            \* scan_fwd_all: the starts the reverse scan reported
  nextStart,        \* scan_fwd_all: where the next match may start
  path,             \* the run of the automaton from start, for reference
  matches,          \* scan_fwd_all: the matches pushed
  ret               \* what the last call returned

vars == <<dfa, filled, data, op, pc, st, pos, best, start, stop, nulls, nextStart,
          path, matches, ret>>

State == DOMAIN dfa.delta
End == Len(data)
At(p) == Byte(data, p)

-----------------------------------------------------------------------------
(* The cache.  A row is filled cell by cell and the filling may fail at    *)
(* any missing cell; the searcher of a state is built once its row is      *)
(* complete.                                                               *)
Row(s) == {s} \X Minterm
Present(s, m) == <<s, m>> \in filled
Skipping(s) == s \in dfa.skips /\ Row(s) \subseteq filled

CreateState(s) == filled' = filled \cup Row(s)

CreateStateFails(s) ==
  \E k \in Minterm :
    /\ ~Present(s, k)
    /\ filled' = filled \cup {<<s, m>> : m \in 0 .. k - 1}

LazyTransition(s, m) == IF Present(s, m) THEN UNCHANGED filled ELSE CreateState(s)
LazyTransitionFails(s, m) == ~Present(s, m) /\ CreateStateFails(s)

Step(s, p) == dfa.delta[s][At(p)]

(* fwd_update and collect_max: the best end once state s is reached at p.  *)
Updated(rel, p, b) == IF rel = NoRel THEN b ELSE MaxOf(b, p - rel)
AtCenter(s, p, b) == Updated(dfa.center[s], p, b)
AtEnd(s, p, b) == Updated(dfa.end[s], p, b)
Collected(s, p, b) == IF p = End THEN AtEnd(s, p, b) ELSE AtCenter(s, p, b)

(* The byte a searcher stops at: the first one that leaves state s.        *)
Leaves(s) == {p \in pos .. End - 1 : Step(s, p) # s}
FirstLeaving(s) == CHOOSE p \in Leaves(s) : \A q \in Leaves(s) : p <= q

(* The position whose byte is read next.                                   *)
ReadAt == IF Skipping(st) THEN FirstLeaving(st) ELSE pos

SkipsAll == Skipping(st) /\ Leaves(st) = {}

-----------------------------------------------------------------------------
NoRet == [status |-> "none", end |-> NoMatch]

Init ==
  /\ dfa \in Automata
  /\ filled = {DEAD} \X Minterm
  /\ data = <<0>> /\ op = "none" /\ pc = "idle" /\ st = DEAD /\ pos = 0
  /\ best = NoMatch /\ start = 0 /\ stop = 0 /\ nulls = {} /\ nextStart = 0 /\ path = <<>>
  /\ matches = <<>> /\ ret = NoRet

Call(o, x, i, k) ==
  /\ pc = "idle" /\ o \in Calls
  /\ UNCHANGED <<dfa, filled, nextStart, matches, best, ret>>
  /\ op' = o /\ data' = x /\ start' = i /\ stop' = k
  /\ path' \in Runs(dfa, x, i)
  /\ nulls' = IF o = "all" THEN Nulls(dfa, x) ELSE {}
  /\ pc' = "enter" /\ st' = INITIAL /\ pos' = i

Goto(where, s, p, b) ==
  /\ pc' = where /\ st' = s /\ pos' = p /\ best' = b
  /\ UNCHANGED <<dfa, data, op, start, stop, nulls, nextStart, path, matches, ret>>

Return(status, b) ==
  /\ ret' = [status |-> status, end |-> b]
  /\ pc' = "done"
  /\ UNCHANGED <<dfa, data, op, st, pos, best, start, stop, nulls, nextStart, path, matches>>

(* The caller takes what the call returned; only the cache is left.        *)
Take ==
  /\ pc = "done"
  /\ data' = <<0>> /\ op' = "none" /\ pc' = "idle" /\ st' = DEAD /\ pos' = 0
  /\ best' = NoMatch /\ start' = 0 /\ stop' = 0 /\ nulls' = {} /\ nextStart' = 0 /\ path' = <<>>
  /\ matches' = <<>> /\ ret' = NoRet
  /\ UNCHANGED <<dfa, filled>>

-----------------------------------------------------------------------------
(* scan_fwd, one byte or one jump per step.  It returns at the end of the  *)
(* input, in the dead state, and at a transition that is missing.          *)
ScanDone ==
  /\ pc = "scan" /\ (pos = End \/ st = DEAD)
  /\ Goto("found", st, pos, IF pos = End THEN AtEnd(st, pos, best) ELSE best)
  /\ UNCHANGED filled

(* As a bug would have it: only the end of the input is looked at.         *)
ScanSkipsAllToEnd ==
  /\ pc = "scan" /\ pos < End /\ st # DEAD /\ SkipsAll
  /\ Goto("found", st, End, AtEnd(st, End, best))
  /\ UNCHANGED filled

ScanSkipsAll ==
  /\ pc = "scan" /\ pos < End /\ st # DEAD /\ SkipsAll
  /\ Goto("found", st, End, AtEnd(st, End, AtCenter(st, End - 1, best)))
  /\ UNCHANGED filled

(* As a bug would have it: a state that accepts is left without a look.    *)
ScanByteUncollected ==
  /\ pc = "scan" /\ pos < End /\ st # DEAD /\ ~SkipsAll
  /\ LET p == ReadAt
     IN IF Present(st, At(p))
        THEN Goto("scan", Step(st, p), p + 1, best)
        ELSE Goto("miss", st, p, best)
  /\ UNCHANGED filled

ScanByte ==
  /\ pc = "scan" /\ pos < End /\ st # DEAD /\ ~SkipsAll
  /\ LET p == ReadAt
         b == AtCenter(st, p, best)
     IN IF Present(st, At(p))
        THEN Goto("scan", Step(st, p), p + 1, b)
        ELSE Goto("miss", st, p, b)
  /\ UNCHANGED filled

-----------------------------------------------------------------------------
(* scan_fwd_optional.                                                      *)
OptionalAtEnd ==
  /\ pc = "enter" /\ op = "optional" /\ start = End
  /\ Return("ok", IF "end" \in dfa.initial THEN start ELSE NoMatch)
  /\ UNCHANGED filled

InitialBest ==
  IF (IF start = 0 THEN "begin" ELSE "center") \in dfa.initial THEN start ELSE NoMatch

(* The transition of the first byte, and what it reaches.                  *)
OptionalEnter ==
  /\ pc = "enter" /\ op = "optional" /\ start < End
  /\ LET m == At(start)
         s == IF start = 0 THEN dfa.begin[m] ELSE dfa.delta[dfa.pruned][m]
         b == Collected(s, start + 1, InitialBest)
     IN /\ IF start = 0 THEN UNCHANGED filled ELSE LazyTransition(dfa.pruned, m)
        /\ Goto(IF s = DEAD \/ start + 1 = End THEN "found" ELSE "scan", s, start + 1, b)

OptionalMiss ==
  /\ pc = "miss" /\ op = "optional"
  /\ CreateState(st)
  /\ LET s == Step(st, pos)
     IN Goto(IF s = DEAD THEN "found" ELSE "arrive", s, pos + 1, best)

OptionalArrive ==
  /\ pc = "arrive" /\ op = "optional"
  /\ CreateState(st)
  /\ Goto(IF pos = End THEN "found" ELSE "scan", st, pos, Collected(st, pos, best))

-----------------------------------------------------------------------------
(* scan_fwd_all.  The starts are visited in ascending order; one that lies *)
(* in the match before is passed over.                                     *)
AllEnter ==
  /\ pc = "enter" /\ op = "all"
  /\ IF 0 \in nulls
     THEN Goto("scan", dfa.begin[At(0)], 1, InitialBest)
     ELSE Goto("next", st, pos, best)
  /\ UNCHANGED filled

(* As a bug would have it: the end is not looked at after a last miss.     *)
AllMissUncollected ==
  /\ pc = "miss" /\ op = "all"
  /\ LazyTransition(st, At(pos))
  /\ Goto(IF pos + 1 # End THEN "scan" ELSE "found", Step(st, pos), pos + 1, best)

AllMiss ==
  /\ pc = "miss" /\ op = "all"
  /\ LazyTransition(st, At(pos))
  /\ LET s == Step(st, pos)
     IN IF pos + 1 # End
        THEN Goto("scan", s, pos + 1, best)
        ELSE Goto("found", s, pos + 1, AtEnd(s, pos + 1, best))

Push(i, e) == matches' = IF e = NoMatch THEN matches ELSE Append(matches, <<i, e>>)

(* As a bug would have it: an empty match is left out and tried again.     *)
AllFoundStuck ==
  /\ pc = "found" /\ op = "all"
  /\ IF best = start THEN UNCHANGED matches ELSE Push(start, best)
  /\ nextStart' = IF best = NoMatch THEN start + 1 ELSE best
  /\ pc' = "next"
  /\ UNCHANGED <<dfa, filled, data, op, st, pos, best, start, stop, nulls, path, ret>>

AllFound ==
  /\ pc = "found" /\ op = "all"
  /\ Push(start, best)
  /\ nextStart' = MaxOf(start + 1, best)
  /\ pc' = "next"
  /\ UNCHANGED <<dfa, filled, data, op, st, pos, best, start, stop, nulls, path, ret>>

AllNext ==
  /\ pc = "next"
  /\ \E i \in nulls :
       /\ i >= nextStart
       /\ \A j \in nulls : j >= nextStart => i <= j
       /\ IF i = End
          THEN /\ Push(i, i)
               /\ pc' = "done" /\ ret' = [status |-> "ok", end |-> NoMatch]
               /\ UNCHANGED <<st, pos, best, start, path>>
          ELSE /\ pc' = "scan" /\ st' = INITIAL /\ pos' = i /\ best' = NoMatch
               /\ start' = i /\ path' \in Runs(dfa, data, i)
               /\ UNCHANGED <<matches, ret>>
  /\ UNCHANGED <<dfa, filled, data, op, stop, nulls, nextStart>>

AllReturn ==
  /\ pc = "next" /\ \A i \in nulls : i < nextStart
  /\ Return("ok", NoMatch)
  /\ UNCHANGED filled

-----------------------------------------------------------------------------
(* walk_input and scan_fwd_from: a walk over the bytes of the prefix, then *)
(* the loop scan_fwd_verify.                                               *)
WalkEnter ==
  /\ pc = "enter" /\ op = "from"
  /\ IF start = 0 /\ stop > 0
     THEN Goto("walk", dfa.begin[At(0)], 1, best)
     ELSE Goto("walk", IF stop = start THEN INITIAL ELSE dfa.pruned, start, best)
  /\ UNCHANGED filled

WalkByte ==
  /\ pc = "walk" /\ pos < stop /\ st # DEAD
  /\ LazyTransition(st, At(pos))
  /\ Goto("walk", Step(st, pos), pos + 1, best)

WalkDead ==
  /\ pc = "walk" /\ st = DEAD
  /\ Goto("found", st, pos, best)
  /\ UNCHANGED filled

FromEnter ==
  /\ pc = "walk" /\ pos = stop /\ st # DEAD
  /\ Goto(IF pos = End THEN "found" ELSE "verify", st, pos, Collected(st, pos, best))
  /\ UNCHANGED filled

VerifyDone ==
  /\ pc = "verify" /\ (pos = End \/ st = DEAD)
  /\ Goto("found", st, pos, best)
  /\ UNCHANGED filled

(* The rest of the input is self loop: only its end is looked at.          *)
VerifySkipsAll ==
  /\ pc = "verify" /\ pos < End /\ st # DEAD /\ SkipsAll
  /\ Goto("found", st, End, AtEnd(st, End, best))
  /\ UNCHANGED filled

(* As a bug would have it: what a jump passes is not looked at.            *)
VerifyByteJumps ==
  /\ pc = "verify" /\ pos < End /\ st # DEAD /\ ~SkipsAll
  /\ LET p == ReadAt
         s == Step(st, p)
     IN IF Present(st, At(p))
        THEN Goto("verify", s, p + 1, Collected(s, p + 1, best))
        ELSE Goto("miss", st, p, best)
  /\ UNCHANGED filled

VerifyByte ==
  /\ pc = "verify" /\ pos < End /\ st # DEAD /\ ~SkipsAll
  /\ LET p == ReadAt
         b == IF p > pos THEN AtCenter(st, p, best) ELSE best
         s == Step(st, p)
     IN IF Present(st, At(p))
        THEN Goto("verify", s, p + 1, Collected(s, p + 1, b))
        ELSE Goto("miss", st, p, b)
  /\ UNCHANGED filled

FromMiss ==
  /\ pc = "miss" /\ op = "from"
  /\ LazyTransition(st, At(pos))
  /\ LET s == Step(st, pos)
     IN Goto(IF s = DEAD THEN "found" ELSE "arrive", s, pos + 1, best)

(* try_create ignores an error.                                            *)
FromArrive ==
  /\ pc = "arrive" /\ op = "from"
  /\ CreateState(st) \/ CreateStateFails(st)
  /\ Goto(IF pos = End THEN "found" ELSE "verify", st, pos, Collected(st, pos, best))

-----------------------------------------------------------------------------
Found ==
  /\ pc = "found" /\ op # "all"
  /\ Return("ok", best)
  /\ UNCHANGED filled

(* A row that cannot be filled ends the call.                              *)
CapacityExceeded ==
  /\ \/ pc = "miss" /\ CreateStateFails(st)
     \/ pc = "enter" /\ op = "optional" /\ 0 < start /\ start < End
        /\ LazyTransitionFails(dfa.pruned, At(start))
     \/ pc = "arrive" /\ op = "optional" /\ CreateStateFails(st)
     \/ pc = "walk" /\ pos < stop /\ st # DEAD /\ LazyTransitionFails(st, At(pos))
  /\ Return("error", NoMatch)

Work ==
  \/ ScanDone \/ ScanSkipsAll \/ ScanByte
  \/ OptionalAtEnd \/ OptionalEnter \/ OptionalMiss \/ OptionalArrive
  \/ AllEnter \/ AllMiss \/ AllFound \/ AllNext \/ AllReturn
  \/ WalkEnter \/ WalkByte \/ WalkDead \/ FromEnter
  \/ VerifyDone \/ VerifySkipsAll \/ VerifyByte \/ FromMiss \/ FromArrive
  \/ Found \/ CapacityExceeded \/ Take

Next ==
  \/ \E x \in Inputs :
       \/ \E i \in 0 .. Len(x) : Call("optional", x, i, i)
       \/ Call("all", x, 0, 0)
       \/ \E i \in 0 .. Len(x) : \E k \in i .. Len(x) : 0 < k /\ Call("from", x, i, k)
  \/ Work

Spec == Init /\ [][Next]_vars /\ WF_vars(Work)

-----------------------------------------------------------------------------
TypeOK ==
  /\ dfa \in AutomatonType(Len(dfa.delta))
  /\ filled \subseteq State \X Minterm
  /\ data \in Inputs \cup {<<0>>}
  /\ op \in Calls \cup {"none"}
  /\ pc \in {"idle", "enter", "walk", "scan", "verify", "miss", "arrive", "next",
            "found", "done"}
  /\ st \in State
  /\ pos \in 0 .. End
  /\ best \in 0 .. End \cup {NoMatch}
  /\ start \in 0 .. End /\ stop \in 0 .. End /\ nulls \subseteq 0 .. End
  /\ nextStart \in 0 .. End + 1
  /\ path = <<>> \/ path \in [start .. End -> State]
  /\ matches \in Seq((0 .. End) \X (0 .. End))
  /\ ret \in [status : {"none", "ok", "error"}, end : 0 .. End \cup {NoMatch}]

Returned(o) == pc = "done" /\ op = o /\ ret.status = "ok"

(* scan_fwd_optional returns the end of the longest match at its position, *)
(* whatever was in the cache, wherever the scan missed or jumped; none     *)
(* only if there is no match there.                                        *)
OptionalExact == Returned("optional") => ret.end = Longest(dfa, data, path, start)

(* scan_fwd_from returns the longest end reported from the end of the      *)
(* prefix on: "Matches are leftmost-longest" (docs/syntax.md).             *)
FromExact ==
  Returned("from") => ret.end = Longest(dfa, data, path, stop)

(* Regexes that accept at CENTER what they do at END.                      *)
AcceptsAlike == dfa.center = dfa.end

(* scan_fwd_from is exact on those, whatever it missed, skipped or failed  *)
(* to fill.                                                                *)
FromExactAlike == AcceptsAlike => FromExact

(* scan_fwd_all returns the leftmost-longest matches.                      *)
AllExact == Returned("all") => LeftmostLongest(dfa, data, matches)

(* Between two steps the state is the one the run reaches at this          *)
(* position, and max_end is the longest end reported on the way, that at   *)
(* the position itself not yet included or included already: no end is     *)
(* lost on a miss or a jump that a later step would have to find.          *)
BestUpTo(p0, p1) == LongestUpTo(dfa, data, path, p0, p1)

BestSoFar ==
  /\ pc \in {"scan", "miss"} /\ op # "from" =>
       /\ st = path[pos]
       /\ best \in {BestUpTo(start, pos - 1), BestUpTo(start, pos)}
  /\ pc \in {"verify", "miss"} /\ op = "from" =>
       /\ st = path[pos]
       /\ best = BestUpTo(stop, pos)

(* What holds at every step of the scans: the variables keep their types,  *)
(* and no end is lost between two steps.                                   *)
ScanInv == TypeOK /\ BestSoFar

(* Every call returns.                                                     *)
CallsReturn == (pc # "idle") ~> (pc = "done")
=============================================================================
