--------------------------- MODULE FwdScanProofs ---------------------------
(***************************************************************************)
(* FwdScan, for every automaton, input, number of byte classes and         *)
(* sequence of calls.                                                      *)
(***************************************************************************)
EXTENDS FwdScan, MatchingProofs

-----------------------------------------------------------------------------
(* The inductive invariant.  A step of a scan goes somewhere with a state, *)
(* a position and the longest end so far: for each place, which positions  *)
(* that end accounts for.                                                  *)
LongestFound(e, p0, p1) == IsLongest(e, dfa, data, path, p0, p1)

Walking(s, p, b) ==
  /\ op = "from" /\ b = NoMatch
  /\ 0 < p /\ start <= p /\ p <= stop
  /\ \/ s = path[p]
     \/ s = dfa.pruned /\ p = start /\ p < stop

Scanning(s, p, b) ==
  /\ op \in {"optional", "all"}
  /\ 0 < p /\ start <= p /\ s = path[p]
  /\ LongestFound(b, start, p - 1) \/ LongestFound(b, start, p)

Verifying(s, p, b) ==
  op = "from" /\ stop <= p /\ s = path[p] /\ LongestFound(b, stop, p)

(* A missing transition: the end at this position is included already.     *)
Missing(s, p, b) ==
  /\ 0 < p /\ start <= p /\ p < End /\ s = path[p]
  /\ op # "from" => LongestFound(b, start, p)
  /\ op = "from" => stop <= p /\ LongestFound(b, stop, p)

(* After it: the end at the next position is not.                          *)
Arriving(s, p, b) ==
  /\ start < p /\ s = path[p]
  /\ op \in {"optional", "from"}
  /\ op = "optional" => LongestFound(b, start, p - 1)
  /\ op = "from" => stop < p /\ LongestFound(b, stop, p - 1)

Finding(b) ==
  /\ op # "from" => LongestFound(b, start, End)
  /\ op = "from" /\ AcceptsAlike => LongestFound(b, stop, End)

Place(w, s, p, b) ==
  /\ w = "walk" => Walking(s, p, b)
  /\ w = "scan" => Scanning(s, p, b)
  /\ w = "verify" => Verifying(s, p, b)
  /\ w = "miss" => Missing(s, p, b)
  /\ w = "arrive" => Arriving(s, p, b)
  /\ w = "found" => Finding(b)
  /\ w = "next" => op = "all"

Given ==
  /\ dfa \in Automata
  /\ pc = "idle" <=> op = "none"
  /\ pc = "idle" => best = NoMatch /\ matches = <<>> /\ nextStart = 0 /\ ret = NoRet
  /\ pc # "idle" => data \in Inputs /\ path \in Runs(dfa, data, start)
  /\ op = "from" => start <= stop /\ 0 < stop
  /\ pc = "enter" => /\ st = INITIAL /\ pos = start /\ best = NoMatch
                     /\ matches = <<>> /\ nextStart = 0
                     /\ op = "all" => start = 0

AnswerOK == (Returned("optional") \/ Returned("from")) => Finding(ret.end)

(* scan_fwd_all: what was pushed is right so far, and start is the first   *)
(* one after it.                                                           *)
Listed ==
  \A k \in 1 .. Len(matches) :
    /\ matches[k][1] \in nulls
    /\ matches[k][1] >= StartsAfter(matches, k - 1)
    /\ \A i \in nulls : i >= StartsAfter(matches, k - 1) => matches[k][1] <= i
    /\ \A r \in Runs(dfa, data, matches[k][1]) : matches[k][2] = Longest(dfa, data, r, matches[k][1])

Starting ==
  /\ start \in nulls /\ start >= nextStart
  /\ \A i \in nulls : i >= nextStart => start <= i

Visits ==
  op = "all" =>
    /\ nulls = Nulls(dfa, data)
    /\ Listed
    /\ pc # "done" => nextStart = StartsAfter(matches, Len(matches))
    /\ pc \in {"scan", "miss", "found"} => Starting
    /\ pc = "next" /\ nextStart = 0 => 0 \notin nulls
    /\ pc = "done" /\ ret.status = "ok" => \A i \in nulls : i < StartsAfter(matches, Len(matches))

IInv == TypeOK /\ Given /\ Place(pc, st, pos, best) /\ AnswerOK /\ Visits

-----------------------------------------------------------------------------
(* What a call may rely on.                                                *)
LEMMA Setting ==
  ASSUME TypeOK, Given, pc # "idle"
  PROVE  /\ WellFormed(dfa) /\ IsInput(data) /\ EndsFollowStarts(dfa, data)
         /\ End \in Nat \ {0} /\ start \in 0 .. End
         /\ path \in Runs(dfa, data, start)
         /\ path \in RunsFrom(dfa, data, start, INITIAL)
         /\ path \in [start .. End -> State] /\ path[start] = INITIAL
         /\ INITIAL \in State /\ DEAD \in State /\ dfa.pruned \in State
         /\ dfa.pruned # DEAD
         /\ \A p \in 0 .. End - 1 : At(p) \in Minterm
<1>1. /\ WellFormed(dfa) /\ IsInput(data) /\ EndsFollowStarts(dfa, data)
      /\ path \in RunsFrom(dfa, data, start, INITIAL)
  BY FwdScanAssumption DEF Given, Runs
<1>2. End \in Nat \ {0} /\ start \in 0 .. End
  BY <1>1 DEF TypeOK, IsInput, End
<1>3. path \in [start .. End -> 1 .. Len(dfa.delta)] /\ path[start] = INITIAL
      /\ State = 1 .. Len(dfa.delta)
  BY <1>1, <1>2, RunSteps DEF End, State
<1>4. Len(dfa.delta) \in Nat /\ Len(dfa.delta) >= 2 /\ dfa.pruned \in 2 .. Len(dfa.delta)
  BY <1>1, <1>2, RunSteps DEF WellFormed, AutomatonType, End
<1>5. \A p \in 0 .. End - 1 : At(p) \in Minterm
  BY <1>1, <1>2 DEF At, Byte, IsInput, End
<1> QED
  BY <1>1, <1>2, <1>3, <1>4, <1>5 DEF Runs, INITIAL, DEAD

(* One step of the run, from a position that is not the first of the input.*)
LEMMA RunStep ==
  ASSUME TypeOK, Given, pc # "idle", NEW p \in start .. End - 1, p > 0
  PROVE  Step(path[p], p) = path[p + 1] /\ Step(path[p], p) \in State
<1>1. /\ WellFormed(dfa) /\ IsInput(data) /\ path \in RunsFrom(dfa, data, start, INITIAL)
      /\ End \in Nat /\ start \in 0 .. End /\ path \in [start .. End -> State]
  BY Setting
<1>2. path[p + 1] = dfa.delta[path[p]][Byte(data, p)]
  BY <1>1, RunSteps DEF End
<1>3. path[p + 1] \in State
  BY <1>1
<1> QED
  BY <1>2, <1>3 DEF Step, At

(* Looking at a state of the run is looking at the end it reports.         *)
LEMMA Looks ==
  ASSUME TypeOK, Given, pc # "idle", NEW p \in start .. End, p > 0, NEW b
  PROVE  /\ Collected(path[p], p, b) = EndAt(dfa, data, path, p, b)
         /\ p < End => AtCenter(path[p], p, b) = EndAt(dfa, data, path, p, b)
         /\ p = End => AtEnd(path[p], p, b) = EndAt(dfa, data, path, p, b)
<1>1. End \in Nat /\ start \in 0 .. End
  BY Setting
<1> QED
  BY <1>1 DEF Collected, AtCenter, AtEnd, Updated, EndAt, RelAt, End

(* LongestStep and its like, for the run of the call.                      *)
LEMMA LongestType ==
  ASSUME TypeOK, Given, pc # "idle", NEW p0 \in start .. End, NEW p1 \in Int, p1 <= End,
         NEW b, LongestFound(b, p0, p1)
  PROVE  b = BestUpTo(p0, p1) /\ b \in 0 .. End \cup {NoMatch}
<1>1. /\ WellFormed(dfa) /\ IsInput(data) /\ EndsFollowStarts(dfa, data)
      /\ End \in Nat /\ start \in 0 .. End /\ path \in Runs(dfa, data, start)
  BY Setting
<1>2. /\ LongestUpTo(dfa, data, path, p0, p1) = b
      /\ b \in start .. Len(data) \cup {NoMatch}
  BY <1>1, LongestDefined DEF LongestFound, End
<1> QED
  BY <1>1, <1>2 DEF BestUpTo, End

LEMMA Looked ==
  ASSUME TypeOK, Given, pc # "idle", NEW p0 \in start .. End, NEW p \in p0 .. End, NEW b,
         LongestFound(b, p0, p - 1) \/ LongestFound(b, p0, p)
  PROVE  /\ LongestFound(EndAt(dfa, data, path, p, b), p0, p)
         /\ p > 0 => LongestFound(Collected(path[p], p, b), p0, p)
         /\ p > 0 /\ p < End => LongestFound(AtCenter(path[p], p, b), p0, p)
         /\ p > 0 /\ p = End => LongestFound(AtEnd(path[p], p, b), p0, p)
<1>1. /\ WellFormed(dfa) /\ IsInput(data) /\ EndsFollowStarts(dfa, data)
      /\ End \in Nat /\ start \in 0 .. End /\ path \in Runs(dfa, data, start)
  BY Setting
<1>2. LongestFound(EndAt(dfa, data, path, p, b), p0, p)
  BY <1>1, LongestStep DEF LongestFound, End
<1> QED
  BY <1>1, <1>2, Looks

LEMMA NothingYet ==
  ASSUME NEW p0 \in Nat
  PROVE  LongestFound(NoMatch, p0, p0 - 1)
  BY LongestEmpty DEF LongestFound

LEMMA NothingMore ==
  ASSUME TypeOK, Given, pc # "idle", NEW p0 \in start .. End, NEW p \in p0 .. End, p > 0,
         path[p] = DEAD, NEW b, LongestFound(b, p0, p - 1) \/ LongestFound(b, p0, p)
  PROVE  LongestFound(b, p0, End)
<1>1. /\ WellFormed(dfa) /\ IsInput(data)
      /\ path \in RunsFrom(dfa, data, start, INITIAL) /\ start \in 0 .. End
  BY Setting
<1> QED
  BY <1>1, LongestDead DEF LongestFound, End

-----------------------------------------------------------------------------
(* Jumps.                                                                  *)
LEMMA JumpToEnd ==
  ASSUME TypeOK, Given, pc # "idle", start <= pos, 0 < pos, pos < End, st = path[pos],
         Leaves(st) = {}
  PROVE  \A k \in pos .. End : path[k] = st
<1>1. /\ WellFormed(dfa) /\ IsInput(data) /\ path \in RunsFrom(dfa, data, start, INITIAL)
      /\ End \in Nat /\ start \in 0 .. End
  BY Setting
<1>2. pos \in start .. End /\ End \in pos .. End
  BY <1>1 DEF TypeOK
<1>3. \A k \in pos .. End - 1 : Step(st, k) = st
  BY DEF Leaves
<1>4. \A k \in pos .. End - 1 : dfa.delta[path[pos]][Byte(data, k)] = path[pos]
  BY <1>3 DEF Step, At
<1> QED
  BY <1>1, <1>2, <1>4, RunLoops DEF End

LEMMA JumpToByte ==
  ASSUME TypeOK, Given, pc # "idle", start <= pos, 0 < pos, pos < End, st = path[pos],
         Leaves(st) # {}
  PROVE  /\ FirstLeaving(st) \in pos .. End - 1
         /\ \A k \in pos .. FirstLeaving(st) : path[k] = st
<1>1. /\ WellFormed(dfa) /\ IsInput(data) /\ path \in RunsFrom(dfa, data, start, INITIAL)
      /\ End \in Nat /\ start \in 0 .. End
  BY Setting
<1>2. Leaves(st) \subseteq pos .. End - 1 /\ pos \in Nat /\ pos \in start .. End
  BY <1>1 DEF Leaves, TypeOK
<1>3. Leaves(st) \in SUBSET Nat
  BY <1>2
<1>4. \E p \in Leaves(st) : \A q \in Leaves(st) : p <= q
  BY <1>3, FirstPosition
<1>5. FirstLeaving(st) \in Leaves(st) /\ \A q \in Leaves(st) : FirstLeaving(st) <= q
  BY <1>4 DEF FirstLeaving
<1>6. FirstLeaving(st) \in pos .. End - 1
  BY <1>2, <1>5
<1>7. \A k \in pos .. FirstLeaving(st) - 1 : k \in pos .. End - 1 /\ ~ (FirstLeaving(st) <= k)
  BY <1>1, <1>2, <1>6
<1>8. \A k \in pos .. FirstLeaving(st) - 1 : Step(st, k) = st
  BY <1>5, <1>7 DEF Leaves
<1>9. \A k \in pos .. FirstLeaving(st) - 1 : dfa.delta[path[pos]][Byte(data, k)] = path[pos]
  BY <1>8 DEF Step, At
<1>10. PICK q \in pos .. Len(data) : q = FirstLeaving(st)
  BY <1>1, <1>2, <1>6 DEF End
<1>11. \A k \in pos .. q - 1 : dfa.delta[path[pos]][Byte(data, k)] = path[pos]
  BY <1>9, <1>10
<1>12. \A k \in pos .. q : path[k] = path[pos]
  BY <1>1, <1>2, <1>11, RunLoops DEF End
<1> QED
  BY <1>6, <1>10, <1>12

LEMMA ReadAtReached ==
  ASSUME TypeOK, Given, pc # "idle", start <= pos, 0 < pos, pos < End, st = path[pos],
         ~SkipsAll
  PROVE  /\ ReadAt \in pos .. End - 1
         /\ \A k \in pos .. ReadAt : path[k] = st
<1>1. End \in Nat /\ pos \in Nat
  BY Setting DEF TypeOK
<1>2. CASE Skipping(st)
  BY <1>2, JumpToByte DEF SkipsAll, ReadAt
<1>3. CASE ~Skipping(st)
  BY <1>1, <1>3 DEF ReadAt
<1> QED
  BY <1>2, <1>3

(* What the positions of a jump report.                                    *)
LEMMA LookedBack ==
  ASSUME TypeOK, Given, pc # "idle", NEW p0 \in start .. End, p0 <= pos, 0 < pos,
         NEW q \in pos .. End - 1, \A k \in pos .. q : path[k] = st, NEW b,
         LongestFound(b, p0, pos - 1) \/ LongestFound(b, p0, pos)
  PROVE  LongestFound(AtCenter(st, q, b), p0, q)
<1>1. /\ WellFormed(dfa) /\ IsInput(data) /\ EndsFollowStarts(dfa, data)
      /\ End \in Nat /\ start \in 0 .. End /\ path \in Runs(dfa, data, start)
  BY Setting
<1>2. pos \in p0 .. End /\ q \in start .. End /\ q > 0 /\ q < End /\ pos \in pos .. q
  BY <1>1 DEF TypeOK
<1>3. \A k \in pos .. q : path[k] = path[pos]
  BY <1>2
<1>4. LongestFound(EndAt(dfa, data, path, q, b), p0, q)
  BY <1>1, <1>2, <1>3, LongestLoop DEF LongestFound, End
<1>5. path[q] = st
  BY <1>1, <1>2
<1> QED
  BY <1>2, <1>4, <1>5, Looks

LEMMA LookType ==
  ASSUME TypeOK, Given, pc # "idle", NEW p \in start .. End, p > 0,
         NEW b \in 0 .. End \cup {NoMatch}
  PROVE  Collected(path[p], p, b) \in 0 .. End \cup {NoMatch}
<1>1. /\ WellFormed(dfa) /\ IsInput(data) /\ EndsFollowStarts(dfa, data)
      /\ End \in Nat /\ start \in 0 .. End /\ path \in Runs(dfa, data, start)
      /\ path \in RunsFrom(dfa, data, start, INITIAL)
  BY Setting
<1>2. RelAt(dfa, data, path, p) \in Nat \cup {NoRel}
  BY <1>1, RelType DEF End
<1>3. RelAt(dfa, data, path, p) <= p - start
  BY <1>1 DEF EndsFollowStarts, End
<1>4. EndAt(dfa, data, path, p, b) \in 0 .. End \cup {NoMatch}
  BY <1>1, <1>2, <1>3 DEF EndAt, MaxOf, NoMatch, NoRel
<1> QED
  BY <1>4, Looks

-----------------------------------------------------------------------------
(* Steps.  Most go to another place of the same call.                      *)
LEMMA Filling ==
  ASSUME TypeOK, NEW s \in State
  PROVE  /\ UNCHANGED filled => filled' \subseteq State \X Minterm
         /\ CreateState(s) => filled' \subseteq State \X Minterm
         /\ CreateStateFails(s) => filled' \subseteq State \X Minterm
<1>1. filled \subseteq State \X Minterm /\ Row(s) \subseteq State \X Minterm
  BY DEF TypeOK, Row
<1>2. \A k \in Minterm : {<<s, m>> : m \in 0 .. k - 1} \subseteq State \X Minterm
  BY FwdScanAssumption DEF Minterm
<1> QED
  BY <1>1, <1>2 DEF CreateState, CreateStateFails

LEMMA GotoKeeps ==
  ASSUME IInv, pc # "idle", pc # "done",
         NEW w \in {"walk", "scan", "verify", "miss", "arrive", "found", "next"},
         NEW s \in State, NEW p \in 0 .. End, NEW b \in 0 .. End \cup {NoMatch},
         Goto(w, s, p, b), filled' \subseteq State \X Minterm, Place(w, s, p, b),
         op = "all" => (w = "next" /\ 0 \notin nulls) \/ (w # "next" /\ Starting)
  PROVE  IInv'
<1>1. TypeOK'
  BY DEF IInv, TypeOK, Goto, State, End
<1>2. Given'
  BY DEF IInv, Given, Goto
<1>3. Place(pc, st, pos, best)'
  BY DEF Goto, Place, Walking, Scanning, Verifying, Missing, Arriving, Finding, LongestFound,
         AcceptsAlike, End
<1>4. AnswerOK'
  BY DEF Goto, AnswerOK, Returned
<1>5. Visits'
  BY DEF IInv, Visits, Listed, Starting, Goto
<1> QED
  BY <1>1, <1>2, <1>3, <1>4, <1>5 DEF IInv

LEMMA FoundKeeps ==
  ASSUME IInv, pc # "idle", pc # "done", NEW s \in State, NEW p \in 0 .. End,
         NEW b \in 0 .. End \cup {NoMatch}, Goto("found", s, p, b),
         filled' \subseteq State \X Minterm, Finding(b), op = "all" => Starting
  PROVE  IInv'
<1>1. Place("found", s, p, b)
  BY DEF Place
<1> QED
  BY <1>1, GotoKeeps

LEMMA ReturnKeeps ==
  ASSUME IInv, pc # "idle", NEW status \in {"ok", "error"},
         NEW b \in 0 .. End \cup {NoMatch},
         Return(status, b), filled' \subseteq State \X Minterm,
         status = "ok" /\ op # "all" => Finding(b),
         status = "ok" /\ op = "all" => \A i \in nulls : i < StartsAfter(matches, Len(matches))
  PROVE  IInv'
<1>1. TypeOK'
  BY DEF IInv, TypeOK, Return, State, End
<1>2. Given'
  BY DEF IInv, Given, Return
<1>3. Place(pc, st, pos, best)'
  BY DEF Return, Place
<1>4. AnswerOK'
  BY DEF Return, AnswerOK, Returned, Finding, LongestFound, AcceptsAlike, End
<1>5. Visits'
  BY DEF IInv, Visits, Listed, Starting, Return
<1> QED
  BY <1>1, <1>2, <1>3, <1>4, <1>5 DEF IInv

-----------------------------------------------------------------------------
(* scan_fwd.                                                               *)
LEMMA InScan ==
  ASSUME IInv, pc = "scan"
  PROVE  /\ op \in {"optional", "all"} /\ 0 < pos /\ start <= pos /\ st = path[pos]
         /\ LongestFound(best, start, pos - 1) \/ LongestFound(best, start, pos)
         /\ End \in Nat /\ start \in 0 .. End /\ pos \in start .. End
         /\ st \in State /\ best \in 0 .. End \cup {NoMatch}
         /\ op = "all" => Starting
         /\ filled \subseteq State \X Minterm
  BY Setting DEF IInv, Place, Scanning, Visits, TypeOK

LEMMA ScanDoneKeeps == ASSUME IInv, ScanDone PROVE IInv'
<1> USE InScan DEF ScanDone
<1> DEFINE b == IF pos = End THEN AtEnd(st, pos, best) ELSE best
<1>1. TypeOK /\ Given /\ pc # "idle" /\ pc # "done" /\ pos \in 0 .. End
  BY DEF IInv, TypeOK
<1>2. LongestFound(b, start, End)
  <2>1. CASE pos = End
    BY <1>1, <2>1, Looked
  <2>2. CASE pos # End
    BY <1>1, <2>2, NothingMore
  <2> QED
    BY <2>1, <2>2
<1>3. b \in 0 .. End \cup {NoMatch}
  BY <1>1, <1>2, LongestType
<1>4. Goto("found", st, pos, b) /\ Finding(b) /\ UNCHANGED filled
  BY <1>2 DEF Finding
<1> HIDE DEF b
<1> QED
  BY <1>1, <1>3, <1>4, FoundKeeps

LEMMA ScanSkipsAllKeeps == ASSUME IInv, ScanSkipsAll PROVE IInv'
<1> USE InScan DEF ScanSkipsAll
<1> DEFINE c == AtCenter(st, End - 1, best)
           b == AtEnd(st, End, c)
<1>1. TypeOK /\ Given /\ pc # "idle" /\ pc # "done" /\ End \in 0 .. End
  BY DEF IInv
<1>2. \A k \in pos .. End : path[k] = st
  BY <1>1, JumpToEnd DEF SkipsAll
<1>3. End - 1 \in pos .. End - 1 /\ \A k \in pos .. End - 1 : path[k] = st
  BY <1>2
<1>4. LongestFound(c, start, End - 1)
  BY <1>1, <1>3, LookedBack
<1>5. st = path[End]
  BY <1>2
<1>6. LongestFound(b, start, End)
  BY <1>1, <1>4, <1>5, Looked
<1>7. b \in 0 .. End \cup {NoMatch}
  BY <1>1, <1>6, LongestType
<1>8. Goto("found", st, End, b) /\ Finding(b) /\ UNCHANGED filled
  BY <1>6 DEF Finding
<1> HIDE DEF b
<1> QED
  BY <1>1, <1>7, <1>8, FoundKeeps

LEMMA ScanByteKeeps == ASSUME IInv, ScanByte PROVE IInv'
<1> USE InScan DEF ScanByte
<1> DEFINE p == ReadAt
           b == AtCenter(st, p, best)
<1>1. TypeOK /\ Given /\ pc # "idle"
  BY DEF IInv
<1>2. p \in pos .. End - 1 /\ \A k \in pos .. p : path[k] = st
  BY <1>1, ReadAtReached
<1>3. LongestFound(b, start, p)
  BY <1>1, <1>2, LookedBack
<1>4. b \in 0 .. End \cup {NoMatch}
  BY <1>1, <1>2, <1>3, LongestType
<1>5. path[p] = st /\ p \in start .. End - 1 /\ p > 0 /\ p + 1 \in 0 .. End /\ p \in 0 .. End
  BY <1>2
<1>6. Step(st, p) = path[p + 1] /\ Step(st, p) \in State
  BY <1>1, <1>5, RunStep
<1>7. UNCHANGED filled
  OBVIOUS
<1> HIDE DEF p, b
<1>8. (p + 1) - 1 = p
  BY <1>5
<1>9. CASE Goto("scan", Step(st, p), p + 1, b)
  <2>1. Scanning(Step(st, p), p + 1, b)
    BY <1>3, <1>5, <1>6, <1>8 DEF Scanning
  <2> QED
    BY <1>1, <1>4, <1>5, <1>6, <1>7, <1>9, <2>1, GotoKeeps DEF Place
<1>10. CASE Goto("miss", st, p, b)
  <2>1. Missing(st, p, b)
    BY <1>3, <1>5 DEF Missing
  <2> QED
    BY <1>1, <1>4, <1>5, <1>7, <1>10, <2>1, GotoKeeps DEF Place
<1> QED
  BY <1>9, <1>10 DEF p, b

-----------------------------------------------------------------------------
(* scan_fwd_optional.                                                      *)
LEMMA OptionalAtEndKeeps == ASSUME IInv, OptionalAtEnd PROVE IInv'
<1> USE DEF OptionalAtEnd
<1> DEFINE b == IF "end" \in dfa.initial THEN start ELSE NoMatch
<1>1. TypeOK /\ Given /\ pc # "idle"
  BY DEF IInv
<1>2. End \in Nat \ {0} /\ path[End] = INITIAL /\ WellFormed(dfa)
  BY <1>1, Setting
<1>3. b = EndAt(dfa, data, path, End, NoMatch)
  BY <1>2 DEF EndAt, RelAt, WellFormed, MaxOf, NoMatch, NoRel, End
<1>4. LongestFound(NoMatch, start, End - 1)
  BY <1>2, NothingYet
<1>5. LongestFound(b, start, End)
  BY <1>1, <1>2, <1>3, <1>4, Looked
<1>6. b \in 0 .. End \cup {NoMatch}
  BY <1>2
<1> QED
  BY <1>1, <1>5, <1>6, ReturnKeeps DEF Finding, TypeOK

(* The first end, that of the empty match.                                 *)
LEMMA InitialLooked ==
  ASSUME TypeOK, Given, pc # "idle", start < End
  PROVE  LongestFound(InitialBest, start, start) /\ InitialBest \in 0 .. End \cup {NoMatch}
<1>1. End \in Nat \ {0} /\ start \in 0 .. End /\ path[start] = INITIAL /\ WellFormed(dfa)
  BY Setting
<1>2. InitialBest = EndAt(dfa, data, path, start, NoMatch)
  BY <1>1 DEF InitialBest, EndAt, RelAt, WellFormed, MaxOf, NoMatch, NoRel, End
<1>3. LongestFound(NoMatch, start, start - 1)
  BY <1>1, NothingYet
<1> QED
  BY <1>1, <1>2, <1>3, Looked, LongestType DEF InitialBest

(* The step of the first byte, from the initial or the pruned state.       *)
LEMMA FirstStep ==
  ASSUME TypeOK, Given, pc # "idle", start < End
  PROVE  /\ start = 0 => dfa.begin[At(start)] = path[1]
         /\ start > 0 => /\ dfa.delta[dfa.pruned][At(start)] = path[start + 1]
                         /\ dfa.delta[INITIAL][At(start)] = path[start + 1]
         /\ path[start + 1] \in State
<1>1. /\ WellFormed(dfa) /\ IsInput(data) /\ path \in RunsFrom(dfa, data, start, INITIAL)
      /\ End \in Nat \ {0} /\ start \in 0 .. End /\ path[start] = INITIAL
      /\ path \in [start .. End -> State]
  BY Setting
<1>2. start = 0 => path[1] = dfa.begin[At(0)]
  BY <1>1, RunSteps DEF At, End
<1>3. start > 0 => path[start + 1] = Step(path[start], start)
  BY <1>1, RunStep
<1>4. dfa.delta[dfa.pruned] = dfa.delta[INITIAL]
  BY <1>1 DEF WellFormed
<1>5. start + 1 \in start .. End
  BY <1>1
<1> QED
  BY <1>1, <1>2, <1>3, <1>4, <1>5 DEF Step

LEMMA OptionalEnterKeeps == ASSUME IInv, OptionalEnter PROVE IInv'
<1> USE DEF OptionalEnter
<1> DEFINE m == At(start)
           s == IF start = 0 THEN dfa.begin[m] ELSE dfa.delta[dfa.pruned][m]
           b == Collected(s, start + 1, InitialBest)
<1>1. TypeOK /\ Given /\ pc # "idle" /\ pc # "done" /\ op = "optional"
  BY DEF IInv
<1>2. End \in Nat \ {0} /\ start \in 0 .. End /\ start < End /\ dfa.pruned \in State
  BY <1>1, Setting
<1>3. s = path[start + 1] /\ s \in State
  BY <1>1, <1>2, FirstStep
<1>4. start + 1 \in start .. End /\ start + 1 \in 0 .. End /\ start + 1 > 0 /\ (start + 1) - 1 = start
  BY <1>2
<1>5. LongestFound(b, start, start + 1)
  BY <1>1, <1>2, <1>3, <1>4, InitialLooked, Looked
<1>6. b \in 0 .. End \cup {NoMatch}
  BY <1>1, <1>2, <1>4, <1>5, LongestType
<1>7. filled' \subseteq State \X Minterm
  BY <1>1, <1>2, Filling DEF LazyTransition
<1>8. Goto(IF s = DEAD \/ start + 1 = End THEN "found" ELSE "scan", s, start + 1, b)
  OBVIOUS
<1> HIDE DEF s, b
<1>9. CASE s = DEAD \/ start + 1 = End
  <2>1. LongestFound(b, start, End)
    BY <1>1, <1>2, <1>3, <1>4, <1>5, <1>9, NothingMore
  <2> QED
    BY <1>1, <1>3, <1>4, <1>6, <1>7, <1>8, <1>9, <2>1, FoundKeeps DEF Finding
<1>10. CASE ~ (s = DEAD \/ start + 1 = End)
  <2>1. Scanning(s, start + 1, b)
    BY <1>1, <1>2, <1>3, <1>4, <1>5 DEF Scanning
  <2>2. Goto("scan", s, start + 1, b) /\ Place("scan", s, start + 1, b)
    BY <1>8, <1>10, <2>1 DEF Place
  <2> QED
    BY <1>1, <1>3, <1>4, <1>6, <1>7, <2>2, GotoKeeps
<1> QED
  BY <1>9, <1>10

LEMMA OptionalMissKeeps == ASSUME IInv, OptionalMiss PROVE IInv'
<1> USE DEF OptionalMiss
<1> DEFINE s == Step(st, pos)
<1>1. TypeOK /\ Given /\ pc # "idle" /\ pc # "done" /\ op = "optional" /\ Missing(st, pos, best)
  BY DEF IInv, Place
<1>2. /\ End \in Nat /\ start \in 0 .. End /\ pos \in start .. End - 1 /\ pos > 0
      /\ st = path[pos] /\ LongestFound(best, start, pos)
      /\ st \in State /\ best \in 0 .. End \cup {NoMatch}
  BY <1>1, Setting DEF Missing, TypeOK
<1>3. s = path[pos + 1] /\ s \in State
  BY <1>1, <1>2, RunStep
<1>4. filled' \subseteq State \X Minterm
  BY <1>1, <1>2, Filling
<1>5. pos + 1 \in start .. End /\ pos + 1 \in 0 .. End /\ pos + 1 > 0 /\ (pos + 1) - 1 = pos
  BY <1>2
<1>6. Goto(IF s = DEAD THEN "found" ELSE "arrive", s, pos + 1, best)
  OBVIOUS
<1> HIDE DEF s
<1>7. CASE s = DEAD
  <2>1. path[pos + 1] = DEAD /\ LongestFound(best, start, (pos + 1) - 1)
    BY <1>2, <1>3, <1>5, <1>7
  <2>2. LongestFound(best, start, End)
    BY <1>1, <1>2, <1>5, <2>1, NothingMore
  <2> QED
    BY <1>1, <1>2, <1>3, <1>4, <1>5, <1>6, <1>7, <2>2, FoundKeeps DEF Finding
<1>8. CASE s # DEAD
  <2>1. Arriving(s, pos + 1, best)
    BY <1>1, <1>2, <1>3, <1>5 DEF Arriving
  <2>2. Goto("arrive", s, pos + 1, best) /\ Place("arrive", s, pos + 1, best)
    BY <1>6, <1>8, <2>1 DEF Place
  <2> QED
    BY <1>1, <1>2, <1>3, <1>4, <1>5, <2>2, GotoKeeps
<1> QED
  BY <1>7, <1>8

LEMMA OptionalArriveKeeps == ASSUME IInv, OptionalArrive PROVE IInv'
<1> USE DEF OptionalArrive
<1> DEFINE b == Collected(st, pos, best)
<1>1. TypeOK /\ Given /\ pc # "idle" /\ pc # "done" /\ op = "optional" /\ Arriving(st, pos, best)
  BY DEF IInv, Place
<1>2. /\ End \in Nat /\ start \in 0 .. End /\ pos \in start .. End /\ pos \in 0 .. End
      /\ pos > 0 /\ st = path[pos] /\ LongestFound(best, start, pos - 1) /\ st \in State
  BY <1>1, Setting DEF Arriving, TypeOK
<1>3. LongestFound(b, start, pos)
  BY <1>1, <1>2, Looked
<1>4. b \in 0 .. End \cup {NoMatch}
  BY <1>1, <1>2, <1>3, LongestType
<1>5. filled' \subseteq State \X Minterm
  BY <1>1, <1>2, Filling
<1>6. Goto(IF pos = End THEN "found" ELSE "scan", st, pos, b)
  OBVIOUS
<1> HIDE DEF b
<1>7. CASE pos = End
  BY <1>1, <1>2, <1>3, <1>4, <1>5, <1>6, <1>7, FoundKeeps DEF Finding
<1>8. CASE pos # End
  <2>1. Scanning(st, pos, b)
    BY <1>1, <1>2, <1>3 DEF Scanning
  <2>2. Goto("scan", st, pos, b) /\ Place("scan", st, pos, b)
    BY <1>6, <1>8, <2>1 DEF Place
  <2> QED
    BY <1>1, <1>2, <1>4, <1>5, <2>2, GotoKeeps
<1> QED
  BY <1>7, <1>8

-----------------------------------------------------------------------------
(* scan_fwd_all.                                                           *)
LEMMA AllEnterKeeps == ASSUME IInv, AllEnter PROVE IInv'
<1> USE DEF AllEnter
<1>1. TypeOK /\ Given /\ pc # "idle" /\ pc # "done" /\ op = "all"
  BY DEF IInv
<1>2. /\ End \in Nat \ {0} /\ start = 0 /\ start < End /\ nextStart = 0
      /\ pos \in 0 .. End /\ st \in State /\ best \in 0 .. End \cup {NoMatch}
      /\ nulls \subseteq 0 .. End /\ filled \subseteq State \X Minterm /\ UNCHANGED filled
  BY <1>1, Setting DEF Given, TypeOK
<1>3. CASE 0 \in nulls
  <2>1. dfa.begin[At(0)] = path[1] /\ dfa.begin[At(0)] \in State
    BY <1>1, <1>2, FirstStep
  <2>2. LongestFound(InitialBest, start, 0) /\ InitialBest \in 0 .. End \cup {NoMatch}
    BY <1>1, <1>2, InitialLooked
  <2>3. Scanning(dfa.begin[At(0)], 1, InitialBest)
    BY <1>1, <1>2, <2>1, <2>2 DEF Scanning
  <2>4. Starting
    BY <1>2, <1>3 DEF Starting
  <2>5. Goto("scan", dfa.begin[At(0)], 1, InitialBest)
    BY <1>3
  <2>6. Place("scan", dfa.begin[At(0)], 1, InitialBest) /\ 1 \in 0 .. End
    BY <1>2, <2>3 DEF Place
  <2> QED
    BY <1>1, <1>2, <2>1, <2>2, <2>4, <2>5, <2>6, GotoKeeps
<1>4. CASE 0 \notin nulls
  <2>1. Goto("next", st, pos, best) /\ Place("next", st, pos, best)
    BY <1>1, <1>4 DEF Place
  <2> QED
    BY <1>1, <1>2, <1>4, <2>1, GotoKeeps
<1> QED
  BY <1>3, <1>4

LEMMA AllMissKeeps == ASSUME IInv, AllMiss PROVE IInv'
<1> USE DEF AllMiss
<1> DEFINE s == Step(st, pos)
           b == AtEnd(s, pos + 1, best)
<1>1. TypeOK /\ Given /\ pc # "idle" /\ pc # "done" /\ op = "all" /\ Missing(st, pos, best) /\ Starting
  BY DEF IInv, Place, Visits
<1>2. /\ End \in Nat /\ start \in 0 .. End /\ pos \in start .. End - 1 /\ pos > 0
      /\ st = path[pos] /\ LongestFound(best, start, pos)
      /\ st \in State /\ best \in 0 .. End \cup {NoMatch}
  BY <1>1, Setting DEF Missing, TypeOK
<1>3. s = path[pos + 1] /\ s \in State
  BY <1>1, <1>2, RunStep
<1>4. filled' \subseteq State \X Minterm
  BY <1>1, <1>2, Filling DEF LazyTransition
<1>5. pos + 1 \in start .. End /\ pos + 1 \in 0 .. End /\ pos + 1 > 0 /\ (pos + 1) - 1 = pos
  BY <1>2
<1>6. CASE pos + 1 # End
  <2>1. Scanning(s, pos + 1, best)
    BY <1>1, <1>2, <1>3, <1>5 DEF Scanning
  <2>2. Goto("scan", s, pos + 1, best) /\ Place("scan", s, pos + 1, best)
    BY <1>6, <2>1 DEF Place
  <2> HIDE DEF s
  <2> QED
    BY <1>1, <1>2, <1>3, <1>4, <1>5, <2>2, GotoKeeps
<1>7. CASE pos + 1 = End
  <2>1. LongestFound(b, start, pos + 1)
    BY <1>1, <1>2, <1>3, <1>5, <1>7, Looked
  <2>2. b \in 0 .. End \cup {NoMatch}
    BY <1>1, <1>2, <1>5, <2>1, LongestType
  <2>3. Goto("found", s, pos + 1, b) /\ Finding(b)
    BY <1>1, <1>7, <2>1 DEF Finding
  <2> HIDE DEF s, b
  <2> QED
    BY <1>1, <1>3, <1>4, <1>5, <2>2, <2>3, FoundKeeps
<1> QED
  BY <1>6, <1>7

(* A match pushed where the next start is.                                 *)
LEMMA Pushing ==
  ASSUME TypeOK, Given, pc # "idle", Listed, UNCHANGED <<dfa, data, nulls>>,
         NEW i \in nulls, i >= StartsAfter(matches, Len(matches)),
         \A j \in nulls : j >= StartsAfter(matches, Len(matches)) => i <= j,
         NEW e \in 0 .. End, \A r \in Runs(dfa, data, i) : e = Longest(dfa, data, r, i),
         matches' = Append(matches, <<i, e>>)
  PROVE  /\ Listed'
         /\ matches' \in Seq((0 .. End) \X (0 .. End))
         /\ StartsAfter(matches', Len(matches')) = MaxOf(i + 1, e)
<1>1. matches \in Seq((0 .. End) \X (0 .. End)) /\ i \in 0 .. End
  BY DEF TypeOK
<1> DEFINE n == Len(matches)
<1>2. /\ n \in Nat /\ Len(matches') = n + 1
      /\ \A k \in 1 .. n : matches'[k] = matches[k]
      /\ matches'[n + 1] = <<i, e>>
      /\ matches' \in Seq((0 .. End) \X (0 .. End))
  BY <1>1
<1>3. \A k \in 0 .. n : StartsAfter(matches', k) = StartsAfter(matches, k)
  BY <1>2 DEF StartsAfter
<1>4. StartsAfter(matches', n + 1) = MaxOf(i + 1, e)
  BY <1>2 DEF StartsAfter
<1> HIDE DEF n
<1>5. StartsAfter(matches, n) = StartsAfter(matches, Len(matches)) /\ UNCHANGED <<dfa, data, nulls>>
  BY DEF n
<1> DEFINE InPlace(k) ==
             /\ matches'[k][1] \in nulls
             /\ matches'[k][1] >= StartsAfter(matches', k - 1)
             /\ \A j \in nulls : j >= StartsAfter(matches', k - 1) => matches'[k][1] <= j
             /\ \A r \in Runs(dfa, data, matches'[k][1]) :
                  matches'[k][2] = Longest(dfa, data, r, matches'[k][1])
<1>6. ASSUME NEW k \in 1 .. n
      PROVE  InPlace(k)
  <2>1. matches'[k] = matches[k]
    BY <1>2
  <2>2. k - 1 \in 0 .. n
    BY <1>2
  <2>3. StartsAfter(matches', k - 1) = StartsAfter(matches, k - 1)
    BY <1>3, <2>2
  <2> QED
    BY <2>1, <2>3 DEF Listed, n
<1>7. InPlace(n + 1)
  <2>1. matches'[n + 1][1] = i /\ matches'[n + 1][2] = e /\ (n + 1) - 1 = n /\ n \in 0 .. n
    BY <1>2
  <2>2. StartsAfter(matches', n) = StartsAfter(matches, n)
    BY <1>3, <2>1
  <2> QED
    BY <1>5, <2>1, <2>2
<1>8. \A k \in 1 .. n + 1 : InPlace(k)
  <2> HIDE DEF InPlace
  <2>1. \A k \in 1 .. n + 1 : k \in 1 .. n \/ k = n + 1
    BY <1>2
  <2> QED
    BY <1>6, <1>7, <2>1
<1>9. Listed'
  <2>1. \A k \in 1 .. Len(matches') : InPlace(k)
    BY <1>2, <1>8
  <2>2. dfa' = dfa /\ data' = data /\ nulls' = nulls
    BY <1>5
  <2> QED
    BY <2>1, <2>2, ZenonT(30) DEF Listed
<1> QED
  BY <1>2, <1>4, <1>9

(* The longest end on the one run from a start the reverse scan reported.  *)
LEMMA LongestThere ==
  ASSUME TypeOK, Given, pc # "idle", nulls = Nulls(dfa, data), start \in nulls,
         NEW b, LongestFound(b, start, End)
  PROVE  /\ b \in 0 .. End /\ b # NoMatch
         /\ \A r \in Runs(dfa, data, start) : b = Longest(dfa, data, r, start)
<1>1. /\ WellFormed(dfa) /\ IsInput(data) /\ path \in Runs(dfa, data, start)
      /\ path \in RunsFrom(dfa, data, start, INITIAL) /\ start \in 0 .. End /\ End \in Nat
  BY Setting
<1>2. \A r \in Runs(dfa, data, start) : r = path
  BY <1>1, RunUnique DEF Runs, End
<1>3. b = Longest(dfa, data, path, start) /\ b \in 0 .. End \cup {NoMatch}
  BY <1>1, LongestType DEF Longest, BestUpTo, End
<1>4. \E r \in Runs(dfa, data, start) : Longest(dfa, data, r, start) # NoMatch
  BY DEF Nulls
<1> QED
  BY <1>2, <1>3, <1>4

LEMMA AllFoundKeeps == ASSUME IInv, AllFound PROVE IInv'
<1> USE DEF AllFound
<1>1. /\ TypeOK /\ Given /\ pc # "idle" /\ pc # "done" /\ op = "all" /\ Finding(best)
      /\ Starting /\ nulls = Nulls(dfa, data) /\ Listed
      /\ nextStart = StartsAfter(matches, Len(matches))
  BY DEF IInv, Place, Visits
<1>2. start \in nulls /\ start >= nextStart /\ \A i \in nulls : i >= nextStart => start <= i
  BY <1>1 DEF Starting
<1>3. LongestFound(best, start, End)
  BY <1>1 DEF Finding
<1>4. /\ best \in 0 .. End /\ best # NoMatch
      /\ \A r \in Runs(dfa, data, start) : best = Longest(dfa, data, r, start)
  BY <1>1, <1>2, <1>3, LongestThere
<1>5. matches' = Append(matches, <<start, best>>) /\ nextStart' = MaxOf(start + 1, best)
  BY <1>4 DEF Push
<1>6. /\ Listed'
      /\ matches' \in Seq((0 .. End) \X (0 .. End))
      /\ StartsAfter(matches', Len(matches')) = MaxOf(start + 1, best)
  BY <1>1, <1>2, <1>4, <1>5, Pushing
<1>7. nextStart' \in 0 .. End + 1
  BY <1>1, <1>4, <1>5, Setting DEF MaxOf
<1>8. TypeOK'
  BY <1>1, <1>6, <1>7 DEF TypeOK, State, End
<1>9. Given' /\ Place(pc, st, pos, best)' /\ AnswerOK'
  BY <1>1 DEF Given, Place, AnswerOK, Returned
<1>10. nextStart' # 0
  BY <1>1, <1>4, <1>5, Setting DEF MaxOf
<1>11. Visits'
  BY <1>1, <1>5, <1>6, <1>10 DEF Visits
<1> QED
  BY <1>8, <1>9, <1>11 DEF IInv

(* At the end of the input the run is over before it begins.               *)
LEMMA MatchAtEnd ==
  ASSUME TypeOK, Given, pc # "idle", nulls = Nulls(dfa, data), End \in nulls
  PROVE  \A r \in Runs(dfa, data, End) : End = Longest(dfa, data, r, End)
<1>1. /\ WellFormed(dfa) /\ IsInput(data) /\ EndsFollowStarts(dfa, data) /\ End \in Nat \ {0}
  BY Setting
<1>2. PICK t \in Runs(dfa, data, End) : Longest(dfa, data, t, End) # NoMatch
  BY DEF Nulls
<1>3. \A r \in Runs(dfa, data, End) : r = t
  BY <1>1, RunUnique DEF Runs, End
<1>4. t[End] = INITIAL /\ IsLongest(NoMatch, dfa, data, t, End, End - 1)
  BY <1>1, LongestEmpty DEF Runs, RunsFrom, End
<1> DEFINE e == EndAt(dfa, data, t, End, NoMatch)
<1>5. IsLongest(e, dfa, data, t, End, End)
  BY <1>1, <1>4, LongestStep DEF End
<1>6. LongestUpTo(dfa, data, t, End, End) = e
  BY <1>1, <1>5, LongestDefined DEF End
<1>7. e \in {End, NoMatch}
  BY <1>1, <1>4 DEF EndAt, RelAt, WellFormed, MaxOf, NoMatch, NoRel, End
<1> QED
  BY <1>2, <1>3, <1>6, <1>7 DEF Longest, End

LEMMA AllNextKeeps == ASSUME IInv, AllNext PROVE IInv'
<1> USE DEF AllNext
<1>1. pc # "idle" /\ pc # "done" /\ op = "all"
  BY DEF IInv, Place
<1>2. /\ TypeOK /\ Given /\ nulls = Nulls(dfa, data) /\ Listed
      /\ nextStart = StartsAfter(matches, Len(matches))
  BY <1>1 DEF IInv, Visits
<1>3. PICK i \in nulls :
        /\ i >= nextStart
        /\ \A j \in nulls : j >= nextStart => i <= j
        /\ IF i = End
           THEN /\ Push(i, i)
                /\ pc' = "done" /\ ret' = [status |-> "ok", end |-> NoMatch]
                /\ UNCHANGED <<st, pos, best, start, path>>
           ELSE /\ pc' = "scan" /\ st' = INITIAL /\ pos' = i /\ best' = NoMatch
                /\ start' = i /\ path' \in Runs(dfa, data, i)
                /\ UNCHANGED <<matches, ret>>
  OBVIOUS
<1>4. UNCHANGED <<dfa, filled, data, op, stop, nulls, nextStart>>
  OBVIOUS
<1>5. /\ WellFormed(dfa) /\ IsInput(data) /\ End \in Nat \ {0} /\ INITIAL \in State
      /\ i \in 0 .. End
  BY <1>1, <1>2, Setting DEF TypeOK
<1>6. CASE i = End
  <2>1. matches' = Append(matches, <<End, End>>)
    BY <1>3, <1>5, <1>6 DEF Push, NoMatch
  <2>2. End \in nulls /\ \A r \in Runs(dfa, data, End) : End = Longest(dfa, data, r, End)
    BY <1>1, <1>2, <1>6, MatchAtEnd
  <2>3. /\ Listed'
        /\ matches' \in Seq((0 .. End) \X (0 .. End))
        /\ StartsAfter(matches', Len(matches')) = MaxOf(End + 1, End)
    BY <1>1, <1>2, <1>3, <1>4, <1>5, <1>6, <2>1, <2>2, Pushing
  <2>4. \A j \in nulls : j < MaxOf(End + 1, End)
    BY <1>2, <1>5 DEF TypeOK, MaxOf
  <2>5. TypeOK'
    <3>1. pc' = "done" /\ ret' = [status |-> "ok", end |-> NoMatch] /\ UNCHANGED <<st, pos, best, start, path>>
      BY <1>3, <1>6
    <3>2. ret' \in [status : {"none", "ok", "error"}, end : 0 .. End \cup {NoMatch}]
      BY <3>1
    <3> QED
      BY <1>2, <1>4, <2>3, <3>1, <3>2 DEF TypeOK, State, End
  <2>6. Given' /\ Place(pc, st, pos, best)' /\ AnswerOK'
    BY <1>1, <1>2, <1>3, <1>4, <1>6 DEF Given, Place, AnswerOK, Returned
  <2>7. Visits'
    BY <1>2, <1>3, <1>4, <1>6, <2>3, <2>4 DEF Visits
  <2> QED
    BY <2>5, <2>6, <2>7 DEF IInv
<1>7. CASE i # End
  <2>1. /\ pc' = "scan" /\ st' = INITIAL /\ pos' = i /\ best' = NoMatch
        /\ start' = i /\ path' \in Runs(dfa, data, i) /\ UNCHANGED <<matches, ret>>
    BY <1>3, <1>7
  <2>2. i > 0
    BY <1>1, <1>2, <1>3, <1>5 DEF IInv, Visits, TypeOK
  <2>3. path' \in RunsFrom(dfa, data, i, INITIAL)
    BY <2>1 DEF Runs
  <2>4. path' \in [i .. End -> State] /\ path'[i] = INITIAL
    BY <1>5, <2>3, RunSteps DEF State, End
  <2>5. IsLongest(NoMatch, dfa, data, path', i, i - 1)
    BY <1>5, LongestEmpty
  <2>6. TypeOK'
    BY <1>2, <1>4, <1>5, <2>1, <2>4 DEF TypeOK, State, End
  <2>7. Given' /\ AnswerOK'
    BY <1>1, <1>2, <1>4, <2>1 DEF Given, AnswerOK, Returned
  <2>8. Place(pc, st, pos, best)'
    <3>1. op' = "all" /\ 0 < pos' /\ start' <= pos' /\ st' = path'[pos']
      BY <1>1, <1>4, <1>5, <2>1, <2>2, <2>4
    <3>2. IsLongest(best', dfa', data', path', start', pos' - 1)
      BY <1>4, <2>1, <2>5
    <3> QED
      BY <2>1, <3>1, <3>2 DEF Place, Scanning, LongestFound
  <2>9. Visits'
    BY <1>2, <1>3, <1>4, <2>1 DEF Visits, Listed, Starting
  <2> QED
    BY <2>6, <2>7, <2>8, <2>9 DEF IInv
<1> QED
  BY <1>6, <1>7

LEMMA AllReturnKeeps == ASSUME IInv, AllReturn PROVE IInv'
<1> USE DEF AllReturn
<1>1. pc # "idle" /\ op = "all" /\ nextStart = StartsAfter(matches, Len(matches))
  BY DEF IInv, Place, Visits
<1>2. filled' \subseteq State \X Minterm
  BY DEF IInv, TypeOK
<1>3. \A i \in nulls : i < StartsAfter(matches, Len(matches))
  BY <1>1
<1> QED
  BY <1>1, <1>2, <1>3, ReturnKeeps

-----------------------------------------------------------------------------
(* walk_input and scan_fwd_from.                                           *)
LEMMA InWalk ==
  ASSUME IInv, pc = "walk"
  PROVE  /\ TypeOK /\ Given /\ pc # "idle" /\ pc # "done" /\ op = "from" /\ best = NoMatch
         /\ End \in Nat \ {0} /\ start \in 0 .. End /\ stop \in start .. End /\ stop > 0
         /\ pos \in start .. stop /\ pos > 0 /\ pos \in 0 .. End
         /\ st = path[pos] \/ (st = dfa.pruned /\ pos = start /\ pos < stop)
         /\ st \in State /\ dfa.pruned # DEAD
         /\ filled \subseteq State \X Minterm
<1>1. TypeOK /\ Given /\ Walking(st, pos, best) /\ pc # "idle" /\ pc # "done"
  BY DEF IInv, Place
<1>2. End \in Nat \ {0} /\ start \in 0 .. End /\ dfa.pruned # DEAD
  BY <1>1, Setting
<1> QED
  BY <1>1, <1>2 DEF Walking, TypeOK, Given

LEMMA WalkEnterKeeps == ASSUME IInv, WalkEnter PROVE IInv'
<1> USE DEF WalkEnter
<1>1. TypeOK /\ Given /\ pc # "idle" /\ pc # "done" /\ op = "from"
  BY DEF IInv
<1>2. /\ End \in Nat \ {0} /\ start \in 0 .. End /\ stop \in start .. End /\ stop > 0
      /\ INITIAL \in State /\ dfa.pruned \in State /\ path[start] = INITIAL /\ best = NoMatch
      /\ filled' \subseteq State \X Minterm
  BY <1>1, Setting DEF Given, TypeOK
<1>3. CASE start = 0
  <2>1. dfa.begin[At(0)] = path[1] /\ dfa.begin[At(0)] \in State
    BY <1>1, <1>2, <1>3, FirstStep
  <2>2. Walking(dfa.begin[At(0)], 1, best)
    BY <1>1, <1>2, <1>3, <2>1 DEF Walking
  <2>3. Goto("walk", dfa.begin[At(0)], 1, best) /\ Place("walk", dfa.begin[At(0)], 1, best)
    BY <1>2, <1>3, <2>2 DEF Place
  <2>4. 1 \in 0 .. End /\ best \in 0 .. End \cup {NoMatch}
    BY <1>2
  <2> QED
    BY <1>1, <1>2, <2>1, <2>3, <2>4, GotoKeeps
<1>4. CASE start # 0
  <2> DEFINE s == IF stop = start THEN INITIAL ELSE dfa.pruned
  <2>1. Walking(s, start, best)
    BY <1>1, <1>2, <1>4 DEF Walking
  <2>2. Goto("walk", s, start, best) /\ Place("walk", s, start, best)
    BY <1>4, <2>1 DEF Place
  <2>3. s \in State /\ best \in 0 .. End \cup {NoMatch}
    BY <1>2
  <2> HIDE DEF s
  <2> QED
    BY <1>1, <1>2, <2>2, <2>3, GotoKeeps
<1> QED
  BY <1>3, <1>4

LEMMA WalkByteKeeps == ASSUME IInv, WalkByte PROVE IInv'
<1> USE InWalk DEF WalkByte
<1> DEFINE s == Step(st, pos)
<1>1. pos \in start .. End - 1 /\ start < End
  OBVIOUS
<1>2. s = path[pos + 1] /\ s \in State
  <2>1. CASE st = path[pos]
    BY <1>1, <2>1, RunStep
  <2>2. CASE st = dfa.pruned /\ pos = start
    BY <1>1, <2>2, FirstStep DEF Step
  <2> QED
    BY <2>1, <2>2
<1>3. Walking(s, pos + 1, best)
  BY <1>1, <1>2 DEF Walking
<1>4. Goto("walk", s, pos + 1, best) /\ Place("walk", s, pos + 1, best)
  BY <1>3 DEF Place
<1>5. filled' \subseteq State \X Minterm /\ pos + 1 \in 0 .. End /\ best \in 0 .. End \cup {NoMatch}
  BY <1>1, Filling DEF LazyTransition
<1> HIDE DEF s
<1> QED
  BY <1>2, <1>4, <1>5, GotoKeeps

LEMMA WalkDeadKeeps == ASSUME IInv, WalkDead PROVE IInv'
<1> USE InWalk DEF WalkDead
<1>1. path[pos] = DEAD /\ pos \in start .. End
  OBVIOUS
<1>2. /\ WellFormed(dfa) /\ IsInput(data) /\ path \in RunsFrom(dfa, data, start, INITIAL)
  BY Setting
<1>3. \A k \in pos .. End : path[k] = DEAD
  BY <1>1, <1>2, RunDead DEF End
<1>4. path[stop] = DEAD /\ stop \in Nat
  BY <1>3
<1>5. LongestFound(best, stop, stop - 1)
  BY <1>4, NothingYet
<1>6. LongestFound(best, stop, End)
  BY <1>4, <1>5, NothingMore
<1>7. Finding(best) /\ best \in 0 .. End \cup {NoMatch}
  BY <1>6 DEF Finding
<1> QED
  BY <1>7, FoundKeeps

LEMMA FromEnterKeeps == ASSUME IInv, FromEnter PROVE IInv'
<1> USE InWalk DEF FromEnter
<1> DEFINE b == Collected(st, pos, best)
<1>1. st = path[stop] /\ pos = stop /\ stop \in Nat
  OBVIOUS
<1>2. LongestFound(best, stop, stop - 1)
  BY <1>1, NothingYet
<1>3. LongestFound(b, stop, stop)
  BY <1>1, <1>2, Looked
<1>4. b \in 0 .. End \cup {NoMatch}
  BY <1>1, <1>3, LongestType
<1>5. filled' \subseteq State \X Minterm
  OBVIOUS
<1>6. Goto(IF pos = End THEN "found" ELSE "verify", st, pos, b)
  OBVIOUS
<1> HIDE DEF b
<1>7. CASE pos = End
  <2>1. Finding(b)
    BY <1>1, <1>3, <1>7 DEF Finding
  <2> QED
    BY <1>4, <1>5, <1>6, <1>7, <2>1, FoundKeeps
<1>8. CASE pos # End
  <2>1. Verifying(st, pos, b)
    BY <1>1, <1>3 DEF Verifying
  <2>2. Goto("verify", st, pos, b) /\ Place("verify", st, pos, b)
    BY <1>6, <1>8, <2>1 DEF Place
  <2> QED
    BY <1>4, <1>5, <2>2, GotoKeeps
<1> QED
  BY <1>7, <1>8

LEMMA InVerify ==
  ASSUME IInv, pc = "verify"
  PROVE  /\ TypeOK /\ Given /\ pc # "idle" /\ pc # "done" /\ op = "from"
         /\ End \in Nat \ {0} /\ start \in 0 .. End /\ stop \in start .. End /\ stop > 0
         /\ pos \in stop .. End /\ pos > 0 /\ start <= pos /\ pos \in start .. End /\ pos \in 0 .. End
         /\ st = path[pos] /\ LongestFound(best, stop, pos)
         /\ st \in State /\ best \in 0 .. End \cup {NoMatch}
         /\ filled \subseteq State \X Minterm
<1>1. TypeOK /\ Given /\ Verifying(st, pos, best) /\ pc # "idle" /\ pc # "done"
  BY DEF IInv, Place
<1>2. End \in Nat \ {0} /\ start \in 0 .. End
  BY <1>1, Setting
<1> QED
  BY <1>1, <1>2 DEF Verifying, TypeOK, Given

LEMMA VerifyDoneKeeps == ASSUME IInv, VerifyDone PROVE IInv'
<1> USE InVerify DEF VerifyDone
<1>1. LongestFound(best, stop, End)
  <2>1. CASE pos = End
    BY <2>1
  <2>2. CASE st = DEAD
    BY <2>2, NothingMore
  <2> QED
    BY <2>1, <2>2
<1>2. Finding(best)
  BY <1>1 DEF Finding
<1> QED
  BY <1>2, FoundKeeps

(* Only the end is looked at: enough where a state accepts at CENTER and   *)
(* at END alike.                                                           *)
LEMMA VerifySkipsAllKeeps == ASSUME IInv, VerifySkipsAll PROVE IInv'
<1> USE InVerify DEF VerifySkipsAll
<1> DEFINE c == AtCenter(st, End - 1, best)
           b == AtEnd(st, End, best)
<1>1. \A k \in pos .. End : path[k] = st
  BY JumpToEnd DEF SkipsAll
<1>2. End - 1 \in pos .. End - 1 /\ \A k \in pos .. End - 1 : path[k] = st
  BY <1>1
<1>3. LongestFound(c, stop, End - 1)
  BY <1>2, LookedBack
<1>4. st = path[End]
  BY <1>1
<1>5. LongestFound(AtEnd(st, End, c), stop, End)
  BY <1>3, <1>4, Looked
<1>6. dfa.end[st] \in Nat \cup {NoRel}
  BY Setting DEF TypeOK, AutomatonType, State
<1>7. AcceptsAlike => AtEnd(st, End, c) = b
  BY <1>6 DEF AcceptsAlike, AtEnd, AtCenter, Updated, MaxOf, NoMatch, NoRel
<1>8. b = Collected(path[End], End, best)
  BY <1>4 DEF Collected
<1>9. b \in 0 .. End \cup {NoMatch}
  <2>1. TypeOK /\ Given /\ pc # "idle" /\ End \in start .. End /\ End > 0
    OBVIOUS
  <2>2. Collected(path[End], End, best) \in 0 .. End \cup {NoMatch}
    BY <2>1, LookType
  <2> QED
    BY <1>8, <2>2
<1>10. Goto("found", st, End, b) /\ Finding(b) /\ filled' \subseteq State \X Minterm
  BY <1>5, <1>7 DEF Finding
<1>11. End \in 0 .. End
  OBVIOUS
<1> HIDE DEF b
<1> QED
  BY <1>9, <1>10, <1>11, FoundKeeps

LEMMA VerifyByteKeeps == ASSUME IInv, VerifyByte PROVE IInv'
<1> USE InVerify DEF VerifyByte
<1> DEFINE p == ReadAt
           b == IF p > pos THEN AtCenter(st, p, best) ELSE best
           s == Step(st, p)
           c == Collected(s, p + 1, b)
<1>1. p \in pos .. End - 1 /\ \A k \in pos .. p : path[k] = st
  BY ReadAtReached
<1>2. LongestFound(b, stop, p)
  <2>1. CASE p > pos
    BY <1>1, <2>1, LookedBack
  <2>2. CASE p = pos
    BY <2>2
  <2> QED
    BY <1>1, <2>1, <2>2
<1>3. /\ path[p] = st /\ p \in stop .. End - 1 /\ p \in start .. End - 1 /\ p > 0 /\ p \in 0 .. End
      /\ p + 1 \in stop .. End /\ p + 1 \in 0 .. End /\ p + 1 > 0 /\ (p + 1) - 1 = p
  BY <1>1
<1>4. s = path[p + 1] /\ s \in State
  BY <1>3, RunStep
<1>5. LongestFound(b, stop, (p + 1) - 1)
  BY <1>2, <1>3
<1>6. LongestFound(c, stop, p + 1)
  BY <1>3, <1>4, <1>5, Looked
<1>7. b \in 0 .. End \cup {NoMatch} /\ c \in 0 .. End \cup {NoMatch}
  BY <1>2, <1>3, <1>6, LongestType
<1>8. \/ Goto("verify", s, p + 1, c)
      \/ Goto("miss", st, p, b)
  OBVIOUS
<1>9. UNCHANGED filled
  OBVIOUS
<1> HIDE DEF p, b, s, c
<1>10. CASE Goto("verify", s, p + 1, c)
  <2>1. Verifying(s, p + 1, c)
    BY <1>3, <1>4, <1>6 DEF Verifying
  <2>2. Place("verify", s, p + 1, c)
    BY <2>1 DEF Place
  <2> QED
    BY <1>3, <1>4, <1>7, <1>9, <1>10, <2>2, GotoKeeps
<1>11. CASE Goto("miss", st, p, b)
  <2>1. Missing(st, p, b)
    BY <1>2, <1>3 DEF Missing
  <2>2. Place("miss", st, p, b)
    BY <2>1 DEF Place
  <2> QED
    BY <1>3, <1>7, <1>9, <1>11, <2>2, GotoKeeps
<1> QED
  BY <1>8, <1>10, <1>11

LEMMA FromMissKeeps == ASSUME IInv, FromMiss PROVE IInv'
<1> USE DEF FromMiss
<1> DEFINE s == Step(st, pos)
<1>1. TypeOK /\ Given /\ pc # "idle" /\ pc # "done" /\ op = "from" /\ Missing(st, pos, best)
  BY DEF IInv, Place
<1>2. /\ End \in Nat /\ start \in 0 .. End /\ stop \in start .. End /\ pos \in stop .. End - 1
      /\ pos \in start .. End - 1 /\ pos > 0
      /\ st = path[pos] /\ LongestFound(best, stop, pos)
      /\ st \in State /\ best \in 0 .. End \cup {NoMatch}
  BY <1>1, Setting DEF Missing, TypeOK, Given
<1>3. s = path[pos + 1] /\ s \in State
  BY <1>1, <1>2, RunStep
<1>4. filled' \subseteq State \X Minterm
  BY <1>1, <1>2, Filling DEF LazyTransition
<1>5. /\ pos + 1 \in stop .. End /\ pos + 1 \in start .. End /\ pos + 1 \in 0 .. End
      /\ pos + 1 > 0 /\ (pos + 1) - 1 = pos
  BY <1>2
<1>6. Goto(IF s = DEAD THEN "found" ELSE "arrive", s, pos + 1, best)
  OBVIOUS
<1> HIDE DEF s
<1>7. CASE s = DEAD
  <2>1. path[pos + 1] = DEAD /\ LongestFound(best, stop, (pos + 1) - 1)
    BY <1>2, <1>3, <1>5, <1>7
  <2>2. LongestFound(best, stop, End)
    BY <1>1, <1>2, <1>5, <2>1, NothingMore
  <2> QED
    BY <1>1, <1>2, <1>3, <1>4, <1>5, <1>6, <1>7, <2>2, FoundKeeps DEF Finding
<1>8. CASE s # DEAD
  <2>1. Arriving(s, pos + 1, best)
    BY <1>1, <1>2, <1>3, <1>5 DEF Arriving
  <2>2. Goto("arrive", s, pos + 1, best) /\ Place("arrive", s, pos + 1, best)
    BY <1>6, <1>8, <2>1 DEF Place
  <2> QED
    BY <1>1, <1>2, <1>3, <1>4, <1>5, <2>2, GotoKeeps
<1> QED
  BY <1>7, <1>8

LEMMA FromArriveKeeps == ASSUME IInv, FromArrive PROVE IInv'
<1> USE DEF FromArrive
<1> DEFINE b == Collected(st, pos, best)
<1>1. TypeOK /\ Given /\ pc # "idle" /\ pc # "done" /\ op = "from" /\ Arriving(st, pos, best)
  BY DEF IInv, Place
<1>2. /\ End \in Nat /\ start \in 0 .. End /\ stop \in start .. End /\ pos \in stop .. End
      /\ pos \in 0 .. End /\ pos > 0 /\ st = path[pos] /\ LongestFound(best, stop, pos - 1)
      /\ st \in State
  BY <1>1, Setting DEF Arriving, TypeOK, Given
<1>3. LongestFound(b, stop, pos)
  BY <1>1, <1>2, Looked
<1>4. b \in 0 .. End \cup {NoMatch}
  BY <1>1, <1>2, <1>3, LongestType
<1>5. filled' \subseteq State \X Minterm
  BY <1>1, <1>2, Filling
<1>6. Goto(IF pos = End THEN "found" ELSE "verify", st, pos, b)
  OBVIOUS
<1> HIDE DEF b
<1>7. CASE pos = End
  BY <1>1, <1>2, <1>3, <1>4, <1>5, <1>6, <1>7, FoundKeeps DEF Finding
<1>8. CASE pos # End
  <2>1. Verifying(st, pos, b)
    BY <1>1, <1>2, <1>3 DEF Verifying
  <2>2. Goto("verify", st, pos, b) /\ Place("verify", st, pos, b)
    BY <1>6, <1>8, <2>1 DEF Place
  <2> QED
    BY <1>1, <1>2, <1>4, <1>5, <2>2, GotoKeeps
<1> QED
  BY <1>7, <1>8

-----------------------------------------------------------------------------
(* Calls and returns.                                                      *)
LEMMA InitHolds == ASSUME Init PROVE IInv
<1>1. WellFormed(dfa)
  BY FwdScanAssumption DEF Init
<1>2. Len(dfa.delta) \in Nat /\ Len(dfa.delta) >= 2 /\ DOMAIN dfa.delta = 1 .. Len(dfa.delta)
      /\ dfa \in AutomatonType(Len(dfa.delta))
  BY <1>1 DEF WellFormed, AutomatonType
<1>3. Len(<<0>>) = 1 /\ DEAD \in State
  BY <1>2 DEF State, DEAD
<1>4. TypeOK
  BY <1>2, <1>3 DEF TypeOK, Init, NoRet, End
<1>5. Given /\ Place(pc, st, pos, best) /\ AnswerOK /\ Visits
  BY DEF Init, Given, Place, AnswerOK, Returned, Visits, NoRet
<1> QED
  BY <1>4, <1>5 DEF IInv

LEMMA CallKeeps ==
  ASSUME IInv, NEW x \in Inputs, NEW i \in 0 .. Len(x), NEW k \in i .. Len(x),
         NEW o \in {"optional", "all", "from"}, Call(o, x, i, k),
         o = "all" => i = 0, o = "from" => 0 < k
  PROVE  IInv'
<1> USE DEF Call
<1>1. TypeOK /\ Given
  BY DEF IInv
<1>2. WellFormed(dfa) /\ IsInput(x) /\ Len(x) \in Nat
  BY <1>1, FwdScanAssumption DEF Given, IsInput
<1>3. INITIAL \in State /\ path' \in [i .. Len(x) -> State]
  BY <1>2, RunSteps DEF Runs, WellFormed, State, INITIAL
<1>4. nulls' \subseteq 0 .. Len(x)
  BY DEF Nulls
<1>5. TypeOK'
  <2>1. best' = NoMatch /\ matches' = <<>> /\ nextStart' = 0 /\ ret' = NoRet
    BY <1>1 DEF Given
  <2>2. matches' \in Seq((0 .. End') \X (0 .. End')) /\ ret' \in [status : {"none", "ok", "error"}, end : 0 .. End' \cup {NoMatch}]
    BY <2>1 DEF NoRet
  <2>3. End' = Len(x) /\ State' = State /\ nulls' \subseteq 0 .. End' /\ path' \in [start' .. End' -> State']
    BY <1>3, <1>4 DEF End, State
  <2>4. data' \in Inputs /\ op' \in Calls /\ pc' = "enter" /\ st' = INITIAL /\ pos' = i /\ start' = i /\ stop' = k /\ UNCHANGED <<dfa, filled>>
    OBVIOUS
  <2>5. i \in 0 .. End' /\ k \in 0 .. End' /\ st' \in State'
    BY <1>2, <1>3, <2>3, <2>4
  <2> HIDE DEF Call
  <2> QED
    BY <1>1, <2>1, <2>2, <2>3, <2>4, <2>5 DEF TypeOK
<1>6. Given' /\ Place(pc, st, pos, best)' /\ AnswerOK'
  BY <1>1 DEF Given, Place, AnswerOK, Returned
<1>7. Visits'
  BY <1>1 DEF Given, Visits, Listed, StartsAfter
<1> QED
  BY <1>5, <1>6, <1>7 DEF IInv

LEMMA FoundReturnKeeps == ASSUME IInv, Found PROVE IInv'
<1>1. /\ pc # "idle" /\ Finding(best) /\ best \in 0 .. End \cup {NoMatch} /\ op # "all"
      /\ filled' \subseteq State \X Minterm /\ Return("ok", best)
  BY DEF IInv, Place, TypeOK, Found
<1> QED
  BY <1>1, ReturnKeeps

LEMMA CapacityExceededKeeps == ASSUME IInv, CapacityExceeded PROVE IInv'
<1> USE DEF CapacityExceeded
<1>1. TypeOK /\ pc # "idle" /\ Return("error", NoMatch) /\ st \in State
  BY DEF IInv, TypeOK
<1>2. dfa.pruned \in State
  BY <1>1, Setting DEF IInv
<1>3. filled' \subseteq State \X Minterm
  BY <1>1, <1>2, Filling DEF LazyTransitionFails
<1> QED
  BY <1>1, <1>3, ReturnKeeps

LEMMA TakeKeeps == ASSUME IInv, Take PROVE IInv'
<1>1. TypeOK /\ Given /\ pc # "idle"
  BY DEF IInv, Take
<1>2. Len(<<0>>) = 1 /\ DEAD \in State
  BY <1>1, Setting
<1>3. TypeOK'
  BY <1>1, <1>2 DEF Take, TypeOK, NoRet, End, State
<1>4. Given' /\ Place(pc, st, pos, best)' /\ AnswerOK' /\ Visits'
  BY <1>1 DEF Take, Given, Place, AnswerOK, Returned, Visits, NoRet
<1> QED
  BY <1>3, <1>4 DEF IInv

LEMMA StutterKeeps == ASSUME IInv, UNCHANGED vars PROVE IInv'
<1> USE DEF vars
<1>1. TypeOK'
  BY DEF IInv, TypeOK, State, End
<1>2. Given' /\ Visits'
  BY DEF IInv, Given, Visits, Listed, Starting
<1>3. Place(pc, st, pos, best)' /\ AnswerOK'
  BY DEF IInv, Place, Walking, Scanning, Verifying, Missing, Arriving, Finding,
         LongestFound, AcceptsAlike, End, AnswerOK, Returned
<1> QED
  BY <1>1, <1>2, <1>3 DEF IInv

LEMMA NextKeeps == ASSUME IInv, [Next]_vars PROVE IInv'
<1>1. ASSUME NEW x \in Inputs, NEW i \in 0 .. Len(x), Call("optional", x, i, i)
      PROVE  IInv'
  <2>1. Len(x) \in Nat /\ i \in i .. Len(x)
    BY FwdScanAssumption DEF IsInput
  <2> QED
    BY <1>1, <2>1, CallKeeps
<1>2. ASSUME NEW x \in Inputs, Call("all", x, 0, 0)
      PROVE  IInv'
  <2>1. 0 \in 0 .. Len(x)
    BY FwdScanAssumption DEF IsInput
  <2> QED
    BY <1>2, <2>1, CallKeeps
<1>3. ASSUME NEW x \in Inputs, NEW i \in 0 .. Len(x), NEW k \in i .. Len(x), 0 < k,
             Call("from", x, i, k)
      PROVE  IInv'
  BY <1>3, CallKeeps
<1>4. CASE Work
  BY <1>4, ScanDoneKeeps, ScanSkipsAllKeeps, ScanByteKeeps, OptionalAtEndKeeps,
     OptionalEnterKeeps, OptionalMissKeeps, OptionalArriveKeeps, AllEnterKeeps, AllMissKeeps,
     AllFoundKeeps, AllNextKeeps, AllReturnKeeps, WalkEnterKeeps, WalkByteKeeps,
     WalkDeadKeeps, FromEnterKeeps, VerifyDoneKeeps, VerifySkipsAllKeeps, VerifyByteKeeps,
     FromMissKeeps, FromArriveKeeps, FoundReturnKeeps, CapacityExceededKeeps, TakeKeeps
     DEF Work
<1> QED
  BY <1>1, <1>2, <1>3, <1>4, StutterKeeps DEF Next

LEMMA Invariant == Spec => []IInv
  BY InitHolds, NextKeeps, PTL DEF Spec

-----------------------------------------------------------------------------
(* Whatever the cache held, wherever a scan missed a transition or jumped, *)
(* no end is lost between two steps of a scan (scan_fwd, scan_fwd_verify). *)
THEOREM ScanInvHolds == Spec => []ScanInv
<1>1. ASSUME IInv PROVE ScanInv
  <2>1. CASE pc = "idle"
    BY <1>1, <2>1 DEF IInv, ScanInv, BestSoFar
  <2>2. CASE pc # "idle"
    <3>1. TypeOK /\ Given /\ Place(pc, st, pos, best)
      BY <1>1 DEF IInv
    <3>2. End \in Nat /\ start \in 0 .. End /\ pos \in 0 .. End /\ stop \in 0 .. End
      BY <2>2, <3>1, Setting DEF TypeOK
    <3>3. ASSUME pc \in {"scan", "miss"}, op # "from"
          PROVE  st = path[pos] /\ best \in {BestUpTo(start, pos - 1), BestUpTo(start, pos)}
      <4>1. /\ start <= pos /\ st = path[pos]
            /\ LongestFound(best, start, pos - 1) \/ LongestFound(best, start, pos)
        BY <3>1, <3>3 DEF Place, Scanning, Missing
      <4> QED
        BY <2>2, <3>1, <3>2, <4>1, LongestType
    <3>4. ASSUME pc \in {"verify", "miss"}, op = "from"
          PROVE  st = path[pos] /\ best = BestUpTo(stop, pos)
      <4>1. /\ start <= stop /\ stop <= pos /\ st = path[pos]
            /\ LongestFound(best, stop, pos)
        BY <3>1, <3>4 DEF Place, Verifying, Missing, Given
      <4> QED
        BY <2>2, <3>1, <3>2, <4>1, LongestType
    <3> QED
      BY <3>1, <3>3, <3>4 DEF ScanInv, BestSoFar
  <2> QED
    BY <2>1, <2>2
<1> QED
  BY <1>1, Invariant, PTL

LEMMA AnswerLongest ==
  ASSUME IInv
  PROVE  OptionalExact /\ FromExactAlike
<1>1. ASSUME Returned("optional")
      PROVE  ret.end = Longest(dfa, data, path, start)
  <2>1. TypeOK /\ Given /\ pc # "idle" /\ LongestFound(ret.end, start, End)
    BY <1>1 DEF IInv, AnswerOK, Returned, Finding
  <2>2. End \in Nat /\ start \in start .. End
    BY <2>1, Setting
  <2> QED
    BY <2>1, <2>2, LongestType DEF BestUpTo, Longest, End
<1>2. ASSUME Returned("from"), AcceptsAlike
      PROVE  ret.end = Longest(dfa, data, path, stop)
  <2>1. TypeOK /\ Given /\ pc # "idle" /\ LongestFound(ret.end, stop, End) /\ start <= stop
    BY <1>2 DEF IInv, AnswerOK, Returned, Finding, Given
  <2>2. End \in Nat /\ stop \in start .. End
    BY <2>1, Setting DEF TypeOK
  <2> QED
    BY <2>1, <2>2, LongestType DEF BestUpTo, Longest, End
<1> QED
  BY <1>1, <1>2 DEF OptionalExact, FromExactAlike, FromExact

(* scan_fwd_optional returns the longest end at its position.              *)
THEOREM OptionalExactHolds == Spec => []OptionalExact
  BY AnswerLongest, Invariant, PTL

(* scan_fwd_from returns the longest end from the prefix on, of a regex    *)
(* that accepts alike in the middle and at the end of the input.           *)
THEOREM FromExactAlikeHolds == Spec => []FromExactAlike
  BY AnswerLongest, Invariant, PTL

(* scan_fwd_all pushes the leftmost-longest matches that do not overlap.   *)
THEOREM AllExactHolds == Spec => []AllExact
<1>1. ASSUME IInv PROVE AllExact
  BY <1>1 DEF IInv, Visits, Listed, AllExact, Returned, LeftmostLongest
<1> QED
  BY <1>1, Invariant, PTL
=============================================================================
