----------------------------- MODULE LinearScan -----------------------------
(***************************************************************************)
(* The all-matches scan of hardened and always-nullable regexes            *)
(* (resharp-engine, linear.rs).  Trying every start on its own may read    *)
(* the input once per start.  This scan cuts the input into segments.  In  *)
(* each it runs the forward automaton from all starts at once, forward,    *)
(* then goes back over the segment to find which of the states still have  *)
(* an end ahead of them (they are live), and last walks each start for as  *)
(* long as its state is live.                                              *)
(*                                                                         *)
(* The sets of states, the steps between them and the live sets are        *)
(* interned and kept from call to call.  A state is known by its slot in   *)
(* the set that holds it, a start is followed by mapping slots to slots.   *)
(***************************************************************************)
EXTENDS Matching

CONSTANTS
  Automata,         \* the automata to scan with
  Inputs,           \* the inputs, sequences of byte classes
  Capacities,       \* the pairs <<SET_CAP, LIVE_CAP>>
  MaxCalls          \* a bound of the model: calls on one scanner

ASSUME LinearScanAssumption ==
  /\ Minterms \in Nat \ {0}
  /\ \A x \in Inputs : IsInput(x)
  /\ \A a \in Automata : WellFormed(a) /\ \A input \in Inputs : EndsFollowStarts(a, input)
  /\ Capacities \subseteq (Nat \ {0}) \X (Nat \ {0})
  /\ MaxCalls \in Nat

VARIABLES
  dfa,              \* the automaton
  caps,             \* SET_CAP and LIVE_CAP
  sets,             \* Linear.sets: the sets of states registered
  acts,             \* Linear.actions, found by set, class and spawn
  lives,            \* Linear.live_map: the sets of slots interned
  back,             \* Linear.back: what an action and a live set give
  memo,             \* Linear.memo: the last entry of back by action
  calls,            \* how many calls were made
  data,             \* the input of the call
  all,              \* ALWAYS_NULLABLE: every position is a start
  nulls,            \* the starts the reverse scan reported
  pc,               \* where the call is
  lo, hi,           \* the segment
  set,              \* asid: the set of states at p
  p,                \* p
  buf,              \* the entry of each byte of the segment
  live,             \* l, then end_live
  next,             \* where the next match may start
  x,                \* where the next start is looked for
  start,            \* the start that is walked
  slot,             \* j: the slot of its state
  best,             \* its longest end
  matches,          \* the matches pushed
  ret               \* how the call ended

given == <<dfa, caps, calls, data, all, nulls>>
caches == <<sets, acts, lives, back, memo>>
segment == <<lo, hi, set, p, buf, live>>
walking == <<next, x, start, slot, best, matches>>
vars == <<given, caches, pc, segment, walking, ret>>

State == DOMAIN dfa.delta
End == Len(data)

DIED == -1

(* Sets are kept sorted: the slot of a state is the number of those below. *)
Slot(t, s) == IF t = DEAD THEN DIED ELSE Cardinality({u \in s : u < t})
Slots(s) == 0 .. Cardinality(s) - 1
StateAt(s, j) == CHOOSE t \in s : Slot(t, s) = j

-----------------------------------------------------------------------------
(* Every position, if the regex is always nullable, or where some match    *)
(* starts.                                                                 *)
Starts == IF all THEN 0 .. End ELSE nulls

StartsFrom(q) == {i \in Starts : i >= q}
FirstGe(q) == CHOOSE i \in StartsFrom(q) : \A k \in StartsFrom(q) : i <= k

(* The initial state's effects at position i: a match may be empty there.  *)
EmptyMatchAt(i) ==
  (IF i = 0 THEN "begin" ELSE IF i = End THEN "end" ELSE "center") \in dfa.initial

-----------------------------------------------------------------------------
SpawnTarget(how, m) == IF how = "begin" THEN dfa.begin[m] ELSE dfa.delta[INITIAL][m]

(* An action: the set it leads to, the slot each slot moves to, the slot   *)
(* of the start it adds.                                                   *)
ActionOf(key) ==
  LET from == key[1]
      m == key[2]
      spawned == IF key[3] = "none" THEN {} ELSE {SpawnTarget(key[3], m)}
      to == ({dfa.delta[s][m] : s \in from} \cup spawned) \ {DEAD}
  IN [next |-> to,
      map |-> [j \in Slots(from) |-> Slot(dfa.delta[StateAt(from, j)][m], to)],
      spawn |-> IF key[3] = "none" THEN DIED ELSE Slot(SpawnTarget(key[3], m), to)]

Registers(s) == s \in sets \/ Cardinality(sets) < caps[1]
Interns(l) == l \in lives \/ Cardinality(lives) < caps[2]

(* The slots of a set that have an end ahead: at the end of the input, and *)
(* before a step that leads to the live slots l.                           *)
EndLive(s) == {j \in Slots(s) : dfa.end[StateAt(s, j)] # NoRel}

LiveBefore(key, l) ==
  {j \in Slots(key[1]) :
     \/ dfa.center[StateAt(key[1], j)] # NoRel
     \/ acts[key].map[j] \in l}

-----------------------------------------------------------------------------
Init ==
  /\ dfa \in Automata /\ caps \in Capacities
  /\ sets = {{}} /\ acts = <<>> /\ lives = {{}} /\ back = <<>> /\ memo = <<>>
  /\ calls = 0 /\ data = <<0>> /\ all = FALSE /\ nulls = {} /\ pc = "idle"
  /\ lo = 0 /\ hi = 0 /\ set = {} /\ p = 0 /\ buf = <<>> /\ live = {}
  /\ next = 0 /\ x = 0 /\ start = 0 /\ slot = DIED /\ best = NoMatch /\ matches = <<>>
  /\ ret = "none"

(* An always-nullable regex matches at every position.                     *)
Call(input, always) ==
  /\ pc = "idle" /\ calls < MaxCalls
  /\ always => dfa.initial = {"begin", "center", "end"}
  /\ UNCHANGED <<dfa, caps, caches, hi, set, p, buf, live, walking>>
  /\ calls' = calls + 1 /\ data' = input /\ all' = always
  /\ nulls' = IF always THEN {} ELSE Nulls(dfa, input)
  /\ IF Starts' = {}
     THEN pc' = "done" /\ ret' = "ok" /\ UNCHANGED lo
     ELSE pc' = "segment" /\ lo' = FirstGe(0)' /\ UNCHANGED ret

Fail ==
  /\ pc' = "done" /\ ret' = "error"
  /\ UNCHANGED <<given, segment, walking>>

(* The segment begins with no state.                                       *)
Segment ==
  /\ pc = "segment"
  /\ pc' = "forward" /\ p' = lo /\ set' = {} /\ buf' = <<>>
  /\ UNCHANGED <<given, caches, lo, hi, live, walking, ret>>

Spawning == p \in Starts
ForwardEnds == p = End \/ (set = {} /\ ~Spawning)

KeyAt ==
  <<set, Byte(data, p), IF ~Spawning THEN "none" ELSE IF p = 0 THEN "begin" ELSE "initial">>

(* action, begin_action: one byte forward.                                 *)
Forward ==
  /\ pc = "forward" /\ ~ForwardEnds
  /\ LET a == ActionOf(KeyAt)
     IN \/ /\ KeyAt \in DOMAIN acts
           /\ set' = acts[KeyAt].next
           /\ UNCHANGED caches
        \/ /\ KeyAt \notin DOMAIN acts /\ Registers(a.next)
           /\ sets' = sets \cup {a.next}
           /\ acts' = [k \in DOMAIN acts \cup {KeyAt} |-> IF k = KeyAt THEN a ELSE acts[k]]
           /\ set' = a.next
           /\ UNCHANGED <<lives, back, memo>>
  /\ buf' = Append(buf, [act |-> KeyAt, live |-> {}])
  /\ p' = p + 1
  /\ UNCHANGED <<given, pc, lo, hi, live, walking, ret>>

(* The set is one too many, or the automaton cannot make a transition (the *)
(* row of the first byte it always has).                                   *)
ForwardFails ==
  /\ pc = "forward" /\ ~ForwardEnds
  /\ KeyAt \notin DOMAIN acts
  /\ KeyAt[3] = "begin" => ~Registers(ActionOf(KeyAt).next)
  /\ Fail
  /\ UNCHANGED caches

(* end_live: the live slots where the segment ends.                        *)
TurnBack ==
  /\ pc = "forward" /\ ForwardEnds
  /\ LET l == IF p = End THEN EndLive(set) ELSE {}
     IN /\ Interns(l)
        /\ lives' = lives \cup {l}
        /\ live' = l
  /\ hi' = p /\ pc' = "back"
  /\ UNCHANGED <<given, sets, acts, back, memo, lo, set, p, buf,
                 walking, ret>>

TurnBackFails ==
  /\ pc = "forward" /\ p = End /\ ~Interns(EndLive(set))
  /\ Fail
  /\ UNCHANGED caches

-----------------------------------------------------------------------------
(* The live slots at position q of the segment, once known.                *)
LiveAt(q) == IF q = hi THEN live ELSE buf[q - lo + 1].live

Put(f, k, v) == [i \in DOMAIN f \cup {k} |-> IF i = k THEN v ELSE f[i]]

(* As a bug would have it: memo is believed whatever it was made for.      *)
StepBackStale ==
  /\ pc = "back" /\ p > lo
  /\ LET key == buf[p - lo].act
         after == LiveAt(p)
     IN \E l \in SUBSET Slots(key[1]) :
          /\ IF key \in DOMAIN memo
             THEN l = memo[key][2] /\ UNCHANGED <<lives, back, memo>>
             ELSE /\ l = LiveBefore(key, after) /\ Interns(l)
                  /\ lives' = lives \cup {l}
                  /\ back' = Put(back, <<key, after>>, l)
                  /\ memo' = Put(memo, key, <<after, l>>)
          /\ buf' = [buf EXCEPT ![p - lo].live = l]
  /\ p' = p - 1
  /\ UNCHANGED <<given, sets, acts, pc, lo, hi, set, live, walking, ret>>

(* step_back: one byte back, from the live slots after it to those before. *)
StepBack ==
  /\ pc = "back" /\ p > lo
  /\ LET key == buf[p - lo].act
         after == LiveAt(p)
     IN \E l \in SUBSET Slots(key[1]) :
          /\ \/ /\ key \in DOMAIN memo /\ memo[key][1] = after
                /\ l = memo[key][2]
                /\ UNCHANGED <<lives, back>>
             \/ /\ ~(key \in DOMAIN memo /\ memo[key][1] = after)
                /\ <<key, after>> \in DOMAIN back
                /\ l = back[<<key, after>>]
                /\ UNCHANGED <<lives, back>>
             \/ /\ <<key, after>> \notin DOMAIN back
                /\ l = LiveBefore(key, after) /\ Interns(l)
                /\ lives' = lives \cup {l}
                /\ back' = Put(back, <<key, after>>, l)
          /\ memo' = Put(memo, key, <<after, l>>)
          /\ buf' = [buf EXCEPT ![p - lo].live = l]
  /\ p' = p - 1
  /\ UNCHANGED <<given, sets, acts, pc, lo, hi, set, live, walking, ret>>

StepBackFails ==
  /\ pc = "back" /\ p > lo
  /\ LET key == buf[p - lo].act
     IN /\ <<key, LiveAt(p)>> \notin DOMAIN back
        /\ ~Interns(LiveBefore(key, LiveAt(p)))
  /\ Fail
  /\ UNCHANGED caches

TurnForth ==
  /\ pc = "back" /\ p = lo
  /\ pc' = "starts" /\ x' = MaxOf(lo, next)
  /\ UNCHANGED <<given, caches, segment, next, start, slot, best,
                 matches, ret>>

-----------------------------------------------------------------------------
SegmentWalked == StartsFrom(x) \cap 0 .. hi = {}

(* The next start of the segment; at the end of the input there is nothing *)
(* to walk.                                                                *)
NextStart ==
  /\ pc = "starts" /\ ~SegmentWalked
  /\ LET i == FirstGe(x)
     IN /\ start' = i
        /\ best' = IF EmptyMatchAt(i) THEN i ELSE NoMatch
        /\ slot' = IF i < End THEN acts[buf[i - lo + 1].act].spawn ELSE DIED
        /\ p' = i + 1
  /\ pc' = "walk"
  /\ UNCHANGED <<given, caches, lo, hi, set, buf, live, next, x,
                 matches, ret>>

Updated(rel, q, b) == IF rel = NoRel THEN b ELSE MaxOf(b, q - rel)

Alive == slot # DIED /\ slot \in LiveAt(p)

(* One position of the walk: the end reported here, and the next slot.     *)
Walk ==
  /\ pc = "walk" /\ Alive
  /\ LET s == StateAt(acts[buf[p - lo].act].next, slot)
     IN best' = Updated(IF p = End THEN dfa.end[s] ELSE dfa.center[s], p, best)
  /\ IF p = hi
     THEN slot' = DIED /\ UNCHANGED p
     ELSE slot' = acts[buf[p - lo + 1].act].map[slot] /\ p' = p + 1
  /\ UNCHANGED <<given, caches, pc, lo, hi, set, buf, live, next, x,
                 start, matches, ret>>

(* As a bug would have it: the next match starts anywhere behind this one. *)
FoundOverlapping ==
  /\ pc = "walk" /\ ~Alive
  /\ matches' = IF best = NoMatch THEN matches ELSE Append(matches, <<start, best>>)
  /\ next' = start + 1
  /\ x' = start + 1
  /\ pc' = "starts"
  /\ UNCHANGED <<given, caches, segment, start, slot, best, ret>>

(* The match is pushed; the next one starts at its end or later.           *)
Found ==
  /\ pc = "walk" /\ ~Alive
  /\ matches' = IF best = NoMatch THEN matches ELSE Append(matches, <<start, best>>)
  /\ next' = IF best = NoMatch THEN next ELSE IF best > start THEN best ELSE start + 1
  /\ x' = MaxOf(start + 1, next')
  /\ pc' = "starts"
  /\ UNCHANGED <<given, caches, segment, start, slot, best, ret>>

(* As a bug would have it: the search goes on from where the segment began.*)
NextSegmentAgain ==
  /\ pc = "starts" /\ SegmentWalked
  /\ IF hi = End \/ StartsFrom(lo) = {}
     THEN pc' = "done" /\ ret' = "ok" /\ UNCHANGED lo
     ELSE pc' = "segment" /\ lo' = FirstGe(lo) /\ UNCHANGED ret
  /\ UNCHANGED <<given, caches, hi, set, p, buf, live, walking>>

NextSegment ==
  /\ pc = "starts" /\ SegmentWalked
  /\ IF hi = End \/ StartsFrom(hi) = {}
     THEN pc' = "done" /\ ret' = "ok" /\ UNCHANGED lo
     ELSE pc' = "segment" /\ lo' = FirstGe(hi) /\ UNCHANGED ret
  /\ UNCHANGED <<given, caches, hi, set, p, buf, live, walking>>

(* The caller takes the matches; the caches stay.                          *)
Take ==
  /\ pc = "done"
  /\ data' = <<0>> /\ all' = FALSE /\ nulls' = {} /\ pc' = "idle"
  /\ lo' = 0 /\ hi' = 0 /\ set' = {} /\ p' = 0 /\ buf' = <<>> /\ live' = {}
  /\ next' = 0 /\ x' = 0 /\ start' = 0 /\ slot' = DIED /\ best' = NoMatch /\ matches' = <<>>
  /\ ret' = "none"
  /\ UNCHANGED <<dfa, caps, caches, calls>>

Work ==
  \/ Segment \/ Forward \/ ForwardFails \/ TurnBack \/ TurnBackFails
  \/ StepBack \/ StepBackFails \/ TurnForth
  \/ NextStart \/ Walk \/ Found \/ NextSegment \/ Take

Next == Work \/ \E input \in Inputs, always \in BOOLEAN : Call(input, always)

Spec == Init /\ [][Next]_vars /\ WF_vars(Work)
-----------------------------------------------------------------------------
Key == (SUBSET State) \X Minterm \X {"none", "initial", "begin"}
SomeSlots == SUBSET (0 .. Len(dfa.delta) - 2)

TypeOK ==
  /\ dfa \in AutomatonType(Len(dfa.delta)) /\ caps \in Capacities
  /\ sets \subseteq SUBSET (State \ {DEAD}) /\ Cardinality(sets) <= caps[1]
  /\ lives \subseteq SomeSlots /\ Cardinality(lives) <= caps[2]
  /\ DOMAIN acts \subseteq Key
  /\ \A k \in DOMAIN acts : k[1] \in sets /\ acts[k].next \in sets
  /\ \A e \in DOMAIN back : e \in (DOMAIN acts) \X lives /\ back[e] \in lives
  /\ \A k \in DOMAIN memo : k \in DOMAIN acts /\ memo[k] \in lives \X lives
  /\ calls \in 0 .. MaxCalls
  /\ data \in Inputs \cup {<<0>>} /\ all \in BOOLEAN /\ nulls \subseteq 0 .. End
  /\ pc \in {"idle", "segment", "forward", "back", "starts", "walk", "done"}
  /\ lo \in 0 .. End /\ hi \in 0 .. End /\ p \in 0 .. End + 1 /\ set \in sets
  /\ buf \in Seq([act : DOMAIN acts, live : lives])
  /\ live \in lives
  /\ next \in 0 .. End + 1 /\ x \in 0 .. End + 1 /\ start \in 0 .. End
  /\ slot \in {DIED} \cup 0 .. Len(dfa.delta) - 2
  /\ best \in {NoMatch} \cup 0 .. End
  /\ matches \in Seq((0 .. End) \X (0 .. End))
  /\ ret \in {"none", "ok", "error"}

SetAt(q) == IF q = hi THEN set ELSE buf[q - lo + 1].act[1]

HasEndAhead(s, q) ==
  \E r \in RunsFrom(dfa, data, q, s) : Ends(dfa, data, r, q, End) # {}

(* Once a segment has been gone over forward and back, the live slots at   *)
(* each of its positions are exactly those of the states that still report *)
(* an end, at this position or after it: a walk that stops at a slot that  *)
(* is not live misses no end, and one that goes on is not for nothing,     *)
(* which is what keeps the scan linear.                                    *)
LiveExact ==
  pc = "starts" =>
    /\ hi < End => SetAt(hi) = {}
    /\ \A q \in lo .. hi : \A j \in Slots(SetAt(q)) :
         j \in LiveAt(q) <=> HasEndAhead(StateAt(SetAt(q), j), q)

(* The slots followed from the one a start was given lead through the      *)
(* states of the run from this start alone, whatever other starts were run *)
(* in the same sets; best is the longest end on the way.                   *)
WalkFollowsRun ==
  pc = "walk" =>
    \A r \in Runs(dfa, data, start) :
      IF slot = DIED
      THEN p < End => r[p] = DEAD
      ELSE /\ StateAt(acts[buf[p - lo].act].next, slot) = r[p]
           /\ best = LongestUpTo(dfa, data, r, start, p - 1)

(* What holds at every step of the scan: capacities and types are kept,    *)
(* liveness is exact, and slots lead where the run from their start does.  *)
ScanInv == TypeOK /\ LiveExact /\ WalkFollowsRun

(* The matches are the leftmost-longest ones, whatever was interned before *)
(* and wherever the segments were cut.                                     *)
LinearExact ==
  pc = "done" /\ ret = "ok" => LeftmostLongest(dfa, data, matches)

(* Every scan returns.                                                     *)
CallsReturn == (pc # "idle") ~> (pc = "done")
=============================================================================
