-------------------------- MODULE LinearScanProofs --------------------------
(***************************************************************************)
(* LinearScan, for every automaton, input, number of byte classes,         *)
(* capacity and sequence of calls.                                         *)
(***************************************************************************)
EXTENDS LinearScan, MatchingProofs, FiniteSetTheorems

-----------------------------------------------------------------------------
(* The inductive invariant.                                                *)
Given ==
  /\ dfa \in Automata
  /\ pc = "idle" =>
       /\ nulls = {} /\ lo = 0 /\ hi = 0 /\ set = {} /\ p = 0 /\ buf = <<>> /\ live = {}
       /\ next = 0 /\ x = 0 /\ start = 0 /\ slot = DIED /\ best = NoMatch /\ matches = <<>>
       /\ ret = "none"
  /\ pc # "idle" => data \in Inputs
  /\ pc # "idle" /\ all => dfa.initial = {"begin", "center", "end"}
  /\ pc # "idle" /\ ~all => nulls = Nulls(dfa, data)
  /\ pc = "done" => ret # "none"

(* What is interned is what would be computed again.                       *)
Back(key, l) ==
  {j \in Slots(key[1]) :
     dfa.center[StateAt(key[1], j)] # NoRel \/ ActionOf(key).map[j] \in l}

Interned ==
  /\ IsFiniteSet(sets) /\ {} \in sets
  /\ IsFiniteSet(lives) /\ {} \in lives
  /\ \A k \in DOMAIN acts : acts[k] = ActionOf(k)
  /\ \A e \in DOMAIN back : back[e] = Back(e[1], e[2])
  /\ \A k \in DOMAIN memo : memo[k][2] = Back(k, memo[k][1])

(* The sets of a segment lead from one to the next.                        *)
SetOf(q) == IF q < lo + Len(buf) THEN buf[q - lo + 1].act[1] ELSE set
ActOf(q) == buf[q - lo + 1].act
How(q) == IF q \notin Starts THEN "none" ELSE IF q = 0 THEN "begin" ELSE "initial"

Chain ==
  /\ lo \in Starts /\ lo + Len(buf) <= End
  /\ SetOf(lo) = {}
  /\ \A q \in lo .. lo + Len(buf) - 1 :
       /\ ActOf(q) = <<SetOf(q), Byte(data, q), How(q)>>
       /\ SetOf(q + 1) = ActionOf(ActOf(q)).next

LiveFrom(q0) ==
  \A q \in q0 .. hi : \A j \in Slots(SetOf(q)) :
    j \in LiveAt(q) <=> HasEndAhead(StateAt(SetOf(q), j), q)

Turned ==
  /\ hi = lo + Len(buf)
  /\ hi < End => set = {} /\ hi \notin Starts

Place ==
  /\ pc = "segment" => lo \in Starts
  /\ pc \in {"forward", "back", "starts", "walk"} => Chain
  /\ pc = "forward" => p = lo + Len(buf)
  /\ pc \in {"back", "starts", "walk"} => Turned
  /\ pc = "back" => p \in lo .. hi /\ LiveFrom(p)
  /\ pc \in {"starts", "walk"} => LiveFrom(lo)

(* A walk looks at the run from its start: from start i, at position q,    *)
(* with the slot j and the longest end b so far.                           *)
WalkAt(i, j, q, b) ==
  /\ i <= hi /\ i < q
  /\ j # DIED => q <= hi /\ j \in Slots(SetOf(q))
  /\ \A r \in Runs(dfa, data, i) :
       /\ j = DIED => /\ IsLongest(b, dfa, data, r, i, End)
                      /\ q < End => r[q] = DEAD
       /\ j # DIED => /\ IsLongest(b, dfa, data, r, i, q - 1)
                      /\ StateAt(SetOf(q), j) = r[q]

Following == pc = "walk" => WalkAt(start, slot, p, best)

(* What was pushed is right so far, and no start after it was left out.    *)
Listed == Matched(dfa, data, matches)

Ahead(q) == \A i \in Starts : i >= next => i >= q

Visits ==
  /\ pc # "idle" => Listed
  /\ next = StartsAfter(matches, Len(matches))
  /\ pc \in {"segment", "forward", "back"} => Ahead(lo)
  /\ pc \in {"starts", "walk"} => Ahead(x) /\ lo <= x /\ next <= x
  /\ pc = "walk" => start \in Starts /\ x <= start /\ Ahead(start)
  /\ pc = "done" /\ ret = "ok" => \A i \in Starts : i < next

IInv == TypeOK /\ Given /\ Interned /\ Place /\ Following /\ Visits

-----------------------------------------------------------------------------
(* Slots.  The states of a set and its slots are as many, so that each     *)
(* slot is the slot of one state.                                          *)
LEMMA SlotsOfStates ==
  ASSUME NEW n \in Nat, NEW s \in SUBSET (2 .. n)
  PROVE  /\ IsFiniteSet(s) /\ Cardinality(s) \in Nat /\ (n >= 1 => Cardinality(s) <= n - 1)
         /\ \A t \in s : Slot(t, s) \in Slots(s)
         /\ \A t, u \in s : t < u => Slot(t, s) < Slot(u, s)
<1> DEFINE Below(t) == {u \in s : u < t}
<1>1. IsFiniteSet(2 .. n) /\ (n >= 1 => Cardinality(2 .. n) <= n - 1)
  <2>1. 2 \in Int /\ n \in Int
    OBVIOUS
  <2>2. IsFiniteSet(2 .. n) /\ Cardinality(2 .. n) = IF 2 > n THEN 0 ELSE n - 2 + 1
    BY <2>1, FS_Interval
  <2> QED
    BY <2>2
<1>2. IsFiniteSet(s) /\ Cardinality(s) <= Cardinality(2 .. n)
  BY <1>1, FS_Subset
<1>3. Cardinality(s) \in Nat /\ Cardinality(2 .. n) \in Nat
  BY <1>1, <1>2, FS_CardinalityType
<1>4. ASSUME NEW a \in SUBSET s, NEW b \in SUBSET a, a # b
      PROVE  /\ Cardinality(a) \in Nat /\ Cardinality(b) \in Nat
             /\ Cardinality(b) < Cardinality(a) /\ Cardinality(a) <= Cardinality(s)
  <2>1. IsFiniteSet(a) /\ Cardinality(a) <= Cardinality(s)
    BY <1>2, FS_Subset
  <2>2. IsFiniteSet(b) /\ Cardinality(b) <= Cardinality(a) /\ Cardinality(b) # Cardinality(a)
    BY <1>4, <2>1, FS_Subset
  <2>3. Cardinality(a) \in Nat /\ Cardinality(b) \in Nat
    BY <2>1, <2>2, FS_CardinalityType
  <2> QED
    BY <2>1, <2>2, <2>3
<1>5. \A t \in s : t \in Int /\ t # DEAD
  BY DEF DEAD
<1>6. \A t \in s : Slot(t, s) = Cardinality(Below(t))
  BY <1>5 DEF Slot
<1>7. ASSUME NEW t \in s PROVE Slot(t, s) \in Slots(s)
  <2>1. Below(t) \in SUBSET s /\ t \notin Below(t) /\ Below(t) # s
    BY <1>5
  <2>2. s \in SUBSET s
    OBVIOUS
  <2> HIDE DEF Below
  <2>3. Cardinality(Below(t)) \in Nat /\ Cardinality(Below(t)) < Cardinality(s)
    BY <1>4, <2>1, <2>2
  <2> QED
    BY <1>3, <1>6, <2>3 DEF Slots
<1>8. ASSUME NEW t \in s, NEW u \in s, t < u PROVE Slot(t, s) < Slot(u, s)
  <2>0. \A v \in s : v < t => v < u
    BY <1>5, <1>8
  <2>1. Below(u) \subseteq s /\ t \in Below(u) /\ t \notin Below(t)
    BY <1>5, <1>8
  <2>3. Below(t) \subseteq Below(u)
    BY <2>0
  <2>2. Below(t) # Below(u)
    BY <2>1
  <2> HIDE DEF Below
  <2> QED
    BY <1>4, <1>6, <2>1, <2>2, <2>3
<1> QED
  BY <1>1, <1>2, <1>3, <1>7, <1>8

LEMMA StatesOfSlots ==
  ASSUME NEW n \in Nat, NEW s \in SUBSET (2 .. n)
  PROVE  /\ \A j \in Slots(s) : StateAt(s, j) \in s /\ Slot(StateAt(s, j), s) = j
         /\ \A t \in s : StateAt(s, Slot(t, s)) = t
<1>1. /\ IsFiniteSet(s) /\ Cardinality(s) \in Nat
      /\ \A t \in s : Slot(t, s) \in Slots(s)
      /\ \A t, u \in s : t < u => Slot(t, s) < Slot(u, s)
  BY SlotsOfStates
<1> DEFINE f == [t \in s |-> Slot(t, s)]
<1>2. \A t, u \in s : Slot(t, s) = Slot(u, s) => t = u
  <2>1. \A t \in s : t \in Int /\ Slot(t, s) \in Int
    BY <1>1 DEF Slots
  <2>2. \A t, u \in s : t < u \/ u < t \/ t = u
    BY <2>1
  <2> QED
    BY <1>1, <2>1, <2>2
<1>3. f \in Injection(s, Slots(s))
  BY <1>1, <1>2 DEF Injection, IsInjective
<1>4. IsFiniteSet(Slots(s)) /\ Cardinality(Slots(s)) = Cardinality(s)
  <2>1. 0 \in Int /\ Cardinality(s) - 1 \in Int /\ Cardinality(s) \in Nat
    BY <1>1
  <2>2. /\ IsFiniteSet(0 .. Cardinality(s) - 1)
        /\ Cardinality(0 .. Cardinality(s) - 1)
             = IF 0 > Cardinality(s) - 1 THEN 0 ELSE (Cardinality(s) - 1) - 0 + 1
    BY <2>1, FS_Interval
  <2> QED
    BY <2>1, <2>2 DEF Slots
<1>5. f \in Surjection(s, Slots(s))
  <2> HIDE DEF f
  <2> QED
    BY <1>3, <1>4, FS_Injection
<1>6. \A j \in Slots(s) : \E t \in s : Slot(t, s) = j
  BY <1>5 DEF Surjection
<1> QED
  BY <1>1, <1>2, <1>6 DEF StateAt

-----------------------------------------------------------------------------
(* What a call may rely on.                                                *)
LEMMA Automaton ==
  ASSUME TypeOK, Given
  PROVE  /\ WellFormed(dfa) /\ State = 1 .. Len(dfa.delta) /\ State \ {DEAD} = 2 .. Len(dfa.delta)
         /\ Len(dfa.delta) \in Nat /\ Len(dfa.delta) >= 2 /\ INITIAL \in State /\ DEAD \in State
         /\ dfa.delta \in [State -> [Minterm -> State]] /\ dfa.begin \in [Minterm -> State]
<1>1. WellFormed(dfa)
  BY LinearScanAssumption DEF Given
<1>2. dfa.delta \in [1 .. Len(dfa.delta) -> [Minterm -> 1 .. Len(dfa.delta)]]
      /\ dfa.begin \in [Minterm -> 1 .. Len(dfa.delta)]
      /\ Len(dfa.delta) >= 2 /\ dfa.pruned \in 2 .. Len(dfa.delta)
  BY <1>1 DEF WellFormed, AutomatonType
<1>3. Len(dfa.delta) \in Nat
  BY <1>2
<1>4. State = 1 .. Len(dfa.delta)
  BY <1>2 DEF State
<1> HIDE DEF State
<1> QED
  BY <1>1, <1>2, <1>3, <1>4 DEF DEAD, INITIAL

LEMMA Setting ==
  ASSUME TypeOK, Given, pc # "idle"
  PROVE  /\ WellFormed(dfa) /\ IsInput(data) /\ EndsFollowStarts(dfa, data)
         /\ End \in Nat \ {0} /\ Starts \subseteq 0 .. End
         /\ \A q \in 0 .. End - 1 : Byte(data, q) \in Minterm
<1>1. IsInput(data) /\ WellFormed(dfa) /\ EndsFollowStarts(dfa, data)
  BY LinearScanAssumption DEF Given
<1>2. End \in Nat \ {0}
  BY <1>1 DEF IsInput, End
<1>3. Starts \subseteq 0 .. End
  BY DEF TypeOK, Starts
<1>4. \A q \in 0 .. End - 1 : Byte(data, q) \in Minterm
  BY <1>1, <1>2 DEF IsInput, Byte, End
<1> QED
  BY <1>1, <1>2, <1>3, <1>4

LEMMA Slotted ==
  ASSUME TypeOK, Given, NEW s \in SUBSET (State \ {DEAD})
  PROVE  /\ \A j \in Slots(s) : StateAt(s, j) \in s /\ Slot(StateAt(s, j), s) = j
         /\ \A t \in s : Slot(t, s) \in Slots(s) /\ StateAt(s, Slot(t, s)) = t
         /\ Slots(s) \subseteq 0 .. Len(dfa.delta) - 2
         /\ DIED \notin Slots(s)
<1>1. Len(dfa.delta) \in Nat /\ s \in SUBSET (2 .. Len(dfa.delta)) /\ Len(dfa.delta) >= 2
  BY Automaton
<1>2. /\ Cardinality(s) \in Nat
      /\ \A t \in s : Slot(t, s) \in Slots(s)
      /\ \A j \in Slots(s) : StateAt(s, j) \in s /\ Slot(StateAt(s, j), s) = j
      /\ \A t \in s : StateAt(s, Slot(t, s)) = t
  BY <1>1, SlotsOfStates, StatesOfSlots
<1>3. Cardinality(s) <= Len(dfa.delta) - 1
  BY <1>1, SlotsOfStates
<1>4. Slots(s) \subseteq 0 .. Len(dfa.delta) - 2 /\ DIED \notin Slots(s)
  BY <1>1, <1>2, <1>3 DEF Slots, DIED
<1> QED
  BY <1>2, <1>4

-----------------------------------------------------------------------------
(* Actions.                                                                *)
LEMMA ActionLeads ==
  ASSUME TypeOK, Given, NEW k \in Key, k[1] \subseteq State \ {DEAD}
  PROVE  LET a == ActionOf(k)
         IN /\ a.next \subseteq State \ {DEAD}
            /\ a.map \in [Slots(k[1]) -> {DIED} \cup Slots(a.next)]
            /\ \A j \in Slots(k[1]) :
                 LET t == dfa.delta[StateAt(k[1], j)][k[2]]
                 IN /\ t = DEAD => a.map[j] = DIED
                    /\ t # DEAD => a.map[j] # DIED /\ StateAt(a.next, a.map[j]) = t
            /\ a.spawn \in {DIED} \cup Slots(a.next)
            /\ k[3] # "none" =>
                 LET t == SpawnTarget(k[3], k[2])
                 IN /\ t = DEAD => a.spawn = DIED
                    /\ t # DEAD => a.spawn # DIED /\ StateAt(a.next, a.spawn) = t
<1> DEFINE spawned == IF k[3] = "none" THEN {} ELSE {SpawnTarget(k[3], k[2])}
           to == ({dfa.delta[s][k[2]] : s \in k[1]} \cup spawned) \ {DEAD}
<1>1. k[1] \subseteq State /\ k[2] \in Minterm
  BY DEF Key
<1>2. spawned \subseteq State
  BY <1>1, Automaton DEF SpawnTarget
<1>3. \A s \in k[1] : dfa.delta[s][k[2]] \in State
  <2>1. dfa.delta \in [State -> [Minterm -> State]]
    BY Automaton
  <2> QED
    BY <1>1, <2>1
<1>4. to \in SUBSET (State \ {DEAD})
  BY <1>2, <1>3
<1>5. /\ ActionOf(k).next = to
      /\ ActionOf(k).map = [j \in Slots(k[1]) |-> Slot(dfa.delta[StateAt(k[1], j)][k[2]], to)]
      /\ ActionOf(k).spawn = IF k[3] = "none" THEN DIED ELSE Slot(SpawnTarget(k[3], k[2]), to)
  BY DEF ActionOf
<1>6. \A j \in Slots(k[1]) : StateAt(k[1], j) \in k[1]
  BY Slotted
<1>7. \A j \in Slots(k[1]) : LET t == dfa.delta[StateAt(k[1], j)][k[2]]
                             IN t \in State /\ (t # DEAD => t \in to)
  BY <1>3, <1>6
<1>8. k[3] # "none" => LET t == SpawnTarget(k[3], k[2])
                       IN t \in State /\ (t # DEAD => t \in to)
  BY <1>2
<1> HIDE DEF to, spawned
<1>9. /\ \A t \in to : Slot(t, to) \in Slots(to) /\ StateAt(to, Slot(t, to)) = t
      /\ DIED \notin Slots(to)
  BY <1>4, Slotted
<1>10. Slot(DEAD, to) = DIED
  BY DEF Slot
<1>11. \A t \in State : (t # DEAD => t \in to) =>
         /\ Slot(t, to) \in {DIED} \cup Slots(to)
         /\ t = DEAD => Slot(t, to) = DIED
         /\ t # DEAD => Slot(t, to) # DIED /\ StateAt(to, Slot(t, to)) = t
  BY <1>9, <1>10
<1>12. \A j \in Slots(k[1]) : ActionOf(k).map[j] = Slot(dfa.delta[StateAt(k[1], j)][k[2]], to)
  BY <1>5
<1>13. ActionOf(k).map \in [Slots(k[1]) -> {DIED} \cup Slots(to)]
  BY <1>5, <1>7, <1>11
<1>14. \A j \in Slots(k[1]) :
          LET t == dfa.delta[StateAt(k[1], j)][k[2]]
          IN /\ t = DEAD => ActionOf(k).map[j] = DIED
             /\ t # DEAD => ActionOf(k).map[j] # DIED /\ StateAt(to, ActionOf(k).map[j]) = t
  BY <1>7, <1>11, <1>12
<1>15. /\ ActionOf(k).spawn \in {DIED} \cup Slots(to)
       /\ k[3] # "none" =>
            LET t == SpawnTarget(k[3], k[2])
            IN /\ t = DEAD => ActionOf(k).spawn = DIED
               /\ t # DEAD => ActionOf(k).spawn # DIED /\ StateAt(to, ActionOf(k).spawn) = t
  BY <1>5, <1>8, <1>11
<1> QED
  BY <1>4, <1>5, <1>13, <1>14, <1>15

LEMMA NoSlots == Slots({}) = {}
  BY FS_EmptySet DEF Slots

(* One byte back: a state has an end ahead if it reports one here or if    *)
(* the state after it has one ahead.                                       *)
LEMMA BackExact ==
  ASSUME TypeOK, Given, pc # "idle", NEW q \in 1 .. End - 1,
         NEW k \in Key, k[1] \subseteq State \ {DEAD}, k[2] = Byte(data, q),
         NEW l, DIED \notin l,
         \A j \in Slots(ActionOf(k).next) :
           j \in l <=> HasEndAhead(StateAt(ActionOf(k).next, j), q + 1)
  PROVE  \A j \in Slots(k[1]) : j \in Back(k, l) <=> HasEndAhead(StateAt(k[1], j), q)
<1> TAKE j \in Slots(k[1])
<1> DEFINE s == StateAt(k[1], j)
           t == dfa.delta[s][k[2]]
           a == ActionOf(k)
<1>1. s \in State /\ k[2] \in Minterm /\ t \in State
  <2>1. s \in k[1]
    BY Slotted
  <2> QED
    BY <2>1, Automaton DEF Key
<1>2. /\ a.map[j] \in {DIED} \cup Slots(a.next)
      /\ t = DEAD => a.map[j] = DIED
      /\ t # DEAD => a.map[j] # DIED /\ StateAt(a.next, a.map[j]) = t
  BY ActionLeads
<1>3. HasEndAhead(s, q) <=> dfa.center[s] # NoRel \/ HasEndAhead(t, q + 1)
  BY <1>1, Setting, EndAheadStep DEF HasEndAhead, EndAhead, End, State
<1>4. a.map[j] \in l <=> HasEndAhead(t, q + 1)
  <2>1. CASE t = DEAD
    <3>1. ~ HasEndAhead(DEAD, q + 1)
      BY Setting, EndAheadDead DEF HasEndAhead, EndAhead, End
    <3> QED
      BY <1>2, <2>1, <3>1
  <2>2. CASE t # DEAD
    BY <1>2, <2>2
  <2> QED
    BY <2>1, <2>2
<1>5. j \in Back(k, l) <=> dfa.center[s] # NoRel \/ a.map[j] \in l
  BY DEF Back
<1> QED
  BY <1>3, <1>4, <1>5

-----------------------------------------------------------------------------
(* What a step leaves as it is.                                            *)
LEMMA SameAutomaton ==
  ASSUME UNCHANGED dfa
  PROVE  /\ \A k : ActionOf(k)' = ActionOf(k)
         /\ \A k, l : Back(k, l)' = Back(k, l)
         /\ State' = State /\ Key' = Key /\ SomeSlots' = SomeSlots
<1>1. State' = State /\ SomeSlots' = SomeSlots
  BY DEF State, SomeSlots
<1>2. Key' = Key
  BY <1>1 DEF Key
<1>3. \A k : ActionOf(k)' = ActionOf(k)
  BY DEF ActionOf, SpawnTarget
<1>4. \A k, l : Back(k, l)' = Back(k, l)
  BY <1>3 DEF Back
<1> QED
  BY <1>1, <1>2, <1>3, <1>4

LEMMA SameGiven ==
  ASSUME UNCHANGED given
  PROVE  /\ Starts' = Starts /\ End' = End
         /\ \A q : How(q)' = How(q)
         /\ \A s, q : HasEndAhead(s, q)' = HasEndAhead(s, q)
<1>1. Starts' = Starts /\ End' = End
  BY DEF given, Starts, End
<1>2. \A q : How(q)' = How(q)
  BY <1>1 DEF How
<1>3. \A s, q : HasEndAhead(s, q)' = HasEndAhead(s, q)
  BY <1>1 DEF HasEndAhead, given
<1> QED
  BY <1>1, <1>2, <1>3

LEMMA SameInterned ==
  ASSUME Interned, UNCHANGED <<dfa, caches>>
  PROVE  Interned'
  BY SameAutomaton DEF Interned, caches

LEMMA SameListed ==
  ASSUME UNCHANGED <<dfa, data, matches>>
  PROVE  Listed <=> Listed'
  BY DEF Listed, Matched

(* The live slots may be entered in the entries of a segment.              *)
LEMMA SameChain ==
  ASSUME Chain, UNCHANGED <<given, lo, set>>, Len(buf) \in Nat, Len(buf') = Len(buf),
         \A i \in 1 .. Len(buf) : buf'[i].act = buf[i].act, lo \in Nat
  PROVE  /\ Chain'
         /\ \A q \in lo .. lo + Len(buf) : SetOf(q)' = SetOf(q)
         /\ \A q \in lo .. lo + Len(buf) - 1 : ActOf(q)' = ActOf(q)
<1>1. \A q \in lo .. lo + Len(buf) - 1 : ActOf(q)' = ActOf(q)
  BY DEF ActOf
<1>2. \A q \in lo .. lo + Len(buf) : SetOf(q)' = SetOf(q)
  BY DEF SetOf
<1>3. UNCHANGED dfa
  BY DEF given
<1>4. \A q \in lo .. lo + Len(buf) - 1 : ActOf(q)' = <<SetOf(q)', Byte(data', q), How(q)'>>
  BY <1>1, <1>2, SameGiven DEF Chain, given
<1>5. \A q \in lo .. lo + Len(buf) - 1 : SetOf(q + 1)' = ActionOf(ActOf(q))'.next
  <2> TAKE q \in lo .. lo + Len(buf) - 1
  <2>1. q + 1 \in lo .. lo + Len(buf)
    OBVIOUS
  <2>2. SetOf(q + 1) = ActionOf(ActOf(q)).next
    BY DEF Chain
  <2>3. ActionOf(ActOf(q))' = ActionOf(ActOf(q))
    BY <1>1, <1>3 DEF ActionOf, SpawnTarget
  <2> QED
    BY <1>2, <2>1, <2>2, <2>3
<1>6. SetOf(lo)' = {}
  BY <1>2 DEF Chain
<1>7. lo' \in Starts' /\ lo' + Len(buf') <= End'
  BY SameGiven DEF Chain
<1> QED
  BY <1>1, <1>2, <1>4, <1>5, <1>6, <1>7 DEF Chain

LEMMA SameSegment ==
  ASSUME Chain, UNCHANGED <<given, lo, hi, set, buf, live>>, Len(buf) \in Nat, lo \in Nat
  PROVE  /\ Chain'
         /\ Turned => Turned'
         /\ Turned /\ LiveFrom(lo) => LiveFrom(lo)'
         /\ \A q \in lo .. lo + Len(buf) : SetOf(q)' = SetOf(q)
<1>1. Chain' /\ \A q \in lo .. lo + Len(buf) : SetOf(q)' = SetOf(q)
  BY SameChain
<1>2. Turned => Turned'
  BY SameGiven DEF Turned
<1>3. ASSUME Turned, LiveFrom(lo) PROVE LiveFrom(lo)'
  <2>1. \A q \in lo .. hi : SetOf(q)' = SetOf(q) /\ LiveAt(q)' = LiveAt(q)
    BY <1>1, <1>3 DEF Turned, LiveAt
  <2> QED
    BY <1>3, <2>1, SameGiven DEF LiveFrom
<1> QED
  BY <1>1, <1>2, <1>3

LEMMA InSegment ==
  ASSUME TypeOK, Given, pc # "idle", Interned, Chain
  PROVE  /\ End \in Nat /\ lo \in 0 .. End /\ Len(buf) \in Nat /\ lo + Len(buf) \in lo .. End
         /\ SetOf(lo) = {}
         /\ \A q \in lo .. lo + Len(buf) : SetOf(q) \in sets /\ SetOf(q) \subseteq State \ {DEAD}
         /\ \A q \in lo .. lo + Len(buf) - 1 :
              /\ ActOf(q) \in DOMAIN acts /\ ActOf(q) \in Key
              /\ ActOf(q)[1] = SetOf(q) /\ ActOf(q)[2] = Byte(data, q) /\ ActOf(q)[3] = How(q)
              /\ acts[ActOf(q)] = ActionOf(ActOf(q))
              /\ ActionOf(ActOf(q)).next = SetOf(q + 1)
              /\ buf[q - lo + 1].live \in lives
<1>1. buf \in Seq([act : DOMAIN acts, live : lives]) /\ lo \in 0 .. End /\ End \in Nat
  BY Setting DEF TypeOK
<1>2. Len(buf) \in Nat /\ lo + Len(buf) \in lo .. End /\ SetOf(lo) = {}
  BY <1>1 DEF Chain
<1>3. ASSUME NEW q \in lo .. lo + Len(buf) - 1
      PROVE  /\ ActOf(q) \in DOMAIN acts /\ ActOf(q) \in Key
             /\ ActOf(q)[1] = SetOf(q) /\ ActOf(q)[2] = Byte(data, q) /\ ActOf(q)[3] = How(q)
             /\ acts[ActOf(q)] = ActionOf(ActOf(q))
             /\ ActionOf(ActOf(q)).next = SetOf(q + 1)
             /\ buf[q - lo + 1].live \in lives
  <2>1. q - lo + 1 \in 1 .. Len(buf)
    BY <1>1, <1>2
  <2>2. buf[q - lo + 1] \in [act : DOMAIN acts, live : lives]
    <3> DEFINE Entry == [act : DOMAIN acts, live : lives]
    <3>1. buf \in Seq(Entry)
      BY <1>1
    <3> HIDE DEF Entry
    <3>2. buf[q - lo + 1] \in Entry
      BY <2>1, <3>1
    <3> QED
      BY <3>2 DEF Entry
  <2>3. ActOf(q) = <<SetOf(q), Byte(data, q), How(q)>> /\ SetOf(q + 1) = ActionOf(ActOf(q)).next
    BY DEF Chain
  <2>4. ActOf(q) \in DOMAIN acts /\ buf[q - lo + 1].live \in lives
    BY <2>2 DEF ActOf
  <2> QED
    BY <2>3, <2>4 DEF Interned, TypeOK
<1>4. ASSUME NEW q \in lo .. lo + Len(buf)
      PROVE  SetOf(q) \in sets /\ SetOf(q) \subseteq State \ {DEAD}
  <2>1. CASE q = lo + Len(buf)
    BY <1>1, <1>2, <2>1 DEF SetOf, TypeOK
  <2>2. CASE q # lo + Len(buf)
    <3>1. q \in lo .. lo + Len(buf) - 1
      BY <1>1, <1>2, <2>2
    <3>2. ActOf(q) \in DOMAIN acts /\ ActOf(q)[1] = SetOf(q)
      BY <1>3, <3>1
    <3> QED
      BY <3>2 DEF TypeOK
  <2> QED
    BY <2>1, <2>2
<1> QED
  BY <1>1, <1>2, <1>3, <1>4

-----------------------------------------------------------------------------
(* Steps.                                                                  *)
LEMMA FailKeeps == ASSUME IInv, pc # "idle", Fail, UNCHANGED caches PROVE IInv'
<1> USE DEF Fail
<1>1. TypeOK'
  BY DEF IInv, TypeOK, given, caches, segment, walking, State, End, Key, SomeSlots
<1>2. Given'
  BY DEF IInv, Given, given, walking
<1>3. Interned'
  BY SameInterned DEF IInv, given
<1>4. Place' /\ Following'
  BY DEF Place, Following
<1>5. Visits'
  BY SameListed DEF IInv, Visits, given, walking
<1> QED
  BY <1>1, <1>2, <1>3, <1>4, <1>5 DEF IInv

(* first_ge finds the first start, if there is one.                        *)
LEMMA FirstInSet ==
  ASSUME NEW T \in SUBSET Nat, NEW q \in Nat, NEW S, S = {i \in T : i >= q}, S # {}, NEW f,
         f = CHOOSE i \in S : \A k \in S : i <= k
  PROVE  f \in T /\ f >= q /\ \A k \in T : k >= q => f <= k
<1>1. \E i \in S : \A k \in S : i <= k
  BY FirstPosition
<1>2. f \in S /\ \A k \in S : f <= k
  BY <1>1
<1> QED
  BY <1>2

LEMMA FirstGeFirst ==
  ASSUME Starts \subseteq Nat, NEW q \in Nat, StartsFrom(q) # {}
  PROVE  /\ FirstGe(q) \in Starts /\ FirstGe(q) >= q
         /\ \A k \in Starts : k >= q => FirstGe(q) <= k
<1>1. StartsFrom(q) \in SUBSET Nat
  BY DEF StartsFrom
<1>2. \E i \in StartsFrom(q) : \A k \in StartsFrom(q) : i <= k
  BY <1>1, FirstPosition
<1>3. FirstGe(q) \in StartsFrom(q) /\ \A k \in StartsFrom(q) : FirstGe(q) <= k
  BY <1>2 DEF FirstGe
<1> QED
  BY <1>3 DEF StartsFrom

LEMMA CallKeeps ==
  ASSUME IInv, NEW input \in Inputs, NEW always \in BOOLEAN, Call(input, always)
  PROVE  IInv'
<1> USE DEF Call
<1>1. input \in Inputs /\ IsInput(input) /\ Len(input) \in Nat
  BY LinearScanAssumption DEF IsInput
<1>2. pc = "idle" /\ next = 0 /\ matches = <<>> /\ End' = Len(input) /\ MaxCalls \in Nat
  BY LinearScanAssumption DEF IInv, Given, End
<1>3. Starts' \subseteq 0 .. End' /\ nulls' \subseteq 0 .. End'
  BY <1>1, <1>2 DEF Starts, Nulls
<1>4. lo' \in 0 .. End' /\ (Starts' # {} => lo' \in Starts' /\ \A k \in Starts' : lo' <= k)
  <2>1. CASE Starts' = {}
    BY <1>1, <1>2, <2>1 DEF IInv, Given
  <2>2. CASE Starts' # {}
    <3>1. lo' = FirstGe(0)'
      BY <2>2
    <3>2. /\ FirstGe(0)' = CHOOSE i \in StartsFrom(0)' : \A k \in StartsFrom(0)' : i <= k
          /\ StartsFrom(0)' = {i \in Starts' : i >= 0}
      BY DEF FirstGe, StartsFrom
    <3>3. \A i \in Starts' : i \in 0 .. End' /\ i >= 0 /\ i \in Nat
      BY <1>1, <1>2, <1>3
    <3> DEFINE T == Starts'
               S == StartsFrom(0)'
    <3>4. T \in SUBSET Nat /\ S = {i \in T : i >= 0} /\ S # {}
          /\ lo' = CHOOSE i \in S : \A k \in S : i <= k
      BY <2>2, <3>1, <3>2, <3>3
    <3> HIDE DEF T, S
    <3>5. lo' \in T /\ \A k \in T : k >= 0 => lo' <= k
      BY <3>4, FirstInSet
    <3> QED
      BY <3>3, <3>5 DEF T
  <2> QED
    BY <2>1, <2>2
<1>5. TypeOK'
  BY <1>1, <1>2, <1>3, <1>4, SameAutomaton DEF IInv, Given, TypeOK, caches, walking, DIED
<1>6. Given'
  BY <1>2 DEF IInv, Given, walking
<1>7. Interned'
  BY SameInterned DEF IInv
<1>8. Place' /\ Following'
  BY <1>4 DEF Place, Following
<1>9. Visits'
  BY <1>2, <1>4 DEF Visits, Listed, Matched, StartsAfter, Ahead, walking
<1> QED
  BY <1>5, <1>6, <1>7, <1>8, <1>9 DEF IInv

LEMMA SegmentKeeps == ASSUME IInv, Segment PROVE IInv'
<1> USE DEF Segment
<1>1. TypeOK /\ Given /\ pc = "segment" /\ lo \in Starts /\ lo \in 0 .. End /\ End \in Nat
      /\ {} \in sets
  BY Setting DEF IInv, Place, TypeOK, Interned
<1>2. TypeOK'
  <2>1. UNCHANGED given /\ UNCHANGED caches /\ UNCHANGED <<lo, hi, live>> /\ UNCHANGED walking /\ ret' = ret
        /\ pc' = "forward" /\ p' = lo /\ set' = {} /\ buf' = <<>>
    OBVIOUS
  <2>2. /\ UNCHANGED <<dfa, caps, calls, data, all, nulls, sets, acts, lives, back, memo>>
        /\ UNCHANGED <<next, x, start, slot, best, matches>> /\ UNCHANGED <<lo, hi, live, ret>>
        /\ p' \in 0 .. End + 1 /\ set' \in sets' /\ pc' = "forward" /\ buf' = <<>>
    BY <1>1, <2>1 DEF given, caches, walking
  <2>3. End' = End /\ State' = State /\ Key' = Key /\ SomeSlots' = SomeSlots
    BY <2>2, SameAutomaton DEF End
  <2>4. buf' \in Seq([act : DOMAIN acts', live : lives'])
    BY <2>2
  <2> HIDE DEF Segment
  <2> QED
    BY <1>1, <2>2, <2>3, <2>4 DEF TypeOK
<1>3. Given'
  BY DEF IInv, Given, given, walking
<1>4. Interned'
  BY SameInterned DEF IInv, given
<1>5. Chain' /\ p' = (lo + Len(buf))'
  BY <1>1, SameGiven DEF Chain, SetOf
<1>6. Place' /\ Following'
  BY <1>5 DEF Place, Following
<1>7. Visits'
  BY SameListed, SameGiven DEF IInv, Visits, given, walking, Ahead
<1> QED
  BY <1>2, <1>3, <1>4, <1>6, <1>7 DEF IInv

-----------------------------------------------------------------------------
(* Forward.                                                                *)
LEMMA AtForward ==
  ASSUME IInv, pc = "forward", ~ForwardEnds
  PROVE  /\ p = lo + Len(buf) /\ p \in lo .. End - 1 /\ SetOf(p) = set
         /\ KeyAt = <<SetOf(p), Byte(data, p), How(p)>>
         /\ KeyAt \in Key /\ KeyAt[1] \subseteq State \ {DEAD} /\ KeyAt[1] \in sets
         /\ ActionOf(KeyAt).next \in SUBSET (State \ {DEAD})
<1>1. TypeOK /\ Given /\ Interned /\ Chain /\ p = lo + Len(buf)
  BY DEF IInv, Place
<1>2. End \in Nat /\ lo \in 0 .. End /\ p \in lo .. End
  BY <1>1, InSegment
<1>3. p \in lo .. End - 1
  BY <1>2 DEF ForwardEnds
<1>4. SetOf(p) = set
  BY <1>1 DEF SetOf
<1>5. KeyAt = <<SetOf(p), Byte(data, p), How(p)>>
  BY <1>4 DEF KeyAt, How, Spawning
<1>6. set \in sets /\ set \subseteq State \ {DEAD}
  BY <1>1 DEF TypeOK
<1>7. Byte(data, p) \in Minterm /\ How(p) \in {"none", "initial", "begin"}
  BY <1>1, <1>2, <1>3, Setting DEF How
<1>8. KeyAt \in Key
  BY <1>4, <1>5, <1>6, <1>7 DEF Key
<1>9. KeyAt[1] = set
  BY <1>4, <1>5
<1> QED
  BY <1>1, <1>3, <1>4, <1>5, <1>6, <1>8, <1>9, ActionLeads

LEMMA ForwardFailsKeeps == ASSUME IInv, ForwardFails PROVE IInv'
  BY FailKeeps DEF ForwardFails
LEMMA TurnBackFailsKeeps == ASSUME IInv, TurnBackFails PROVE IInv'
  BY FailKeeps DEF TurnBackFails
LEMMA StepBackFailsKeeps == ASSUME IInv, StepBackFails PROVE IInv'
  BY FailKeeps DEF StepBackFails

LEMMA ForwardInterns ==
  ASSUME IInv, Forward
  PROVE  /\ sets \subseteq sets' /\ set' \in sets' /\ set' = ActionOf(KeyAt).next
         /\ sets' \subseteq SUBSET (State \ {DEAD}) /\ IsFiniteSet(sets') /\ Cardinality(sets') <= caps[1]
         /\ DOMAIN acts' = DOMAIN acts \cup {KeyAt}
         /\ \A k \in DOMAIN acts' : acts'[k] = ActionOf(k)
         /\ UNCHANGED <<given, lives, back, memo, pc, lo, hi, live, walking, ret>>
         /\ buf' = Append(buf, [act |-> KeyAt, live |-> {}]) /\ p' = p + 1
<1>0. /\ UNCHANGED <<given, pc, lo, hi, live, walking, ret>>
      /\ buf' = Append(buf, [act |-> KeyAt, live |-> {}]) /\ p' = p + 1
  BY DEF Forward
<1> DEFINE to == ActionOf(KeyAt).next
<1>1. TypeOK /\ Interned /\ pc = "forward" /\ ~ForwardEnds
  BY DEF IInv, Forward
<1>2. /\ sets \subseteq SUBSET (State \ {DEAD}) /\ IsFiniteSet(sets) /\ Cardinality(sets) <= caps[1]
      /\ \A k \in DOMAIN acts : acts[k] = ActionOf(k) /\ acts[k].next \in sets
      /\ caps[1] \in Nat
  BY <1>1, LinearScanAssumption DEF TypeOK, Interned
<1>3. to \in SUBSET (State \ {DEAD})
  BY <1>1, AtForward
<1>4. CASE KeyAt \in DOMAIN acts
  <2>1. set' = acts[KeyAt].next /\ UNCHANGED <<sets, acts, lives, back, memo>>
    BY <1>4 DEF Forward, caches
  <2>2. acts[KeyAt] = ActionOf(KeyAt) /\ set' \in sets /\ set' = ActionOf(KeyAt).next
    BY <1>2, <1>4, <2>1
  <2>3. /\ DOMAIN acts' = DOMAIN acts \cup {KeyAt}
        /\ \A k \in DOMAIN acts' : acts'[k] = ActionOf(k)
    BY <1>2, <1>4, <2>1
  <2>4. sets' = sets /\ UNCHANGED <<lives, back, memo>>
    BY <2>1
  <2> QED
    BY <1>0, <1>2, <2>2, <2>3, <2>4
<1>5. CASE KeyAt \notin DOMAIN acts
  <2>1. /\ Registers(to) /\ sets' = sets \cup {to} /\ set' = to
        /\ acts' = [k \in DOMAIN acts \cup {KeyAt} |-> IF k = KeyAt THEN ActionOf(KeyAt) ELSE acts[k]]
        /\ UNCHANGED <<lives, back, memo>>
    BY <1>5 DEF Forward
  <2> HIDE DEF to
  <2>2. IsFiniteSet(sets') /\ Cardinality(sets') = IF to \in sets THEN Cardinality(sets) ELSE Cardinality(sets) + 1
    BY <1>2, <2>1, FS_AddElement
  <2>3. Cardinality(sets') <= caps[1]
    BY <1>2, <2>1, <2>2, FS_CardinalityType DEF Registers
  <2>4. DOMAIN acts' = DOMAIN acts \cup {KeyAt} /\ \A k \in DOMAIN acts' : acts'[k] = ActionOf(k)
    BY <1>2, <2>1
  <2>5. sets \subseteq sets' /\ set' \in sets' /\ sets' \subseteq SUBSET (State \ {DEAD})
    BY <1>2, <1>3, <2>1
  <2>6. set' = ActionOf(KeyAt).next /\ UNCHANGED <<lives, back, memo>>
    BY <2>1 DEF to
  <2> QED
    BY <1>0, <2>2, <2>3, <2>4, <2>5, <2>6
<1> QED
  BY <1>4, <1>5

LEMMA SeqGrows ==
  ASSUME NEW S, NEW T, S \subseteq T, NEW s \in Seq(S), NEW e \in T
  PROVE  Append(s, e) \in Seq(T) /\ s \in Seq(T)
  OBVIOUS

LEMMA ForwardKeeps == ASSUME IInv, Forward PROVE IInv'
<1> DEFINE e == [act |-> KeyAt, live |-> {}]
<1>1. /\ TypeOK /\ Given /\ Interned /\ Chain /\ pc = "forward" /\ ~ForwardEnds
      /\ UNCHANGED <<given, pc, lo, hi, live, walking, ret>> /\ UNCHANGED dfa
      /\ buf' = Append(buf, e) /\ p' = p + 1
  BY ForwardInterns DEF IInv, Place, given, Forward
<1>2. /\ p = lo + Len(buf) /\ p \in lo .. End - 1 /\ SetOf(p) = set
      /\ KeyAt = <<SetOf(p), Byte(data, p), How(p)>>
      /\ KeyAt \in Key /\ KeyAt[1] \in sets /\ KeyAt[1] = SetOf(p)
  BY <1>1, AtForward
<1>3. /\ End \in Nat /\ lo \in 0 .. End /\ Len(buf) \in Nat
      /\ buf \in Seq([act : DOMAIN acts, live : lives])
  BY <1>1, InSegment DEF TypeOK
<1>4. /\ Len(buf') = Len(buf) + 1 /\ \A i \in 1 .. Len(buf) : buf'[i] = buf[i]
      /\ buf'[Len(buf) + 1] = e
  BY <1>1, <1>3
<1>5. TypeOK'
  <2>1. buf' \in Seq([act : DOMAIN acts', live : lives'])
    <3> DEFINE S == [act : DOMAIN acts, live : lives]
               T == [act : DOMAIN acts', live : lives']
    <3>1. KeyAt \in DOMAIN acts' /\ DOMAIN acts \subseteq DOMAIN acts' /\ lives' = lives /\ {} \in lives
      BY <1>1, ForwardInterns DEF Interned
    <3>2. S \subseteq T /\ e \in T
      BY <3>1
    <3>3. buf \in Seq(S) /\ buf' = Append(buf, e)
      BY <1>1, <1>3
    <3> HIDE DEF S, T, e
    <3>4. Append(buf, e) \in Seq(T)
      BY <3>2, <3>3, SeqGrows
    <3> QED
      BY <3>3, <3>4 DEF T
  <2>2. p' \in 0 .. End' + 1 /\ End' = End
    BY <1>1, <1>2, <1>3 DEF given, End
  <2>3. DOMAIN acts' \subseteq Key' /\ \A k \in DOMAIN acts' : k[1] \in sets' /\ acts'[k].next \in sets'
    <3>1. /\ DOMAIN acts \subseteq Key
          /\ \A k \in DOMAIN acts : k[1] \in sets /\ ActionOf(k).next \in sets
      BY <1>1 DEF TypeOK, Interned
    <3>2. ActionOf(KeyAt).next \in sets' /\ KeyAt[1] \in sets' /\ Key' = Key
      BY <1>1, <1>2, ForwardInterns, SameAutomaton
    <3> QED
      BY <1>2, <3>1, <3>2, ForwardInterns
  <2>4. \A e1 \in DOMAIN back' : e1 \in (DOMAIN acts') \X lives' /\ back'[e1] \in lives'
    BY <1>1, ForwardInterns DEF TypeOK
  <2>5. \A k \in DOMAIN memo' : k \in DOMAIN acts' /\ memo'[k] \in lives' \X lives'
    BY <1>1, ForwardInterns DEF TypeOK
  <2>6. sets' \subseteq SUBSET (State' \ {DEAD}) /\ Cardinality(sets') <= caps'[1] /\ set' \in sets'
        /\ lives' \subseteq SomeSlots' /\ Cardinality(lives') <= caps'[2]
    BY <1>1, ForwardInterns, SameAutomaton DEF TypeOK, given
  <2> QED
    BY <1>1, <2>1, <2>2, <2>3, <2>4, <2>5, <2>6, ForwardInterns DEF TypeOK, given, walking
<1>6. Given'
  BY <1>1 DEF Given, given
<1>7. Interned'
  BY <1>1, ForwardInterns, SameAutomaton DEF Interned
<1>8. \A q \in lo .. p : SetOf(q)' = SetOf(q)
  <2> TAKE q \in lo .. p
  <2>1. CASE q = p
    <3>1. buf'[q - lo + 1].act = KeyAt /\ q < lo' + Len(buf') /\ lo' = lo
      BY <1>1, <1>2, <1>3, <1>4, <2>1
    <3> QED
      BY <1>2, <2>1, <3>1 DEF SetOf
  <2>2. CASE q # p
    <3>1. q - lo + 1 \in 1 .. Len(buf) /\ q < lo' + Len(buf') /\ q < lo + Len(buf) /\ lo' = lo
      BY <1>1, <1>2, <1>3, <1>4, <2>2
    <3> QED
      BY <1>4, <3>1 DEF SetOf
  <2> QED
    BY <2>1, <2>2
<1>9. \A q : q = p + 1 => SetOf(q)' = ActionOf(KeyAt).next
  BY <1>1, <1>2, <1>3, <1>4, ForwardInterns DEF SetOf
<1>10. \A q \in lo .. p - 1 : ActOf(q)' = ActOf(q)
  <2> TAKE q \in lo .. p - 1
  <2>1. q - lo + 1 \in 1 .. Len(buf) /\ lo' = lo
    BY <1>1, <1>2, <1>3
  <2>2. buf'[q - lo + 1] = buf[q - lo + 1]
    BY <1>4, <2>1
  <2> QED
    BY <2>1, <2>2 DEF ActOf
<1>11. \A q : q = p => ActOf(q)' = KeyAt
  BY <1>1, <1>2, <1>3, <1>4 DEF ActOf
<1>12. Chain'
  <2>1. ASSUME NEW q \in lo .. p
        PROVE  /\ ActOf(q)' = <<SetOf(q)', Byte(data', q), How(q)'>>
               /\ SetOf(q + 1)' = ActionOf(ActOf(q))'.next
    <3>1. How(q)' = How(q) /\ data' = data
      BY <1>1, SameGiven DEF given
    <3>2. CASE q = p
      <4>1. ActOf(q)' = KeyAt /\ SetOf(q + 1)' = ActionOf(KeyAt).next
        BY <1>9, <1>11, <3>2
      <4>2. ActionOf(ActOf(q))' = ActionOf(KeyAt)
        BY <1>1, <4>1 DEF ActionOf, SpawnTarget
      <4> QED
        BY <1>2, <1>8, <3>1, <3>2, <4>1, <4>2
    <3>3. CASE q # p
      <4>1. q \in lo .. p - 1 /\ q + 1 \in lo .. p /\ q \in lo .. lo + Len(buf) - 1
        BY <1>2, <1>3, <3>3
      <4>2. ActOf(q)' = ActOf(q)
        BY <1>10, <4>1
      <4>3. ActionOf(ActOf(q))' = ActionOf(ActOf(q))
        BY <1>1, <4>2 DEF ActionOf, SpawnTarget
      <4> QED
        BY <1>1, <1>8, <3>1, <4>1, <4>2, <4>3 DEF Chain
    <3> QED
      BY <3>2, <3>3
  <2>2. lo' + Len(buf') - 1 = p /\ lo' = lo /\ lo' + Len(buf') <= End' /\ lo' \in Starts'
    BY <1>1, <1>2, <1>3, <1>4, SameGiven DEF Chain
  <2>3. SetOf(lo)' = {}
    <3>1. lo \in lo .. p /\ SetOf(lo) = {}
      BY <1>1, <1>2, <1>3 DEF Chain
    <3>2. \A q \in lo .. p : q = lo => SetOf(q)' = {}
      BY <1>8, <3>1
    <3> QED
      BY <1>1, <3>1, <3>2
  <2> QED
    BY <2>1, <2>2, <2>3 DEF Chain
<1>13. Place' /\ Following'
  BY <1>1, <1>2, <1>3, <1>4, <1>12 DEF Place, Following
<1>14. Visits'
  BY <1>1, SameListed, SameGiven DEF IInv, Visits, given, walking, Ahead
<1> QED
  BY <1>5, <1>6, <1>7, <1>13, <1>14 DEF IInv

-----------------------------------------------------------------------------
(* Back.                                                                   *)
LEMMA OneMoreLive ==
  ASSUME TypeOK, Given, Interned, NEW l \in SomeSlots, Interns(l)
  PROVE  /\ IsFiniteSet(lives \cup {l}) /\ Cardinality(lives \cup {l}) <= caps[2]
         /\ lives \cup {l} \subseteq SomeSlots
<1>1. IsFiniteSet(lives) /\ Cardinality(lives) \in Nat /\ Cardinality(lives) <= caps[2] /\ caps[2] \in Nat
      /\ lives \subseteq SomeSlots
  BY LinearScanAssumption, FS_CardinalityType DEF TypeOK, Interned
<1>2. /\ IsFiniteSet(lives \cup {l})
      /\ Cardinality(lives \cup {l}) = IF l \in lives THEN Cardinality(lives) ELSE Cardinality(lives) + 1
  BY <1>1, FS_AddElement
<1> QED
  BY <1>1, <1>2 DEF Interns

LEMMA LiveSlots ==
  ASSUME TypeOK, Given, NEW s \in SUBSET (State \ {DEAD}), NEW l \in SUBSET Slots(s)
  PROVE  l \in SomeSlots
  BY Slotted DEF SomeSlots

LEMMA TurnBackKeeps == ASSUME IInv, TurnBack PROVE IInv'
<1> DEFINE l == IF p = End THEN EndLive(set) ELSE {}
<1>1. /\ TypeOK /\ Given /\ Interned /\ Chain /\ pc = "forward" /\ p = lo + Len(buf) /\ ForwardEnds
      /\ UNCHANGED <<given, sets, acts, back, memo, lo, set, p, buf, walking, ret>> /\ UNCHANGED dfa
      /\ Interns(l) /\ lives' = lives \cup {l} /\ live' = l /\ hi' = p /\ pc' = "back"
  BY DEF IInv, Place, TurnBack, given
<1>2. /\ End \in Nat /\ lo \in 0 .. End /\ Len(buf) \in Nat /\ p \in lo .. End /\ SetOf(p) = set
      /\ set \in SUBSET (State \ {DEAD})
      /\ buf \in Seq([act : DOMAIN acts, live : lives])
  <2>1. /\ End \in Nat /\ lo \in 0 .. End /\ Len(buf) \in Nat /\ lo + Len(buf) \in lo .. End
    BY <1>1, InSegment
  <2>2. set \in SUBSET (State \ {DEAD}) /\ buf \in Seq([act : DOMAIN acts, live : lives])
    BY <1>1 DEF TypeOK
  <2>3. p \in lo .. End /\ SetOf(p) = set
    BY <1>1, <2>1 DEF SetOf
  <2> QED
    BY <2>1, <2>2, <2>3
<1>3. l \in SomeSlots
  <2>1. l \in SUBSET Slots(set)
    BY DEF EndLive
  <2> HIDE DEF l
  <2> QED
    BY <1>1, <1>2, <2>1, LiveSlots
<1>4. p < End => set = {} /\ p \notin Starts
  BY <1>1, <1>2 DEF ForwardEnds, Spawning
<1>5. \A j \in Slots(set) : j \in l <=> HasEndAhead(StateAt(set, j), p)
  <2>1. CASE p = End
    <3> TAKE j \in Slots(set)
    <3>1. StateAt(set, j) \in DOMAIN dfa.delta
      BY <1>1, <1>2, Slotted DEF State
    <3>2. HasEndAhead(StateAt(set, j), End) <=> dfa.end[StateAt(set, j)] # NoRel
      BY <1>1, <3>1, Setting, EndAheadLast DEF HasEndAhead, EndAhead, End
    <3> QED
      BY <2>1, <3>2 DEF EndLive
  <2>2. CASE p # End
    <3>1. set = {}
      BY <1>2, <1>4, <2>2
    <3>2. Slots(set) = {}
      BY <3>1, NoSlots
    <3> HIDE DEF l
    <3> QED
      BY <3>2
  <2> QED
    BY <2>1, <2>2
<1> HIDE DEF l
<1>6. TypeOK'
  <2>1. buf' \in Seq([act : DOMAIN acts', live : lives'])
    <3> DEFINE S == [act : DOMAIN acts, live : lives]
               T == [act : DOMAIN acts', live : lives']
    <3>1. S \subseteq T
      BY <1>1
    <3>2. buf \in Seq(S) /\ buf' = buf
      BY <1>1, <1>2
    <3> HIDE DEF S, T
    <3>3. buf \in Seq(T)
      BY <3>1, <3>2
    <3> QED
      BY <3>2, <3>3 DEF T
  <2>2. lives' \subseteq SomeSlots' /\ Cardinality(lives') <= caps'[2]
    BY <1>1, <1>3, OneMoreLive, SameAutomaton DEF given
  <2>3. hi' \in 0 .. End' /\ End' = End /\ live' \in lives' /\ lives \subseteq lives'
    BY <1>1, <1>2 DEF given, End
  <2>4. \A e \in DOMAIN back' : e \in (DOMAIN acts') \X lives' /\ back'[e] \in lives'
    BY <1>1 DEF TypeOK
  <2>5. \A k \in DOMAIN memo' : k \in DOMAIN acts' /\ memo'[k] \in lives' \X lives'
    BY <1>1 DEF TypeOK
  <2>6. /\ DOMAIN acts' \subseteq Key' /\ \A k \in DOMAIN acts' : k[1] \in sets' /\ acts'[k].next \in sets'
        /\ sets' \subseteq SUBSET (State' \ {DEAD}) /\ Cardinality(sets') <= caps'[1] /\ set' \in sets'
    BY <1>1, SameAutomaton DEF TypeOK, given
  <2> QED
    BY <1>1, <2>1, <2>2, <2>3, <2>4, <2>5, <2>6 DEF TypeOK, given, walking
<1>7. Given'
  BY <1>1 DEF Given, given
<1>8. Interned'
  BY <1>1, <1>3, OneMoreLive, SameAutomaton DEF Interned
<1>9. Chain' /\ \A q \in lo .. lo + Len(buf) : SetOf(q)' = SetOf(q)
  BY <1>1, <1>2, SameChain
<1>10. LiveFrom(p)'
  <2>1. \A q \in p' .. hi' : q = p /\ LiveAt(q)' = l
    BY <1>1, <1>2 DEF LiveAt
  <2>2. \A q \in p' .. hi' : SetOf(q)' = set
    BY <1>1, <1>2, <1>9, <2>1
  <2> QED
    BY <1>1, <1>5, <2>1, <2>2, SameGiven DEF LiveFrom
<1>11. Turned'
  BY <1>1, <1>4, SameGiven DEF Turned
<1>12. Place' /\ Following'
  BY <1>1, <1>2, <1>9, <1>10, <1>11 DEF Place, Following
<1>13. Visits'
  BY <1>1, SameListed, SameGiven DEF IInv, Visits, given, walking, Ahead
<1> QED
  BY <1>6, <1>7, <1>8, <1>12, <1>13 DEF IInv

LEMMA TurnForthKeeps == ASSUME IInv, TurnForth PROVE IInv'
<1>1. /\ TypeOK /\ Given /\ Interned /\ Chain /\ Turned /\ LiveFrom(lo) /\ pc = "back" /\ p = lo
      /\ UNCHANGED <<given, caches, segment, next, start, slot, best, matches, ret>>
      /\ UNCHANGED <<dfa, lo, hi, set, buf, live>>
      /\ pc' = "starts" /\ x' = MaxOf(lo, next)
  BY DEF IInv, Place, TurnForth, given, segment
<1>2. End \in Nat /\ lo \in 0 .. End /\ Len(buf) \in Nat /\ next \in 0 .. End + 1
  BY <1>1, InSegment DEF TypeOK
<1>3. x' \in 0 .. End + 1 /\ x' >= lo /\ x' >= next /\ (x' = lo \/ x' = next)
  BY <1>1, <1>2 DEF MaxOf
<1>4. TypeOK'
  BY <1>1, <1>3 DEF TypeOK, given, caches, segment, State, End, Key, SomeSlots
<1>5. Given'
  BY <1>1 DEF Given, given
<1>6. Interned'
  BY <1>1, SameInterned
<1>7. Place' /\ Following'
  BY <1>1, <1>2, SameSegment DEF Place, Following
<1>8. Visits'
  BY <1>1, <1>3, SameListed, SameGiven DEF IInv, Visits, given, Ahead
<1> QED
  BY <1>4, <1>5, <1>6, <1>7, <1>8 DEF IInv

(* The live slots before a byte, from those after it.                      *)
LEMMA StepBackInterns ==
  ASSUME IInv, StepBack
  PROVE  \E l \in SomeSlots :
           LET key == ActOf(p - 1)
           IN /\ l = Back(key, LiveAt(p)) /\ lives' = lives \cup {l}
              /\ IsFiniteSet(lives') /\ Cardinality(lives') <= caps[2] /\ lives' \subseteq SomeSlots
              /\ DOMAIN back \subseteq DOMAIN back' /\ DOMAIN back' \subseteq DOMAIN back \cup {<<key, LiveAt(p)>>}
              /\ \A e \in DOMAIN back' : back'[e] = Back(e[1], e[2])
              /\ DOMAIN memo' = DOMAIN memo \cup {key}
              /\ \A k \in DOMAIN memo' : memo'[k] = IF k = key THEN <<LiveAt(p), l>> ELSE memo[k]
              /\ buf' = [buf EXCEPT ![p - lo].live = l]
<1> DEFINE key == ActOf(p - 1)
           after == LiveAt(p)
<1>1. TypeOK /\ Given /\ Interned /\ Chain /\ Turned /\ pc = "back" /\ p \in lo .. hi /\ p > lo
  BY DEF IInv, Place, StepBack
<1>2. End \in Nat /\ lo \in 0 .. End /\ Len(buf) \in Nat /\ hi = lo + Len(buf)
  BY <1>1, InSegment DEF Turned
<1>3. p - 1 \in lo .. lo + Len(buf) - 1 /\ buf[p - lo].act = key
  <2>1. p - 1 \in lo .. lo + Len(buf) - 1 /\ (p - 1) - lo + 1 = p - lo
    BY <1>1, <1>2
  <2> QED
    BY <2>1 DEF ActOf
<1>4. /\ key \in DOMAIN acts /\ key \in Key /\ acts[key] = ActionOf(key)
      /\ key[1] \in SUBSET (State \ {DEAD})
  <2>1. p - 1 \in lo .. lo + Len(buf)
    BY <1>2, <1>3
  <2>2. SetOf(p - 1) \subseteq State \ {DEAD} /\ pc # "idle"
    BY <1>1, <2>1, InSegment
  <2>3. key \in DOMAIN acts /\ key \in Key /\ key[1] = SetOf(p - 1) /\ acts[key] = ActionOf(key)
    BY <1>1, <1>3, <2>2, InSegment
  <2> QED
    BY <2>2, <2>3
<1>5. LiveBefore(key, after) = Back(key, after)
  BY <1>4 DEF LiveBefore, Back
<1>6. Back(key, after) \in SomeSlots
  <2>1. Back(key, after) \in SUBSET Slots(key[1])
    BY DEF Back
  <2> QED
    BY <1>1, <1>4, <2>1, LiveSlots
<1>7. PICK l \in SUBSET Slots(key[1]) :
        /\ \/ /\ key \in DOMAIN memo /\ memo[key][1] = after
              /\ l = memo[key][2]
              /\ UNCHANGED <<lives, back>>
           \/ /\ <<key, after>> \in DOMAIN back
              /\ l = back[<<key, after>>]
              /\ UNCHANGED <<lives, back>>
           \/ /\ l = LiveBefore(key, after) /\ Interns(l)
              /\ lives' = lives \cup {l}
              /\ back' = Put(back, <<key, after>>, l)
        /\ memo' = Put(memo, key, <<after, l>>)
        /\ buf' = [buf EXCEPT ![p - lo].live = l]
  BY <1>3 DEF StepBack
<1> HIDE DEF key, after
<1>8. l = Back(key, after)
  <2>1. key \in DOMAIN memo /\ memo[key][1] = after => memo[key][2] = Back(key, after)
    BY <1>1 DEF Interned
  <2>2. <<key, after>> \in DOMAIN back => back[<<key, after>>] = Back(key, after)
    BY <1>1 DEF Interned
  <2> QED
    BY <1>5, <1>7, <2>1, <2>2
<1>9. /\ lives' = lives \cup {l}
      /\ IsFiniteSet(lives') /\ Cardinality(lives') <= caps[2] /\ lives' \subseteq SomeSlots
  <2>1. CASE UNCHANGED lives
    <3>1. l \in lives
      BY <1>1, <1>7, <2>1 DEF TypeOK
    <3> QED
      BY <1>1, <2>1, <3>1 DEF TypeOK, Interned
  <2>2. CASE Interns(l) /\ lives' = lives \cup {l}
    BY <1>1, <1>6, <1>8, <2>2, OneMoreLive
  <2> QED
    BY <1>7, <2>1, <2>2
<1>10. /\ DOMAIN back \subseteq DOMAIN back' /\ DOMAIN back' \subseteq DOMAIN back \cup {<<key, after>>}
       /\ \A e \in DOMAIN back' : back'[e] = Back(e[1], e[2])
  <2>1. \A e \in DOMAIN back : back[e] = Back(e[1], e[2])
    BY <1>1 DEF Interned
  <2>2. CASE UNCHANGED back
    BY <2>1, <2>2
  <2>3. CASE back' = Put(back, <<key, after>>, l)
    BY <1>8, <2>1, <2>3 DEF Put
  <2> QED
    BY <1>7, <2>2, <2>3
<1>11. /\ DOMAIN memo' = DOMAIN memo \cup {key}
       /\ \A k \in DOMAIN memo' : memo'[k] = IF k = key THEN <<after, l>> ELSE memo[k]
  BY <1>7 DEF Put
<1> QED
  BY <1>6, <1>7, <1>8, <1>9, <1>10, <1>11 DEF key, after

LEMMA StepBackKeeps == ASSUME IInv, StepBack PROVE IInv'
<1> DEFINE k0 == ActOf(p - 1)
           after == LiveAt(p)
<1>1. /\ TypeOK /\ Given /\ Interned /\ Chain /\ Turned /\ LiveFrom(p)
      /\ pc = "back" /\ p \in lo .. hi /\ p > lo
      /\ UNCHANGED <<given, sets, acts, pc, lo, hi, set, live, walking, ret>>
      /\ UNCHANGED dfa /\ p' = p - 1
  BY DEF IInv, Place, StepBack, given
<1>2. PICK l \in SomeSlots :
        /\ l = Back(k0, after) /\ lives' = lives \cup {l}
        /\ IsFiniteSet(lives') /\ Cardinality(lives') <= caps[2] /\ lives' \subseteq SomeSlots
        /\ DOMAIN back' \subseteq DOMAIN back \cup {<<k0, after>>}
        /\ \A e \in DOMAIN back' : back'[e] = Back(e[1], e[2])
        /\ DOMAIN back \subseteq DOMAIN back'
        /\ DOMAIN memo' = DOMAIN memo \cup {k0}
        /\ \A k \in DOMAIN memo' : memo'[k] = IF k = k0 THEN <<after, l>> ELSE memo[k]
        /\ buf' = [buf EXCEPT ![p - lo].live = l]
  BY StepBackInterns
<1>3. /\ End \in Nat /\ lo \in 0 .. End /\ Len(buf) \in Nat /\ hi = lo + Len(buf) /\ hi \in 0 .. End
      /\ buf \in Seq([act : DOMAIN acts, live : lives])
  BY <1>1, InSegment DEF Turned, TypeOK
<1>4. p - lo \in 1 .. Len(buf) /\ p - 1 \in lo .. lo + Len(buf) - 1 /\ p - 1 \in lo .. lo + Len(buf)
      /\ p \in lo .. lo + Len(buf) /\ (p - 1) + 1 = p /\ p \in Int /\ (p - 1) - lo + 1 = p - lo
  BY <1>1, <1>3
<1>5. /\ k0 \in DOMAIN acts /\ k0 \in Key /\ k0[1] = SetOf(p - 1) /\ k0[2] = Byte(data, p - 1)
      /\ ActionOf(k0).next = SetOf(p)
  BY <1>1, <1>4, InSegment
<1>6. k0[1] \subseteq State \ {DEAD}
  BY <1>1, <1>4, <1>5, InSegment
<1>7. after \in lives
  <2>1. CASE p = hi
    BY <1>1, <2>1 DEF LiveAt, TypeOK
  <2>2. CASE p # hi
    <3>1. p \in lo .. lo + Len(buf) - 1
      BY <1>3, <1>4, <2>2
    <3>2. buf[p - lo + 1].live \in lives
      BY <1>1, <3>1, InSegment
    <3> QED
      BY <2>2, <3>2 DEF LiveAt
  <2> QED
    BY <2>1, <2>2
<1>8. DIED \notin after
  BY <1>1, <1>7 DEF TypeOK, SomeSlots, DIED
<1>9. /\ Len(buf') = Len(buf) /\ buf'[p - lo].live = l
      /\ \A i \in 1 .. Len(buf) : buf'[i].act = buf[i].act
      /\ \A i \in 1 .. Len(buf) : i # p - lo => buf'[i] = buf[i]
      /\ buf' \in Seq([act : DOMAIN acts, live : lives'])
  <2> DEFINE S == [act : DOMAIN acts, live : lives]
             T == [act : DOMAIN acts, live : lives']
             r == [buf[p - lo] EXCEPT !.live = l]
  <2>1. buf' = [buf EXCEPT ![p - lo] = r]
    BY <1>2
  <2>2. buf \in Seq(S)
    BY <1>3
  <2>3. S \subseteq T
    BY <1>2
  <2>4. \A i \in 1 .. Len(buf) : buf[i] \in S
    <3> HIDE DEF S
    <3> QED
      BY <2>2
  <2>5. buf[p - lo] \in S
    BY <1>4, <2>4
  <2>6. r \in T /\ r.live = l /\ r.act = buf[p - lo].act
    BY <1>2, <2>5
  <2> HIDE DEF S, T, r
  <2>7. buf' \in Seq(T) /\ Len(buf') = Len(buf) /\ buf'[p - lo] = r
        /\ \A i \in 1 .. Len(buf) : i # p - lo => buf'[i] = buf[i]
    <3>1. buf \in Seq(T)
      BY <2>2, <2>3, SeqGrows
    <3> QED
      BY <1>4, <2>1, <2>6, <3>1
  <2> QED
    BY <2>6, <2>7 DEF T
<1>10. Chain' /\ \A q \in lo .. lo + Len(buf) : SetOf(q)' = SetOf(q)
  BY <1>1, <1>3, <1>9, SameChain
<1>11. \A q \in p .. hi : LiveAt(q)' = LiveAt(q)
  <2> TAKE q \in p .. hi
  <2>1. CASE q = hi
    BY <1>1, <2>1 DEF LiveAt
  <2>2. CASE q # hi
    <3>1. q - lo + 1 \in 1 .. Len(buf) /\ q - lo + 1 # p - lo
      BY <1>3, <1>4, <2>2
    <3> QED
      BY <1>1, <1>9, <2>2, <3>1 DEF LiveAt
  <2> QED
    BY <2>1, <2>2
<1>12. \A q : q = p - 1 => LiveAt(q)' = l
  BY <1>1, <1>3, <1>4, <1>9 DEF LiveAt
<1>13. \A j \in Slots(k0[1]) : j \in l <=> HasEndAhead(StateAt(k0[1], j), p - 1)
  <2>1. CASE p - 1 = 0
    <3>1. lo = p - 1 /\ SetOf(lo) = {}
      BY <1>1, <1>3, <1>4, <2>1, InSegment
    <3> QED
      BY <1>5, <3>1, NoSlots
  <2>2. CASE p - 1 # 0
    <3>1. p - 1 \in 1 .. End - 1
      BY <1>3, <1>4, <2>2
    <3>2. \A j \in Slots(SetOf(p)) : j \in after <=> HasEndAhead(StateAt(SetOf(p), j), p)
      BY <1>3, <1>4 , <1>1 DEF LiveFrom
    <3>3. \A j \in Slots(ActionOf(k0).next) :
            j \in after <=> HasEndAhead(StateAt(ActionOf(k0).next, j), (p - 1) + 1)
      BY <1>4, <1>5, <3>2
    <3> HIDE DEF k0, after
    <3> QED
      BY <1>1, <1>2, <1>5, <1>6, <1>8, <3>1, <3>3, BackExact
  <2> QED
    BY <2>1, <2>2
<1>14. LiveFrom(p)'
  <2>1. ASSUME NEW q \in p' .. hi', NEW j \in Slots(SetOf(q)')
        PROVE  j \in LiveAt(q)' <=> HasEndAhead(StateAt(SetOf(q), j), q)'
    <3>1. SetOf(q)' = SetOf(q) /\ HasEndAhead(StateAt(SetOf(q), j), q)' = HasEndAhead(StateAt(SetOf(q), j), q)
      <4>1. q \in lo .. lo + Len(buf)
        BY <1>1, <1>3, <1>4
      <4>2. SetOf(q)' = SetOf(q)
        BY <1>10, <4>1
      <4> QED
        BY <1>1, <4>2, SameGiven DEF HasEndAhead, given
    <3>2. CASE q = p - 1
      BY <1>5, <1>12, <1>13, <3>1, <3>2
    <3>3. CASE q # p - 1
      <4>1. q \in p .. hi
        BY <1>1, <1>3, <1>4, <3>3
      <4> QED
        BY <1>1, <1>11, <3>1, <4>1 DEF LiveFrom
    <3> QED
      BY <3>2, <3>3
  <2> QED
    BY <2>1 DEF LiveFrom
<1>15. Turned' /\ p' \in lo' .. hi'
  BY <1>1, <1>3, <1>4, <1>9, SameGiven DEF Turned
<1> HIDE DEF k0, after
<1>16. TypeOK'
  <2>1. buf' \in Seq([act : DOMAIN acts', live : lives'])
    BY <1>1, <1>9
  <2>2. lives' \subseteq SomeSlots' /\ Cardinality(lives') <= caps'[2] /\ lives \subseteq lives' /\ l \in lives'
    BY <1>1, <1>2, SameAutomaton DEF given
  <2>3. p' \in 0 .. End' + 1 /\ End' = End
    BY <1>1, <1>3, <1>4, SameGiven
  <2>4. \A e \in DOMAIN back' : e \in (DOMAIN acts') \X lives' /\ back'[e] \in lives'
    <3>1. \A e \in DOMAIN back : e \in (DOMAIN acts) \X lives /\ back[e] \in lives /\ back[e] = Back(e[1], e[2])
      BY <1>1 DEF TypeOK, Interned
    <3>2. <<k0, after>> \in (DOMAIN acts') \X lives'
      BY <1>1, <1>5, <1>7, <2>2
    <3> QED
      BY <1>1, <1>2, <2>2, <3>1, <3>2
  <2>5. \A k \in DOMAIN memo' : k \in DOMAIN acts' /\ memo'[k] \in lives' \X lives'
    <3>1. \A k \in DOMAIN memo : k \in DOMAIN acts /\ memo[k] \in lives \X lives
      BY <1>1 DEF TypeOK
    <3> QED
      BY <1>1, <1>2, <1>5, <1>7, <2>2, <3>1
  <2>6. /\ DOMAIN acts' \subseteq Key' /\ \A k \in DOMAIN acts' : k[1] \in sets' /\ acts'[k].next \in sets'
        /\ sets' \subseteq SUBSET (State' \ {DEAD}) /\ Cardinality(sets') <= caps'[1] /\ set' \in sets'
    BY <1>1, SameAutomaton DEF TypeOK, given
  <2>7. hi' \in 0 .. End' /\ lo' \in 0 .. End' /\ live' \in lives'
    BY <1>1, <1>3, <2>2, <2>3 DEF TypeOK
  <2> QED
    BY <1>1, <2>1, <2>2, <2>3, <2>4, <2>5, <2>6, <2>7 DEF TypeOK, given, walking
<1>17. Given'
  BY <1>1 DEF Given, given
<1>18. Interned'
  <2>1. \A k \in DOMAIN memo' : memo'[k][2] = Back(k, memo'[k][1])
    BY <1>1, <1>2 DEF Interned
  <2>2. \A e \in DOMAIN back' : back'[e] = Back(e[1], e[2])
    BY <1>2
  <2>3. \A k \in DOMAIN acts' : acts'[k] = ActionOf(k)
    BY <1>1 DEF Interned
  <2>4. /\ IsFiniteSet(sets') /\ {} \in sets' /\ IsFiniteSet(lives') /\ {} \in lives'
    BY <1>1, <1>2 DEF Interned
  <2> QED
    BY <1>1, <2>1, <2>2, <2>3, <2>4, SameAutomaton DEF Interned
<1>19. Place' /\ Following'
  BY <1>1, <1>10, <1>14, <1>15 DEF Place, Following
<1>20. Visits'
  BY <1>1, SameListed, SameGiven DEF IInv, Visits, given, walking, Ahead
<1> QED
  BY <1>16, <1>17, <1>18, <1>19, <1>20 DEF IInv

-----------------------------------------------------------------------------
(* The walk from a start.                                                  *)
LEMMA EmptyEnd ==
  ASSUME TypeOK, Given, pc # "idle", NEW i \in 0 .. End, NEW r \in Runs(dfa, data, i)
  PROVE  IsLongest(IF EmptyMatchAt(i) THEN i ELSE NoMatch, dfa, data, r, i, i)
<1> DEFINE b == IF EmptyMatchAt(i) THEN i ELSE NoMatch
<1>1. WellFormed(dfa) /\ IsInput(data) /\ EndsFollowStarts(dfa, data) /\ End \in Nat \ {0}
  BY Setting
<1>2. r[i] = INITIAL
  BY DEF Runs, RunsFrom
<1>3. RelAt(dfa, data, r, i) = IF EmptyMatchAt(i) THEN 0 ELSE NoRel
  BY <1>1, <1>2 DEF RelAt, EmptyMatchAt, WellFormed, End
<1>4. b = EndAt(dfa, data, r, i, NoMatch)
  BY <1>3 DEF EndAt, MaxOf, NoMatch, NoRel
<1>5. IsLongest(NoMatch, dfa, data, r, i, i - 1)
  BY LongestEmpty
<1> HIDE DEF b
<1>6. i \in i .. Len(data) /\ i \in 0 .. Len(data)
  BY <1>1 DEF End
<1>7. IsLongest(EndAt(dfa, data, r, i, NoMatch), dfa, data, r, i, i)
  BY <1>1, <1>5, <1>6, LongestStep
<1> QED
  BY <1>4, <1>7 DEF b

(* What a run reports after it has died, and what the longest end can be.  *)
LEMMA DeadEnd ==
  ASSUME TypeOK, Given, pc # "idle", NEW i \in 0 .. End, NEW r \in Runs(dfa, data, i),
         NEW q \in i .. End - 1, r[q + 1] = DEAD, NEW b, IsLongest(b, dfa, data, r, i, q)
  PROVE  IsLongest(b, dfa, data, r, i, End)
<1>1. WellFormed(dfa) /\ IsInput(data) /\ End \in Nat
  BY Setting
<1>2. q + 1 \in i .. Len(data) /\ q + 1 > 0 /\ (q + 1) - 1 = q /\ i \in i .. Len(data) /\ i \in 0 .. Len(data)
  BY <1>1 DEF End
<1>3. r \in RunsFrom(dfa, data, i, INITIAL)
  BY DEF Runs
<1>4. IsLongest(b, dfa, data, r, i, (q + 1) - 1)
  BY <1>2
<1> QED
  BY <1>1, <1>2, <1>3, <1>4, LongestDead DEF End

LEMMA LongestIs ==
  ASSUME TypeOK, Given, pc # "idle", NEW i \in 0 .. End, NEW r \in Runs(dfa, data, i),
         NEW q \in Int, q <= End, NEW b, IsLongest(b, dfa, data, r, i, q)
  PROVE  /\ b = LongestUpTo(dfa, data, r, i, q) /\ b \in (i .. End) \cup {NoMatch}
         /\ q = End => b = Longest(dfa, data, r, i)
<1>1. WellFormed(dfa) /\ IsInput(data) /\ EndsFollowStarts(dfa, data) /\ End \in Nat
  BY Setting
<1>2. i \in i .. Len(data) /\ i \in 0 .. Len(data)
  BY <1>1 DEF End
<1> QED
  BY <1>1, <1>2, LongestDefined DEF End, Longest

LEMMA SomeRun ==
  ASSUME TypeOK, Given, pc # "idle", NEW i \in 0 .. End
  PROVE  \E r \in Runs(dfa, data, i) : TRUE
<1>1. WellFormed(dfa) /\ IsInput(data) /\ INITIAL \in DOMAIN dfa.delta
  BY Setting, Automaton DEF State
<1> QED
  BY <1>1, RunExists DEF Runs, End

LEMMA WalkKept ==
  ASSUME TypeOK, Given, Interned, pc # "idle", Chain, Turned, NEW i \in lo .. hi, NEW j, NEW b,
         NEW q \in lo .. End + 1, WalkAt(i, j, q, b),
         UNCHANGED <<given, caches, lo, hi, set, buf, live>>,
         pc' = "walk", start' = i, slot' = j, p' = q, best' = b
  PROVE  /\ Following'
         /\ start' \in 0 .. End' /\ slot' \in {DIED} \cup 0 .. Len(dfa'.delta) - 2
         /\ p' \in 0 .. End' + 1 /\ best' \in {NoMatch} \cup 0 .. End'
<1>1. /\ End \in Nat /\ lo \in 0 .. End /\ Len(buf) \in Nat /\ hi = lo + Len(buf) /\ hi \in lo .. End
  BY InSegment DEF Turned
<1>2. /\ End' = End /\ UNCHANGED <<dfa, data, lo, hi>>
      /\ \A k \in lo .. lo + Len(buf) : SetOf(k)' = SetOf(k)
  BY <1>1, SameGiven, SameSegment DEF given
<1>3. j # DIED => SetOf(q)' = SetOf(q)
  BY <1>1, <1>2 DEF WalkAt
<1>4. Following'
  <2>1. \A k : k = q => (j # DIED => SetOf(k)' = SetOf(k))
    BY <1>3
  <2>2. j # DIED => SetOf(p)' = SetOf(q)
    BY <2>1 DEF SetOf
  <2> QED
    BY <1>1, <1>2, <2>2 DEF Following, WalkAt
<1>5. i \in 0 .. End /\ q \in 0 .. End + 1
  BY <1>1
<1>6. j \in {DIED} \cup 0 .. Len(dfa.delta) - 2
  <2>1. CASE j # DIED
    <3>1. SetOf(q) \in SUBSET (State \ {DEAD}) /\ j \in Slots(SetOf(q))
      BY <1>1, <2>1, InSegment DEF WalkAt
    <3> QED
      BY <3>1, Slotted
  <2> QED
    BY <2>1
<1>7. b \in {NoMatch} \cup 0 .. End
  <2>1. PICK r \in Runs(dfa, data, i) : TRUE
    BY <1>5, SomeRun
  <2>2. CASE j = DIED
    <3>1. b \in (i .. End) \cup {NoMatch}
      BY <1>1, <1>5, <2>1, <2>2, LongestIs DEF WalkAt
    <3> QED
      BY <1>5, <3>1
  <2>3. CASE j # DIED
    <3>1. q - 1 \in Int /\ q - 1 <= End /\ IsLongest(b, dfa, data, r, i, q - 1)
      BY <1>1, <2>1, <2>3 DEF WalkAt
    <3>2. b \in (i .. End) \cup {NoMatch}
      BY <1>1, <1>5, <2>1, <3>1, LongestIs
    <3> QED
      BY <1>5, <3>2
  <2> QED
    BY <2>2, <2>3
<1> QED
  BY <1>2, <1>4, <1>5, <1>6, <1>7

LEMMA NextStartFound ==
  ASSUME IInv, pc = "starts", ~SegmentWalked
  PROVE  /\ FirstGe(x) \in Starts /\ FirstGe(x) >= x /\ FirstGe(x) \in lo .. hi
         /\ Ahead(FirstGe(x))
         /\ FirstGe(x) < End => FirstGe(x) \in lo .. hi - 1
<1>1. /\ TypeOK /\ Given /\ Interned /\ Chain /\ Turned /\ Ahead(x) /\ lo <= x /\ next <= x
  BY DEF IInv, Place, Visits
<1>2. /\ End \in Nat /\ lo \in 0 .. End /\ hi \in lo .. End /\ x \in Nat /\ next \in Nat
      /\ Starts \subseteq 0 .. End
  BY <1>1, InSegment, Setting DEF Turned, TypeOK
<1>3. PICK k \in StartsFrom(x) : k \in 0 .. hi
  BY DEF SegmentWalked
<1>4. Starts \subseteq Nat /\ StartsFrom(x) # {} /\ k \in Starts /\ k >= x
  BY <1>2, <1>3 DEF StartsFrom
<1>5. FirstGe(x) \in Starts /\ FirstGe(x) >= x /\ \A i \in Starts : i >= x => FirstGe(x) <= i
  BY <1>2, <1>4, FirstGeFirst
<1> DEFINE f == FirstGe(x)
<1> HIDE DEF f
<1>6. f \in Starts /\ f >= x /\ f <= k /\ \A i \in Starts : i >= x => f <= i
  BY <1>4, <1>5 DEF f
<1>7. f \in 0 .. End /\ f \in lo .. hi
  BY <1>1, <1>2, <1>3, <1>6
<1>8. f < End => f # hi
  BY <1>1, <1>2, <1>6 DEF Turned
<1>9. Ahead(f)
  BY <1>1, <1>6 DEF Ahead
<1> QED
  BY <1>2, <1>6, <1>7, <1>8, <1>9 DEF f

(* Where the spawned slot leads is where the run does.                     *)
LEMMA Spawned ==
  ASSUME TypeOK, Given, pc # "idle", Interned, Chain, Turned,
         NEW i \in lo .. hi - 1, i \in Starts, NEW j, j = acts[buf[i - lo + 1].act].spawn,
         NEW r \in Runs(dfa, data, i)
  PROVE  /\ j # DIED => j \in Slots(SetOf(i + 1)) /\ StateAt(SetOf(i + 1), j) = r[i + 1]
         /\ j = DIED => r[i + 1] = DEAD
<1> DEFINE k == ActOf(i)
           t == SpawnTarget(k[3], k[2])
<1>1. /\ End \in Nat /\ lo \in 0 .. End /\ Len(buf) \in Nat /\ hi = lo + Len(buf) /\ hi \in lo .. End
  BY InSegment DEF Turned
<1>2. i \in lo .. lo + Len(buf) - 1 /\ i \in lo .. lo + Len(buf)
  BY <1>1
<1>3. /\ k \in Key /\ k[1] = SetOf(i) /\ k[2] = Byte(data, i) /\ k[3] = How(i)
      /\ acts[k] = ActionOf(k) /\ ActionOf(k).next = SetOf(i + 1)
      /\ SetOf(i) \subseteq State \ {DEAD}
  BY <1>2, InSegment
<1>4. j = ActionOf(k).spawn
  BY <1>3 DEF ActOf
<1>5. k[3] # "none" /\ t = r[i + 1]
  <2>1. i \in 0 .. Len(data) - 1 /\ r \in RunsFrom(dfa, data, i, INITIAL) /\ i \in 0 .. Len(data)
    BY <1>1 DEF Runs, End
  <2>2. WellFormed(dfa) /\ IsInput(data)
    BY Setting
  <2>3. CASE i = 0
    <3>1. r[1] = dfa.begin[Byte(data, 0)]
      BY <2>1, <2>2, <2>3, RunSteps
    <3> QED
      BY <1>3, <2>3, <3>1 DEF How, SpawnTarget
  <2>4. CASE i # 0
    <3>1. i \in i .. Len(data) - 1 /\ r[i] = INITIAL
      BY <2>1, <2>2, RunSteps
    <3>2. r[i + 1] = dfa.delta[r[i]][Byte(data, i)]
      BY <2>1, <2>2, <2>4, <3>1, RunSteps
    <3> QED
      BY <1>3, <2>4, <3>1, <3>2 DEF How, SpawnTarget
  <2> QED
    BY <2>3, <2>4
<1>6. /\ ActionOf(k).spawn \in {DIED} \cup Slots(ActionOf(k).next)
      /\ t = DEAD => ActionOf(k).spawn = DIED
      /\ t # DEAD => ActionOf(k).spawn # DIED /\ StateAt(ActionOf(k).next, ActionOf(k).spawn) = t
  BY <1>3, <1>5, ActionLeads
<1> HIDE DEF k, t
<1> QED
  BY <1>3, <1>4, <1>5, <1>6

LEMMA NextStartKeeps == ASSUME IInv, NextStart PROVE IInv'
<1> DEFINE i == FirstGe(x)
           b == IF EmptyMatchAt(i) THEN i ELSE NoMatch
           j == IF i < End THEN acts[buf[i - lo + 1].act].spawn ELSE DIED
<1>1. /\ TypeOK /\ Given /\ Interned /\ Chain /\ Turned /\ LiveFrom(lo) /\ pc = "starts"
      /\ ~SegmentWalked /\ Visits
      /\ UNCHANGED <<given, caches, lo, hi, set, buf, live, next, x, matches, ret>>
      /\ UNCHANGED <<dfa, data>>
      /\ start' = i /\ best' = b /\ slot' = j /\ p' = i + 1 /\ pc' = "walk"
  BY DEF IInv, Place, NextStart, given
<1>2. /\ End \in Nat /\ lo \in 0 .. End /\ Len(buf) \in Nat /\ hi = lo + Len(buf) /\ hi \in lo .. End
  BY <1>1, InSegment DEF Turned
<1>3. /\ i \in Starts /\ i >= x /\ i \in lo .. hi /\ Ahead(i) /\ (i < End => i \in lo .. hi - 1)
  BY <1>1, NextStartFound DEF IInv
<1>4. i \in 0 .. End /\ i + 1 \in lo .. End + 1 /\ (i + 1) - 1 = i
  BY <1>2, <1>3
<1>5. WalkAt(i, j, i + 1, b)
  <2>1. ASSUME NEW r \in Runs(dfa, data, i)
        PROVE  /\ j = DIED => IsLongest(b, dfa, data, r, i, End) /\ (i + 1 < End => r[i + 1] = DEAD)
               /\ j # DIED => /\ IsLongest(b, dfa, data, r, i, (i + 1) - 1)
                              /\ StateAt(SetOf(i + 1), j) = r[i + 1]
                              /\ j \in Slots(SetOf(i + 1)) /\ i + 1 <= hi
    <3>1. IsLongest(b, dfa, data, r, i, i)
      BY <1>1, <1>4, EmptyEnd
    <3>2. CASE i = End
      BY <1>2, <3>1, <3>2
    <3>3. CASE i # End
      <4>1. i < End /\ i \in lo .. hi - 1 /\ j = acts[buf[i - lo + 1].act].spawn /\ i \in i .. End - 1
        BY <1>2, <1>3, <1>4, <3>3
      <4> HIDE DEF i, b, j
      <4>2. /\ j # DIED => j \in Slots(SetOf(i + 1)) /\ StateAt(SetOf(i + 1), j) = r[i + 1]
            /\ j = DIED => r[i + 1] = DEAD
        BY <1>1, <1>3, <4>1, Spawned
      <4>3. j = DIED => IsLongest(b, dfa, data, r, i, End)
        BY <1>1, <1>4, <3>1, <4>1, <4>2, DeadEnd
      <4> QED
        BY <1>2, <1>4, <3>1, <4>1, <4>2, <4>3
    <3> QED
      BY <3>2, <3>3
  <2>2. \E r \in Runs(dfa, data, i) : TRUE
    BY <1>1, <1>4, SomeRun
  <2> HIDE DEF i, b, j
  <2> QED
    BY <1>2, <1>3, <1>4, <2>1, <2>2 DEF WalkAt
<1> HIDE DEF i, b, j
<1>6. /\ Following'
      /\ start' \in 0 .. End' /\ slot' \in {DIED} \cup 0 .. Len(dfa'.delta) - 2
      /\ p' \in 0 .. End' + 1 /\ best' \in {NoMatch} \cup 0 .. End'
  BY <1>1, <1>3, <1>4, <1>5, WalkKept
<1>7. TypeOK'
  BY <1>1, <1>6 DEF TypeOK, given, caches, State, End, Key, SomeSlots
<1>8. Given'
  BY <1>1 DEF Given, given
<1>9. Interned'
  BY <1>1, SameInterned
<1>10. Place'
  BY <1>1, <1>2, SameSegment DEF Place
<1>11. Visits'
  BY <1>1, <1>3, SameListed, SameGiven DEF Visits, Ahead
<1> QED
  BY <1>6, <1>7, <1>8, <1>9, <1>10, <1>11 DEF IInv

LEMMA WalkKeeps == ASSUME IInv, Walk PROVE IInv'
<1> DEFINE s == StateAt(acts[buf[p - lo].act].next, slot)
           b == Updated(IF p = End THEN dfa.end[s] ELSE dfa.center[s], p, best)
           j == IF p = hi THEN DIED ELSE acts[buf[p - lo + 1].act].map[slot]
           q == IF p = hi THEN p ELSE p + 1
<1>1. /\ TypeOK /\ Given /\ Interned /\ Chain /\ Turned /\ LiveFrom(lo) /\ pc = "walk" /\ Visits
      /\ WalkAt(start, slot, p, best) /\ slot # DIED
      /\ UNCHANGED <<given, caches, pc, lo, hi, set, buf, live, next, x, start, matches, ret>>
      /\ UNCHANGED <<dfa, data>>
      /\ best' = b /\ slot' = j /\ p' = q
  BY DEF IInv, Place, Following, Walk, Alive, given
<1>2. /\ End \in Nat \ {0} /\ lo \in 0 .. End /\ Len(buf) \in Nat /\ hi = lo + Len(buf) /\ hi \in lo .. End
      /\ WellFormed(dfa) /\ IsInput(data) /\ EndsFollowStarts(dfa, data)
  BY <1>1, InSegment, Setting DEF Turned
<1>3. /\ start \in lo .. hi /\ start \in 0 .. End /\ p \in lo .. hi /\ start < p /\ p \in start .. End
      /\ p > 0 /\ p \in lo .. lo + Len(buf) /\ p - 1 \in lo .. lo + Len(buf) - 1 /\ (p - 1) + 1 = p
      /\ (p - 1) - lo + 1 = p - lo /\ (p + 1) - 1 = p
  <2>1. start <= hi /\ start < p /\ p <= hi /\ lo <= x /\ x <= start
    BY <1>1 DEF WalkAt, Visits
  <2>2. start \in Int /\ p \in Int /\ x \in Int
    <3>1. start \in 0 .. End /\ p \in 0 .. End + 1 /\ x \in 0 .. End + 1
      BY <1>1 DEF TypeOK
    <3> QED
      BY <3>1
  <2> HIDE DEF q, s, j, b
  <2> QED
    BY <1>2, <2>1, <2>2
<1>4. p = hi => hi = End
  <2>1. SetOf(hi) = set /\ slot \in Slots(SetOf(p))
    <3>1. ~(hi < lo + Len(buf))
      BY <1>2
    <3>2. slot \in Slots(SetOf(p))
      BY <1>1 DEF WalkAt
    <3> QED
      BY <3>1, <3>2 DEF SetOf
  <2>2. hi < End => set = {}
    BY <1>1 DEF Turned
  <2>3. p = hi => set # {}
    BY <2>1, NoSlots
  <2> QED
    BY <1>2, <2>2, <2>3
<1>5. s = StateAt(SetOf(p), slot) /\ slot \in Slots(SetOf(p)) /\ SetOf(p) \in SUBSET (State \ {DEAD})
  <2>1. acts[ActOf(p - 1)] = ActionOf(ActOf(p - 1)) /\ ActionOf(ActOf(p - 1)).next = SetOf((p - 1) + 1)
    BY <1>1, <1>3, InSegment
  <2>2. ActOf(p - 1) = buf[p - lo].act
    BY <1>3 DEF ActOf
  <2> QED
    BY <1>1, <1>3, <2>1, <2>2, InSegment DEF WalkAt
<1>6. ASSUME NEW r \in Runs(dfa, data, start)
      PROVE  s = r[p] /\ IsLongest(b, dfa, data, r, start, p)
  <2>1. s = r[p] /\ IsLongest(best, dfa, data, r, start, p - 1)
    BY <1>1, <1>5, <1>6 DEF WalkAt
  <2>2. b = EndAt(dfa, data, r, p, best)
    <3>1. RelAt(dfa, data, r, p) = IF p = End THEN dfa.end[s] ELSE dfa.center[s]
      BY <1>3, <2>1 DEF RelAt, End
    <3> QED
      BY <3>1 DEF EndAt, Updated
  <2>3. start \in start .. Len(data) /\ p \in start .. Len(data) /\ start \in 0 .. Len(data)
    BY <1>2, <1>3 DEF End
  <2> HIDE DEF b
  <2>4. IsLongest(EndAt(dfa, data, r, p, best), dfa, data, r, start, p)
    BY <1>2, <2>1, <2>3, LongestStep
  <2> QED
    BY <2>1, <2>2, <2>4
<1>7. ASSUME NEW r \in Runs(dfa, data, start), p # hi
      PROVE  /\ j = DIED => r[p + 1] = DEAD
             /\ j # DIED => j \in Slots(SetOf(p + 1)) /\ StateAt(SetOf(p + 1), j) = r[p + 1]
  <2> DEFINE k == ActOf(p)
             t == dfa.delta[StateAt(k[1], slot)][k[2]]
  <2>1. p \in lo .. lo + Len(buf) - 1 /\ p \in start .. Len(data) - 1
    BY <1>2, <1>3, <1>7 DEF End
  <2>2. /\ k \in Key /\ k[1] = SetOf(p) /\ k[2] = Byte(data, p) /\ acts[k] = ActionOf(k)
        /\ ActionOf(k).next = SetOf(p + 1) /\ k = buf[p - lo + 1].act
    BY <1>1, <2>1, InSegment DEF ActOf
  <2>3. j = ActionOf(k).map[slot]
    BY <1>7, <2>2
  <2>4. r[p + 1] = dfa.delta[r[p]][Byte(data, p)]
    BY <1>2, <1>3, <2>1, RunSteps DEF Runs, End
  <2>5. t = r[p + 1]
    BY <1>5, <1>6, <2>2, <2>4
  <2>6. /\ ActionOf(k).map \in [Slots(k[1]) -> {DIED} \cup Slots(ActionOf(k).next)]
        /\ t = DEAD => ActionOf(k).map[slot] = DIED
        /\ t # DEAD => ActionOf(k).map[slot] # DIED
                       /\ StateAt(ActionOf(k).next, ActionOf(k).map[slot]) = t
    BY <1>1, <1>5, <2>2, ActionLeads
  <2>7. ActionOf(k).map[slot] \in {DIED} \cup Slots(ActionOf(k).next)
    BY <1>5, <2>2, <2>6
  <2> HIDE DEF k, t, j
  <2> QED
    BY <2>2, <2>3, <2>5, <2>6, <2>7
<1>8. WalkAt(start, j, q, b)
  <2>1. ASSUME NEW r \in Runs(dfa, data, start)
        PROVE  /\ j = DIED => IsLongest(b, dfa, data, r, start, End) /\ (q < End => r[q] = DEAD)
               /\ j # DIED => /\ IsLongest(b, dfa, data, r, start, q - 1)
                              /\ StateAt(SetOf(q), j) = r[q]
                              /\ j \in Slots(SetOf(q)) /\ q <= hi
    <3>1. CASE p = hi
      <4>1. hi = End /\ j = DIED /\ q = End
        BY <1>4, <3>1
      <4>2. IsLongest(b, dfa, data, r, start, End)
        BY <1>6, <3>1, <4>1
      <4> HIDE DEF j, q, b
      <4> QED
        BY <1>2, <4>1, <4>2
    <3>2. CASE p # hi
      <4>1. q = p + 1 /\ p \in start .. End - 1 /\ p + 1 <= hi
        BY <1>2, <1>3, <3>2
      <4>2. /\ j = DIED => r[p + 1] = DEAD
            /\ j # DIED => j \in Slots(SetOf(p + 1)) /\ StateAt(SetOf(p + 1), j) = r[p + 1]
        BY <1>7, <3>2
      <4>3. IsLongest(b, dfa, data, r, start, p)
        BY <1>6
      <4> HIDE DEF j, q, b
      <4>4. j = DIED => IsLongest(b, dfa, data, r, start, End)
        BY <1>1, <1>3, <4>1, <4>2, <4>3, DeadEnd
      <4> QED
        BY <1>3, <4>1, <4>2, <4>3, <4>4
    <3> QED
      BY <3>1, <3>2
  <2>2. \E r \in Runs(dfa, data, start) : TRUE
    BY <1>1, <1>3, SomeRun
  <2>3. start <= hi /\ start < q
    BY <1>2, <1>3
  <2> HIDE DEF j, q, b
  <2> QED
    BY <2>1, <2>2, <2>3 DEF WalkAt
<1>9. q \in lo .. End + 1
  BY <1>2, <1>3
<1> HIDE DEF s, b, j, q
<1>10. /\ Following'
       /\ start' \in 0 .. End' /\ slot' \in {DIED} \cup 0 .. Len(dfa'.delta) - 2
       /\ p' \in 0 .. End' + 1 /\ best' \in {NoMatch} \cup 0 .. End'
  BY <1>1, <1>3, <1>8, <1>9, WalkKept
<1>11. TypeOK'
  BY <1>1, <1>10 DEF TypeOK, given, caches, State, End, Key, SomeSlots
<1>12. Given'
  BY <1>1 DEF Given, given
<1>13. Interned'
  BY <1>1, SameInterned
<1>14. Place'
  BY <1>1, <1>2, SameSegment DEF Place
<1>15. Visits'
  BY <1>1, SameListed, SameGiven DEF Visits, Ahead
<1> QED
  BY <1>10, <1>11, <1>12, <1>13, <1>14, <1>15 DEF IInv

LEMMA WalkEnds ==
  ASSUME IInv, pc = "walk", ~Alive, NEW r \in Runs(dfa, data, start)
  PROVE  best = Longest(dfa, data, r, start)
<1>1. /\ TypeOK /\ Given /\ Interned /\ Chain /\ Turned /\ LiveFrom(lo)
      /\ WalkAt(start, slot, p, best)
  BY DEF IInv, Place, Following
<1>2. /\ End \in Nat \ {0} /\ lo \in 0 .. End /\ Len(buf) \in Nat /\ hi = lo + Len(buf) /\ hi \in lo .. End
      /\ WellFormed(dfa) /\ IsInput(data) /\ start \in 0 .. End /\ start >= lo /\ p \in Int
  <2>1. lo <= x /\ x <= start
    BY DEF IInv, Visits
  <2>2. End \in Nat \ {0} /\ WellFormed(dfa) /\ IsInput(data)
    BY <1>1, Setting
  <2>3. start \in 0 .. End /\ p \in 0 .. End + 1 /\ x \in 0 .. End + 1 /\ lo \in 0 .. End
    BY <1>1 DEF TypeOK
  <2> QED
    BY <1>1, <2>1, <2>2, <2>3, InSegment DEF Turned
<1>3. IsLongest(best, dfa, data, r, start, End)
  <2>1. CASE slot = DIED
    BY <1>1, <2>1 DEF WalkAt
  <2>2. CASE slot # DIED
    <3>1. /\ start < p /\ p <= hi /\ slot \in Slots(SetOf(p)) /\ StateAt(SetOf(p), slot) = r[p]
          /\ IsLongest(best, dfa, data, r, start, p - 1)
      BY <1>1, <2>2 DEF WalkAt
    <3>2. /\ p \in lo .. hi /\ p \in start .. Len(data) /\ start \in 0 .. Len(data)
          /\ p - 1 \in Nat /\ start <= (p - 1) + 1 /\ p - 1 <= End /\ (p - 1) + 1 = p /\ start \in Nat
      BY <1>2, <3>1 DEF End
    <3>3. ~ HasEndAhead(r[p], p)
      BY <1>1, <2>2, <3>1, <3>2 DEF LiveFrom, Alive
    <3>4. \A k \in p .. Len(data) : RelAt(dfa, data, r, k) = NoRel
      BY <1>2, <3>2, <3>3, EndAheadOnRun DEF HasEndAhead, EndAhead, Runs, End
    <3>5. \A k \in (p - 1) + 1 .. End : RelAt(dfa, data, r, k) = NoRel
      BY <3>2, <3>4 DEF End
    <3> QED
      BY <1>2, <3>1, <3>2, <3>5, LongestQuiet
  <2> QED
    BY <2>1, <2>2
<1> QED
  BY <1>1, <1>2, <1>3, LongestIs

(* Every start has a match, which lies behind it.                          *)
LEMMA StartsMatch ==
  ASSUME TypeOK, Given, pc # "idle", NEW i \in Starts, NEW r \in Runs(dfa, data, i)
  PROVE  i \in Nulls(dfa, data) /\ Longest(dfa, data, r, i) \in i .. End
<1> DEFINE e == Longest(dfa, data, r, i)
<1>1. /\ WellFormed(dfa) /\ IsInput(data) /\ EndsFollowStarts(dfa, data) /\ End \in Nat \ {0}
      /\ i \in 0 .. End
  BY Setting
<1>2. i \in 0 .. Len(data) /\ i \in i .. Len(data) /\ r \in RunsFrom(dfa, data, i, INITIAL)
  BY <1>1 DEF End, Runs
<1>3. \A t \in Runs(dfa, data, i) : t = r
  BY <1>1, <1>2, RunUnique DEF Runs
<1> DEFINE E == Ends(dfa, data, r, i, Len(data))
<1>4. E \subseteq i .. Len(data)
  BY <1>1, <1>2, EndsInside
<1>5. E # {} => e \in E
  <2>1. IsLongest(e, dfa, data, r, i, Len(data))
    BY <1>1, <1>2, LongestExists DEF Longest, End
  <2>2. e \in E \cup {NoMatch} /\ \A f \in E : f <= e
    BY <2>1 DEF IsLongest
  <2>3. \A f \in E : f \in Nat
    BY <1>1, <1>4
  <2> HIDE DEF E, e
  <2> QED
    BY <2>2, <2>3 DEF NoMatch
<1>6. E # {}
  <2>1. CASE all
    <3>1. RelAt(dfa, data, r, i) = 0
      BY <1>1, <1>2, <2>1 DEF RelAt, Given, WellFormed, Runs, RunsFrom, End
    <3> QED
      BY <1>2, <3>1, EndsAnywhere DEF NoRel
  <2>2. CASE ~all
    <3>1. e # NoMatch
      BY <1>3, <2>2 DEF Given, Starts, Nulls
    <3>2. E = {} => e = NoMatch
      BY DEF Longest, LongestUpTo
    <3> QED
      BY <3>1, <3>2
  <2> QED
    BY <2>1, <2>2
<1>7. e \in i .. End
  BY <1>4, <1>5, <1>6 DEF End
<1>8. e # NoMatch
  BY <1>1, <1>7 DEF NoMatch
<1> QED
  BY <1>2, <1>7, <1>8 DEF Nulls

-----------------------------------------------------------------------------
(* Matches.                                                                *)
LEMMA FoundKeeps == ASSUME IInv, Found PROVE IInv'
<1>1. /\ TypeOK /\ Given /\ Interned /\ Chain /\ Turned /\ LiveFrom(lo) /\ pc = "walk" /\ Listed
      /\ ~Alive /\ next = StartsAfter(matches, Len(matches)) /\ Ahead(start) /\ lo <= x /\ next <= x
      /\ start \in Starts /\ x <= start
      /\ UNCHANGED <<given, caches, lo, hi, set, p, buf, live, start, slot, best, ret>>
      /\ UNCHANGED <<dfa, data>> /\ pc' = "starts"
      /\ matches' = IF best = NoMatch THEN matches ELSE Append(matches, <<start, best>>)
      /\ next' = IF best = NoMatch THEN next ELSE IF best > start THEN best ELSE start + 1
      /\ x' = MaxOf(start + 1, next')
  BY DEF IInv, Place, Visits, Found, given, segment
<1>2. /\ End \in Nat \ {0} /\ lo \in 0 .. End /\ Len(buf) \in Nat /\ start \in 0 .. End
      /\ x \in Nat /\ next \in Nat /\ matches \in Seq((0 .. End) \X (0 .. End))
      /\ Starts \subseteq 0 .. End
  BY <1>1, InSegment, Setting DEF TypeOK
<1>3. PICK r \in Runs(dfa, data, start) : TRUE
  BY <1>1, <1>2, SomeRun
<1>4. /\ \A t \in Runs(dfa, data, start) : best = Longest(dfa, data, t, start)
      /\ start \in Nulls(dfa, data) /\ best \in start .. End
  BY <1>1, <1>3, WalkEnds, StartsMatch
<1>5. best # NoMatch /\ best \in 0 .. End
  BY <1>2, <1>4 DEF NoMatch
<1>6. next' = MaxOf(start + 1, best) /\ x' = next' /\ next' \in 0 .. End + 1 /\ x' >= lo /\ x' > start
  BY <1>1, <1>2, <1>4, <1>5 DEF MaxOf
<1>7. /\ start >= StartsAfter(matches, Len(matches))
      /\ \A i \in Nulls(dfa, data) : i >= StartsAfter(matches, Len(matches)) => start <= i
  <2>1. Nulls(dfa, data) \subseteq Starts
    BY <1>1 DEF Given, Starts, Nulls, End
  <2>2. start >= next
    BY <1>1, <1>2
  <2>3. \A i \in Starts : i \in Nat /\ (i >= next => start <= i)
    BY <1>1, <1>2 DEF Ahead
  <2>4. \A i \in Nulls(dfa, data) : i >= next => start <= i
    BY <2>1, <2>3
  <2> QED
    BY <1>1, <2>2, <2>4
<1>8. /\ Matched(dfa, data, matches') /\ matches' \in Seq((0 .. End) \X (0 .. End))
      /\ StartsAfter(matches', Len(matches')) = MaxOf(start + 1, best)
  <2> DEFINE S == 0 .. End
  <2>1. matches' = Append(matches, <<start, best>>) /\ start \in S /\ best \in S
        /\ matches \in Seq(S \X S) /\ Matched(dfa, data, matches)
    BY <1>1, <1>2, <1>5 DEF Listed
  <2> HIDE DEF S
  <2>2. Follows(dfa, data, matches, start, best)
    BY <1>4, <1>7 DEF Follows
  <2>3. ASSUME NEW ms, ms = Append(matches, <<start, best>>)
        PROVE  /\ Matched(dfa, data, ms) /\ ms \in Seq(S \X S)
               /\ StartsAfter(ms, Len(ms)) = MaxOf(start + 1, best)
    <3>1. start \in S /\ best \in S /\ matches \in Seq(S \X S) /\ Matched(dfa, data, matches)
      BY <2>1
    <3>2. Follows(dfa, data, matches, start, best) /\ ms = Append(matches, <<start, best>>)
      BY <2>2, <2>3
    <3>3. Matched(dfa, data, ms)
      BY <3>1, <3>2, MatchedNext, Zenon
    <3>4. /\ ms \in Seq(S \X S) /\ Len(ms) # 0 /\ ms[Len(ms)] = <<start, best>>
      BY <3>1, <3>2
    <3>5. StartsAfter(ms, Len(ms)) = MaxOf(start + 1, best)
      BY <3>4 DEF StartsAfter
    <3> QED
      BY <3>3, <3>4, <3>5
  <2> QED
    BY <2>1, <2>3 DEF S
<1>9. TypeOK'
  BY <1>1, <1>2, <1>6, <1>8, SameAutomaton DEF TypeOK, given, caches, End
<1>10. Given'
  BY <1>1 DEF Given, given
<1>11. Interned'
  BY <1>1, SameInterned
<1>12. Place' /\ Following'
  BY <1>1, <1>2, SameSegment DEF Place, Following
<1>13. Visits'
  BY <1>1, <1>6, <1>8, SameGiven DEF Visits, Listed, Ahead
<1> QED
  BY <1>9, <1>10, <1>11, <1>12, <1>13 DEF IInv

LEMMA NextSegmentKeeps == ASSUME IInv, NextSegment PROVE IInv'
<1>1. /\ TypeOK /\ Given /\ Interned /\ Chain /\ Turned /\ pc = "starts" /\ SegmentWalked /\ Listed
      /\ next = StartsAfter(matches, Len(matches)) /\ Ahead(x)
      /\ UNCHANGED <<given, caches, hi, set, p, buf, live, walking>>
      /\ UNCHANGED <<dfa, data, matches, next>>
  BY DEF IInv, Place, Visits, NextSegment, given, walking
<1>2. /\ End \in Nat \ {0} /\ lo \in 0 .. End /\ hi \in 0 .. End /\ x \in Nat /\ next \in Nat
      /\ Starts \subseteq 0 .. End /\ Starts \subseteq Nat
  BY <1>1, Setting DEF TypeOK
<1>3. \A i \in Starts : i >= next => i > hi
  <2> TAKE i \in Starts
  <2>1. i >= x => i \notin 0 .. hi
    BY <1>1 DEF SegmentWalked, StartsFrom
  <2> QED
    BY <1>1, <1>2, <2>1 DEF Ahead
<1>4. Given' /\ Interned' /\ Following'
  BY <1>1, SameInterned DEF Given, given, NextSegment, Following, walking
<1>5. CASE hi = End \/ StartsFrom(hi) = {}
  <2>1. pc' = "done" /\ ret' = "ok" /\ UNCHANGED lo
    BY <1>5 DEF NextSegment
  <2>2. \A i \in Starts : i < next
    BY <1>2, <1>3, <1>5 DEF StartsFrom
  <2>3. TypeOK'
    BY <1>1, <2>1, SameAutomaton DEF TypeOK, given, caches, walking, End
  <2>4. Visits'
    BY <1>1, <2>1, <2>2, SameListed, SameGiven DEF Visits
  <2> QED
    BY <1>4, <2>1, <2>3, <2>4 DEF IInv, Place
<1>6. CASE ~(hi = End \/ StartsFrom(hi) = {})
  <2>1. pc' = "segment" /\ lo' = FirstGe(hi) /\ UNCHANGED ret
    BY <1>6 DEF NextSegment
  <2>2. lo' \in Starts /\ \A k \in Starts : k >= hi => lo' <= k
    BY <1>2, <1>6, <2>1, FirstGeFirst
  <2>3. lo' \in 0 .. End
    BY <1>2, <2>2
  <2>4. TypeOK'
    BY <1>1, <2>1, <2>3, SameAutomaton DEF TypeOK, given, caches, walking, End
  <2>5. Ahead(lo)'
    <3>1. \A i \in Starts : i >= next => i >= lo'
      <4> TAKE i \in Starts
      <4>1. i >= next => i >= hi
        BY <1>2, <1>3
      <4> QED
        BY <1>2, <2>2, <2>3, <4>1
    <3>2. Starts' = Starts /\ next' = next
      BY <1>1, SameGiven
    <3> QED
      BY <3>1, <3>2 DEF Ahead
  <2>6. Visits'
    BY <1>1, <2>1, <2>5, SameListed DEF Visits
  <2>7. Place'
    BY <2>1, <2>2, <1>1, SameGiven DEF Place
  <2> QED
    BY <1>4, <2>4, <2>6, <2>7 DEF IInv
<1> QED
  BY <1>5, <1>6

LEMMA TakeKeeps == ASSUME IInv, Take PROVE IInv'
<1>1. /\ TypeOK /\ Given /\ Interned /\ {} \in sets /\ {} \in lives
      /\ UNCHANGED <<dfa, caches>> /\ UNCHANGED <<dfa, caps, calls, sets, acts, lives, back, memo>>
      /\ data' = <<0>> /\ all' = FALSE /\ nulls' = {} /\ pc' = "idle"
      /\ lo' = 0 /\ hi' = 0 /\ set' = {} /\ p' = 0 /\ buf' = <<>> /\ live' = {}
      /\ next' = 0 /\ x' = 0 /\ start' = 0 /\ slot' = DIED /\ best' = NoMatch /\ matches' = <<>>
      /\ ret' = "none"
  BY DEF IInv, Interned, Take, caches
<1>2. End' = 1
  BY <1>1 DEF End
<1>3. TypeOK'
  <2>1. buf' \in Seq([act : DOMAIN acts', live : lives']) /\ matches' \in Seq((0 .. End') \X (0 .. End'))
    BY <1>1
  <2>2. /\ sets' \subseteq SUBSET (State' \ {DEAD}) /\ lives' \subseteq SomeSlots' /\ DOMAIN acts' \subseteq Key'
        /\ \A k \in DOMAIN acts' : k[1] \in sets' /\ acts'[k].next \in sets'
        /\ \A e \in DOMAIN back' : e \in (DOMAIN acts') \X lives' /\ back'[e] \in lives'
        /\ \A k \in DOMAIN memo' : k \in DOMAIN acts' /\ memo'[k] \in lives' \X lives'
        /\ Cardinality(sets') <= caps'[1] /\ Cardinality(lives') <= caps'[2]
    BY <1>1, SameAutomaton DEF TypeOK
  <2>3. /\ dfa' \in AutomatonType(Len(dfa'.delta)) /\ caps' \in Capacities /\ calls' \in 0 .. MaxCalls
        /\ set' \in sets' /\ live' \in lives' /\ all' \in BOOLEAN
        /\ pc' \in {"idle", "segment", "forward", "back", "starts", "walk", "done"}
        /\ data' \in Inputs \cup {<<0>>} /\ ret' \in {"none", "ok", "error"}
    BY <1>1 DEF TypeOK
  <2>4. /\ nulls' \subseteq 0 .. End' /\ lo' \in 0 .. End' /\ hi' \in 0 .. End' /\ p' \in 0 .. End' + 1
        /\ next' \in 0 .. End' + 1 /\ x' \in 0 .. End' + 1 /\ start' \in 0 .. End'
        /\ slot' \in {DIED} \cup 0 .. Len(dfa'.delta) - 2 /\ best' \in {NoMatch} \cup 0 .. End'
    BY <1>1, <1>2
  <2> QED
    BY <2>1, <2>2, <2>3, <2>4 DEF TypeOK
<1>4. Given'
  BY <1>1 DEF Given
<1>5. Interned'
  BY <1>1, SameInterned
<1>6. Place' /\ Following'
  BY <1>1 DEF Place, Following
<1>7. Visits'
  BY <1>1 DEF Visits, StartsAfter
<1> QED
  BY <1>3, <1>4, <1>5, <1>6, <1>7 DEF IInv

-----------------------------------------------------------------------------
LEMMA InitIInv == Init => IInv
<1> SUFFICES ASSUME Init PROVE IInv
  OBVIOUS
<1>1. /\ dfa \in Automata /\ WellFormed(dfa) /\ caps \in Capacities
      /\ caps[1] \in Nat \ {0} /\ caps[2] \in Nat \ {0} /\ MaxCalls \in Nat
  BY LinearScanAssumption DEF Init
<1>2. IsFiniteSet({{}}) /\ Cardinality({{}}) = 1
  BY FS_Singleton
<1>3. End = 1 /\ DOMAIN acts = {} /\ DOMAIN back = {} /\ DOMAIN memo = {}
  BY DEF Init, End
<1>4. dfa \in AutomatonType(Len(dfa.delta))
  BY <1>1 DEF WellFormed
<1>5. TypeOK
  <2>1. /\ buf \in Seq([act : DOMAIN acts, live : lives])
        /\ matches \in Seq((0 .. End) \X (0 .. End))
    BY DEF Init
  <2>2. /\ sets \subseteq SUBSET (State \ {DEAD}) /\ lives \subseteq SomeSlots /\ DOMAIN acts \subseteq Key
        /\ \A k \in DOMAIN acts : k[1] \in sets /\ acts[k].next \in sets
        /\ \A e \in DOMAIN back : e \in (DOMAIN acts) \X lives /\ back[e] \in lives
        /\ \A k \in DOMAIN memo : k \in DOMAIN acts /\ memo[k] \in lives \X lives
    BY <1>3 DEF Init, SomeSlots
  <2>3. Cardinality(sets) <= caps[1] /\ Cardinality(lives) <= caps[2]
    BY <1>1, <1>2 DEF Init
  <2>4. /\ dfa \in AutomatonType(Len(dfa.delta)) /\ caps \in Capacities /\ calls \in 0 .. MaxCalls
        /\ set \in sets /\ live \in lives /\ all \in BOOLEAN
        /\ pc \in {"idle", "segment", "forward", "back", "starts", "walk", "done"}
        /\ data \in Inputs \cup {<<0>>} /\ ret \in {"none", "ok", "error"}
    <3>1. dfa \in AutomatonType(Len(dfa.delta)) /\ caps \in Capacities /\ calls \in 0 .. MaxCalls
      <4>1. calls = 0 /\ caps \in Capacities
        BY DEF Init
      <4> QED
        BY <1>1, <1>4, <4>1
    <3>2. set \in sets /\ live \in lives /\ all \in BOOLEAN
      BY DEF Init
    <3>3. /\ pc \in {"idle", "segment", "forward", "back", "starts", "walk", "done"}
          /\ data \in Inputs \cup {<<0>>} /\ ret \in {"none", "ok", "error"}
      BY DEF Init
    <3> QED
      BY <3>1, <3>2, <3>3
  <2>5. /\ nulls \subseteq 0 .. End /\ lo \in 0 .. End /\ hi \in 0 .. End /\ p \in 0 .. End + 1
        /\ next \in 0 .. End + 1 /\ x \in 0 .. End + 1 /\ start \in 0 .. End
        /\ slot \in {DIED} \cup 0 .. Len(dfa.delta) - 2 /\ best \in {NoMatch} \cup 0 .. End
    BY <1>3 DEF Init
  <2> QED
    BY <2>1, <2>2, <2>3, <2>4, <2>5 DEF TypeOK
<1>6. Given
  BY DEF Init, Given
<1>7. Interned
  BY <1>2, <1>3 DEF Init, Interned
<1>8. Place /\ Following
  BY DEF Init, Place, Following
<1>9. Visits
  BY DEF Init, Visits, StartsAfter
<1> QED
  BY <1>5, <1>6, <1>7, <1>8, <1>9 DEF IInv

LEMMA StutterKeeps == ASSUME IInv, UNCHANGED vars PROVE IInv'
<1>1. /\ UNCHANGED given /\ UNCHANGED <<lo, hi, set, p, buf, live>> /\ UNCHANGED caches
      /\ UNCHANGED <<next, x, start, slot, best, matches>> /\ pc' = pc /\ ret' = ret
      /\ UNCHANGED <<dfa, caps, calls, data, all, nulls>>
      /\ UNCHANGED <<sets, acts, lives, back, memo>>
  BY DEF vars, given, segment, walking, caches
<1>2. TypeOK'
  BY <1>1, SameAutomaton DEF IInv, TypeOK, End
<1>3. Given'
  BY <1>1 DEF IInv, Given
<1>4. Interned'
  BY <1>1, SameInterned DEF IInv
<1>5. Place'
  <2>1. CASE pc \in {"forward", "back", "starts", "walk"}
    <3>1. Chain /\ Len(buf) \in Nat /\ lo \in Nat
      BY <2>1, InSegment DEF IInv, Place
    <3>2. Chain' /\ (Turned => Turned') /\ (Turned /\ LiveFrom(lo) => LiveFrom(lo)')
          /\ \A q \in lo .. lo + Len(buf) : SetOf(q)' = SetOf(q)
      BY <1>1, <3>1, SameSegment
    <3>3. ASSUME pc = "back" PROVE \A q : q = p => LiveFrom(q)'
      <4>1. p \in lo .. hi /\ LiveFrom(p) /\ hi = lo + Len(buf)
        BY <3>3 DEF IInv, Place, Turned
      <4>2. \A q \in p .. hi : SetOf(q)' = SetOf(q) /\ LiveAt(q)' = LiveAt(q)
        BY <1>1, <3>1, <3>2, <4>1 DEF LiveAt
      <4> QED
        BY <1>1, <4>1, <4>2, SameGiven DEF LiveFrom
    <3>4. p' = p /\ lo' = lo /\ hi' = hi /\ pc' = pc /\ Len(buf') = Len(buf)
      BY <1>1
    <3> QED
      BY <2>1, <3>2, <3>3, <3>4 DEF IInv, Place
  <2>2. CASE pc \notin {"forward", "back", "starts", "walk"}
    BY <1>1, <2>2, SameGiven DEF IInv, Place
  <2> QED
    BY <2>1, <2>2
<1>6. Following'
  <2>1. CASE pc = "walk"
    <3>1. /\ Chain /\ Turned /\ WalkAt(start, slot, p, best) /\ start <= hi /\ start < p
          /\ lo <= x /\ x <= start
      BY <2>1 DEF IInv, Place, Following, Visits, WalkAt
    <3>2. start \in lo .. hi /\ p \in lo .. End + 1
      BY <3>1, InSegment, <2>1 DEF IInv, TypeOK
    <3> QED
      BY <1>1, <2>1, <3>1, <3>2, WalkKept DEF IInv
  <2>2. CASE pc # "walk"
    BY <1>1, <2>2 DEF Following
  <2> QED
    BY <2>1, <2>2
<1>7. Visits'
  BY <1>1, SameListed, SameGiven DEF IInv, Visits, Ahead
<1> QED
  BY <1>2, <1>3, <1>4, <1>5, <1>6, <1>7 DEF IInv

-----------------------------------------------------------------------------
LEMMA Invariant == Spec => []IInv
<1>1. ASSUME IInv, [Next]_vars PROVE IInv'
  <2>1. CASE Work
    <3>1. CASE Segment
      BY <1>1, <3>1, SegmentKeeps
    <3>2. CASE Forward
      BY <1>1, <3>2, ForwardKeeps
    <3>3. CASE ForwardFails
      BY <1>1, <3>3, ForwardFailsKeeps
    <3>4. CASE TurnBack
      BY <1>1, <3>4, TurnBackKeeps
    <3>5. CASE TurnBackFails
      BY <1>1, <3>5, TurnBackFailsKeeps
    <3>6. CASE StepBack
      BY <1>1, <3>6, StepBackKeeps
    <3>7. CASE StepBackFails
      BY <1>1, <3>7, StepBackFailsKeeps
    <3>8. CASE TurnForth
      BY <1>1, <3>8, TurnForthKeeps
    <3>9. CASE NextStart
      BY <1>1, <3>9, NextStartKeeps
    <3>10. CASE Walk
      BY <1>1, <3>10, WalkKeeps
    <3>11. CASE Found
      BY <1>1, <3>11, FoundKeeps
    <3>12. CASE NextSegment
      BY <1>1, <3>12, NextSegmentKeeps
    <3>13. CASE Take
      BY <1>1, <3>13, TakeKeeps
    <3> QED
      BY <2>1, <3>1, <3>2, <3>3, <3>4, <3>5, <3>6, <3>7, <3>8, <3>9, <3>10, <3>11,
         <3>12, <3>13 DEF Work
  <2>2. CASE \E input \in Inputs, always \in BOOLEAN : Call(input, always)
    BY <1>1, <2>2, CallKeeps
  <2>3. CASE UNCHANGED vars
    BY <1>1, <2>3, StutterKeeps
  <2> QED
    BY <1>1, <2>1, <2>2, <2>3 DEF Next
<1> QED
  BY <1>1, InitIInv, PTL DEF Spec

(* In a segment gone over forward and back the sets are those of SetOf.    *)
LEMMA LiveSlotsExact == ASSUME IInv PROVE LiveExact
<1> SUFFICES ASSUME pc = "starts" PROVE LiveExact
  BY DEF LiveExact
<1>1. TypeOK /\ Given /\ Interned /\ Chain /\ Turned /\ LiveFrom(lo)
  BY DEF IInv, Place
<1>2. Len(buf) \in Nat /\ lo \in Nat /\ hi = lo + Len(buf) /\ (hi < End => set = {})
  BY <1>1, InSegment DEF Turned
<1>3. \A q \in lo .. hi : SetAt(q) = SetOf(q)
  BY <1>2 DEF SetAt, SetOf
<1>4. hi < End => SetAt(hi) = {}
  BY <1>2 DEF SetAt
<1>5. \A q \in lo .. hi : \A j \in Slots(SetAt(q)) :
         j \in LiveAt(q) <=> HasEndAhead(StateAt(SetAt(q), j), q)
  BY <1>1, <1>3 DEF LiveFrom
<1> QED
  BY <1>4, <1>5 DEF LiveExact

(* A walk reaches position p from an entry of the segment.                 *)
LEMMA WalkOnRun == ASSUME IInv PROVE WalkFollowsRun
<1> SUFFICES ASSUME pc = "walk", NEW r \in Runs(dfa, data, start)
             PROVE  IF slot = DIED
                    THEN p < End => r[p] = DEAD
                    ELSE /\ StateAt(acts[buf[p - lo].act].next, slot) = r[p]
                         /\ best = LongestUpTo(dfa, data, r, start, p - 1)
  BY DEF WalkFollowsRun
<1>1. /\ TypeOK /\ Given /\ Interned /\ Chain /\ Turned /\ WalkAt(start, slot, p, best)
      /\ lo <= start /\ hi = lo + Len(buf)
  <2>1. lo <= x /\ x <= start /\ lo \in Int /\ x \in Int /\ start \in Int
    <3>1. lo <= x /\ x <= start /\ TypeOK /\ Given
      BY DEF IInv, Visits
    <3> QED
      BY <3>1, Setting DEF TypeOK
  <2> QED
    BY <2>1 DEF IInv, Place, Following, Turned
<1>2. /\ End \in Nat /\ lo \in 0 .. End /\ Len(buf) \in Nat /\ lo + Len(buf) \in lo .. End
      /\ start \in 0 .. End /\ p \in Int
  BY <1>1, InSegment, Setting DEF TypeOK
<1>3. CASE slot = DIED
  BY <1>1, <1>3 DEF WalkAt
<1>4. CASE slot # DIED
  <2>1. /\ p <= hi /\ start < p /\ StateAt(SetOf(p), slot) = r[p]
        /\ IsLongest(best, dfa, data, r, start, p - 1)
    BY <1>1, <1>4 DEF WalkAt
  <2>2. p - 1 \in lo .. lo + Len(buf) - 1 /\ (p - 1) + 1 = p /\ p - 1 \in Int /\ p - 1 <= End
        /\ (p - 1) - lo + 1 = p - lo
    BY <1>1, <1>2, <2>1
  <2>3. acts[ActOf(p - 1)] = ActionOf(ActOf(p - 1)) /\ ActionOf(ActOf(p - 1)).next = SetOf((p - 1) + 1)
    BY <1>1, <2>2, InSegment
  <2>4. ActOf(p - 1) = buf[p - lo].act
    BY <2>2 DEF ActOf
  <2>5. best = LongestUpTo(dfa, data, r, start, p - 1)
    BY <1>1, <1>2, <2>1, <2>2, LongestIs
  <2> QED
    BY <1>4, <2>1, <2>2, <2>3, <2>4, <2>5
<1> QED
  BY <1>3, <1>4

LEMMA ScannedExactly == ASSUME IInv PROVE LinearExact
<1> SUFFICES ASSUME pc = "done", ret = "ok" PROVE LeftmostLongest(dfa, data, matches)
  BY DEF LinearExact
<1>1. /\ TypeOK /\ Given /\ Matched(dfa, data, matches)
      /\ next = StartsAfter(matches, Len(matches)) /\ \A i \in Starts : i < next
  BY DEF IInv, Visits, Listed
<1>2. Nulls(dfa, data) \subseteq Starts
  BY <1>1 DEF Given, Starts, Nulls, End
<1>3. \A i \in Nulls(dfa, data) : i < StartsAfter(matches, Len(matches))
  BY <1>1, <1>2
<1> QED
  BY <1>1, <1>3, Zenon DEF LeftmostLongest, Matched

(* For every automaton, input, capacity of the caches and sequence of      *)
(* calls, the live slots of a segment are exactly those with an end ahead, *)
(* and the slots that are followed from a start lead through the states of *)
(* the run from that start alone.                                          *)
THEOREM LinearScanInvHolds == Spec => []ScanInv
<1>1. IInv => ScanInv
  BY LiveSlotsExact, WalkOnRun DEF ScanInv, IInv
<1> QED
  BY <1>1, Invariant, PTL

(* A call that does not fail reports the leftmost-longest matches, for     *)
(* every automaton and input, whatever was interned before and wherever    *)
(* the segments were cut.                                                  *)
THEOREM LinearExactHolds == Spec => []LinearExact
<1>1. IInv => LinearExact
  BY ScannedExactly
<1> QED
  BY <1>1, Invariant, PTL
=============================================================================
