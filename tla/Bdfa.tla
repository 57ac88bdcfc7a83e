--------------------------------- MODULE Bdfa ---------------------------------
(***************************************************************************)
(* The bounded DFA (resharp-engine/src/bdfa.rs), which finds all matches   *)
(* of a pattern of bounded length in one pass.  A state is the chain of    *)
(* the matches that may be under way, the leftmost first: what is left to  *)
(* match (body), how far back it began (step) and how long the longest     *)
(* match found from there is (best).  When the leftmost of them can not    *)
(* go on, its match is reported and the scan starts afresh at its end.     *)
(*                                                                         *)
(* The algebra is external here: a regex is the record of what the DFA     *)
(* asks of it, see BoundedRegexType; BoundedTerms makes them of patterns.  *)
(* No two candidates of a chain began at the same place, and they stand in *)
(* the order of their steps: a chain is the set of its candidates.         *)
(***************************************************************************)
EXTENDS Minterms

CONSTANTS
    BoundedRegexes, \* the regexes
    Inputs,         \* the inputs of each call of find_all on one Regex
    MaxPrefix,      \* 16: the longest prefix that is searched for
    MaxFrontier,    \* 64: the most nodes followed in search of one
    Spare           \* room for matches that reserve makes

Bit    == {"center", "begin", "end"}     \* Nullability
Never  == {}
Always == Bit
BotId  == 1

\* der is the derivative by each byte, null the nullability.  tests are the sets that collect_sets
\* finds: bytes they do not tell apart have the same derivatives.  covered are the pairs of nodes of
\* which the first is found to match only where the second has matched (mk_not_begins_with, mk_inter),
\* which is so of all the pairs of covers.
BoundedRegexType(nodes) ==
    [pattern : nodes, der : [nodes -> [Alphabet -> nodes]], null : [nodes -> {Never, Always}],
     tests : SUBSET SUBSET Alphabet, covered : SUBSET (nodes \X nodes), covers : SUBSET (nodes \X nodes),
     length : [nodes -> Nat]]
Alike(b, x, y) == \A S \in b.tests : x \in S <=> y \in S

\* What find_all gives to the bounded DFA has no anchors, and its matches are bounded (length).
WellFormed(b) ==
    /\ Len(b.der) \in Nat /\ Len(b.der) >= BotId /\ b \in BoundedRegexType(1 .. Len(b.der))
    /\ b.null[BotId] = Never /\ \A c \in Alphabet : b.der[BotId][c] = BotId
    /\ \A n \in 1 .. Len(b.der) : \A x, y \in Alphabet : Alike(b, x, y) => b.der[n][x] = b.der[n][y]
    /\ b.covered \subseteq b.covers
    /\ \A p \in b.covers :
        \/ b.null[p[2]] # Never
        \/ b.null[p[1]] = Never /\ \A c \in Alphabet : <<b.der[p[1]][c], b.der[p[2]][c]>> \in b.covers
    /\ \A n \in 1 .. Len(b.der) : \A c \in Alphabet :
        b.der[n][c] # BotId => b.length[b.der[n][c]] < b.length[n]

ASSUME BdfaAssumption ==
    /\ \A b \in BoundedRegexes : WellFormed(b)
    /\ Inputs \in Seq(SUBSET (Seq(Alphabet) \ {<<>>}))
    /\ MaxPrefix \in Nat \ {0, 1, 2} /\ MaxFrontier \in Nat \ {0} /\ Spare \in Nat \ {0}

VARIABLES
    regex,          \* the RegexBuilder, for this regex
    rare,           \* which prefixes have bytes that are rare enough to be searched for
    cells, uncut,   \* generate_minterms: the partition and the sets still to cut it
    frontier,       \* calc_prefix_sets, calc_potential_start: the nodes to go on from,
    found,          \* and the sets so far
    dfa,            \* the BDFA: minterms, lookup, states, table and prefix
    calls,          \* calls of find_all
    phase,          \* "minterms", "prefix", "potential", "through" (new),
                    \* "idle", "scan", "walk", "pending" or "fill" (find_all)
    input,
    state,
    pos,
    left,           \* how far "through" and "fill" have got, how far "walk" has still to go
    matches,
    room,           \* what is left of the capacity of matches
    cands,          \* the matches that are pending at the end
    filled          \* the matches with those of the empty word between them

buildVars == <<cells, uncut, frontier, found>>
bdfaVars == <<regex, rare, buildVars, dfa, calls, phase, input, state, pos, left, matches, room, cands, filled>>

Lesser(m, n)  == IF m <= n THEN m ELSE n
Greater(m, n) == IF m >= n THEN m ELSE n

-----------------------------------------------------------------------------
\* mk_ordered, as the first candidate of a chain
Candidate(body, step, best) == [body |-> body, step |-> step, best |-> best]
First(chain) == CHOOSE c \in chain : \A d \in chain : d.step <= c.step

\* prune_counted_chain: drops candidates that can only match where c does
Outlives(b, d, c) ==
    \/ d.body = BotId
    \/ <<d.body, c.body>> \notin b.covered
    \/ d.best > 0 /\ c.best <= Greater(c.step - d.step, 0)
PruneCountedChain(b, c, chain) ==
    IF c.body = BotId THEN chain
    ELSE IF b.null[c.body] # Never THEN {}
    ELSE {d \in chain : \E e \in chain : e.step >= d.step /\ Outlives(b, e, c)}

\* the derivative of a candidate by a minterm
\* a mutant: keeps the first match
MatchedFirst(b, body, step, best) == IF "center" \in b.null[body] /\ best = 0 THEN step ELSE best
MatchedUpTo(b, body, step, best) == IF "center" \in b.null[body] /\ step >= best THEN step ELSE best
DeriveTo(b, body, c) == Candidate(body, c.step + 1, MatchedUpTo(b, body, c.step + 1, MatchedUpTo(b, c.body, c.step, c.best)))
TransitionTerm(b, n, mt) == b.der[n][CHOOSE c \in mt : TRUE]
Derive(b, c, mt) == DeriveTo(b, TransitionTerm(b, c.body, mt), c)

\* derive_chain: a finished candidate moves on, one that failed is dropped
Moved(b, c, mt) == IF c.body = BotId THEN [c EXCEPT !.step = @ + 1] ELSE Derive(b, c, mt)
Alive(c) == c.body # BotId \/ c.best > 0
DeriveChain(b, chain, mt) == {c \in {Moved(b, c, mt) : c \in chain} : Alive(c)}
Spawned(b, mt) == {c \in {Derive(b, Candidate(b.pattern, 0, 0), mt)} : Alive(c)}

\* rebuild_chain: from the last candidate to the first
RebuildChain(b, candidates) ==
    LET At(n) == {c \in candidates : c.step = n}
        steps == IF candidates = {} THEN 0 ELSE First(candidates).step
        upTo[n \in 0 .. steps] ==
            IF n = 0 THEN {}
            ELSE IF At(n) = {} THEN upTo[n - 1]
            ELSE At(n) \cup PruneCountedChain(b, CHOOSE c \in At(n) : TRUE, upTo[n - 1])
    IN upTo[steps]

-----------------------------------------------------------------------------
\* The DFA.  State 0 is not used; the chain of states[1], the initial one, is empty.
Initial == 1
NewDfa(minterms) ==
    [minterms |-> minterms, lookup |-> MintermsLookup(minterms), states |-> << {} >>, table |-> <<>>,
     prefix |-> "none", sets |-> <<>>, after |-> Initial]

\* a state whose first candidate is finished has a match: where it began, and where it ended
Finished(chain) == chain # {} /\ First(chain).body = BotId /\ First(chain).best > 0
MatchRel(d, s) == IF Finished(d.states[s]) THEN First(d.states[s]).step ELSE 0
\* a mutant: the offset of the start
MatchEndOffOfStart(d, s) == MatchRel(d, s)
MatchEndOff(d, s) == IF Finished(d.states[s]) THEN First(d.states[s]).step - First(d.states[s]).best ELSE 0

\* register
Registered(d, chain) == \E s \in 1 .. Len(d.states) : d.states[s] = chain
Register(d, chain) == IF Registered(d, chain) THEN d ELSE [d EXCEPT !.states = Append(@, chain)]
StateFor(d, chain) == CHOOSE s \in 1 .. Len(d.states) : d.states[s] = chain

\* transition and transition_slow: the next state from the table, which it fills in
Enter(d, e, s) == [d EXCEPT !.table = [x \in DOMAIN @ \cup {e} |-> IF x = e THEN s ELSE @[x]]]
RegisterAndEnter(d, e, chain) == Enter(Register(d, chain), e, StateFor(Register(d, chain), chain))
ChainAfter(b, chain, mt) == RebuildChain(b, DeriveChain(b, chain, mt) \cup Spawned(b, mt))
NextChain(b, d, s, mt) == ChainAfter(b, d.states[s], d.minterms[mt + 1])
Filled(b, d, s, mt) ==
    IF <<s, mt>> \in DOMAIN d.table THEN d ELSE RegisterAndEnter(d, <<s, mt>>, NextChain(b, d, s, mt))
Cached(s, c) == <<s, dfa.lookup[c]>> \in DOMAIN dfa.table
NextState(d, s, c) == d.table[<<s, d.lookup[c]>>]

-----------------------------------------------------------------------------
\* new: the minterms.
BdfaInit ==
    /\ regex \in BoundedRegexes /\ rare \in SUBSET {"literal", "sets"}
    /\ cells = Uncut /\ uncut = regex.tests
    /\ frontier = {} /\ found = <<>> /\ dfa = NewDfa(<<Alphabet>>)
    /\ calls = 0 /\ phase = "minterms" /\ input = <<>> /\ state = Initial /\ pos = 0 /\ left = 0
    /\ matches = <<>> /\ room = 0 /\ cands = {} /\ filled = <<>>

scanVars == <<calls, input, pos, matches, room, cands, filled>>

Cut(S) ==
    /\ phase = "minterms" /\ S \in uncut
    /\ cells' = Refine(cells, S) /\ uncut' = uncut \ {S}
    /\ UNCHANGED <<regex, rare, frontier, found, dfa, phase, state, left, scanVars>>

\* build_prefix needs SIMD
Generate(order) ==
    /\ phase = "minterms" /\ uncut = {}
    /\ dfa' = NewDfa(GenerateMinterms(cells, order))
    /\ phase' \in {"prefix", "idle"} /\ frontier' = {regex.pattern}
    /\ UNCHANGED <<regex, rare, cells, uncut, found, state, left, scanVars>>

\* collect_der_targets and iter_sat: the nodes that derivatives lead to, and the bytes
Targets(b, nodes) == {b.der[n][c] : n \in nodes, c \in Alphabet} \ {BotId}
BytesOn(b, nodes) == {c \in Alphabet : \E n \in nodes : b.der[n][c] # BotId}
AnyNonbeginNullable(b, nodes) == \E n \in nodes : b.null[n] \cap {"center", "end"} # {}
Follow ==
    /\ found' = Append(found, BytesOn(regex, frontier)) /\ frontier' = Targets(regex, frontier)
    /\ UNCHANGED <<regex, rare, cells, uncut, dfa, phase, state, left, scanVars>>
Cleared == IF ~AnyNonbeginNullable(regex, frontier) /\ Targets(regex, frontier) = {} THEN <<>> ELSE found

\* calc_prefix_sets_inner, without strip_prefix: as long as there is one node to go on to.  (No node
\* of a bounded pattern is met twice.)
PrefixGoesOn == ~AnyNonbeginNullable(regex, frontier) /\ Cardinality(Targets(regex, frontier)) = 1
PrefixSet == phase = "prefix" /\ PrefixGoesOn /\ Follow

\* build_prefix_search.  Whether the bytes are rare enough is for the table of byte frequencies to say.
Literal(sets) == \A i \in 1 .. Len(sets) : Cardinality(sets[i]) = 1
Search(sets) ==
    IF Literal(sets) THEN IF "literal" \in rare THEN "literal" ELSE "none"
    ELSE IF "sets" \in rare THEN "search" ELSE "none"

\* build_prefix, with the sets calc_prefix_sets_inner has found
PrefixSets == SubSeq(Cleared, 1, Lesser(Len(Cleared), MaxPrefix))
Useful(sets) == sets # <<>> /\ (Len(sets) >= 3 \/ Literal(sets)) /\ Search(sets) # "none"
BuildPrefix ==
    /\ phase = "prefix" /\ ~PrefixGoesOn
    /\ IF Useful(PrefixSets)
       THEN phase' = "through" /\ found' = PrefixSets /\ frontier' = frontier
       ELSE phase' = "potential" /\ found' = <<>> /\ frontier' = {regex.pattern}
    /\ UNCHANGED <<regex, rare, cells, uncut, dfa, state, left, scanVars>>

\* the state after the prefix, whose transitions are put into the table
FirstMinterm(d, S) ==
    CHOOSE i \in 1 .. Len(d.minterms) : /\ d.minterms[i] \cap S # {}
                                        /\ \A j \in 1 .. i - 1 : d.minterms[j] \cap S = {}
Through ==
    /\ phase = "through" /\ left < Len(found)
    /\ LET mt == FirstMinterm(dfa, found[left + 1]) - 1
       IN dfa' = Filled(regex, dfa, state, mt) /\ state' = dfa'.table[<<state, mt>>]
    /\ left' = left + 1
    /\ UNCHANGED <<regex, rare, buildVars, phase, scanVars>>
SetPrefix ==
    /\ phase = "through" /\ left = Len(found)
    /\ dfa' = [dfa EXCEPT !.prefix = Search(found), !.sets = found, !.after = state]
    /\ phase' = "idle"
    /\ UNCHANGED <<regex, rare, buildVars, state, left, scanVars>>

\* calc_potential_start: as long as every node goes on
PotentialGoesOn ==
    /\ Cardinality(frontier) <= MaxFrontier /\ Len(found) < MaxPrefix
    /\ ~AnyNonbeginNullable(regex, frontier) /\ Targets(regex, frontier) # {}
PotentialSet == phase = "potential" /\ PotentialGoesOn /\ Follow
PotentialSets == IF Cardinality(frontier) > MaxFrontier \/ Len(found) >= MaxPrefix THEN found ELSE Cleared

\* build_prefix_potential
BuildPrefixPotential ==
    /\ phase = "potential" /\ ~PotentialGoesOn
    /\ dfa' = IF PotentialSets = <<>> \/ Search(PotentialSets) = "none" THEN dfa
              ELSE [dfa EXCEPT !.prefix = Search(PotentialSets), !.sets = PotentialSets]
    /\ phase' = "idle"
    /\ UNCHANGED <<regex, rare, buildVars, state, left, scanVars>>

-----------------------------------------------------------------------------
\* find_all of an input that is not empty
FindAll(w) ==
    /\ phase = "idle" /\ calls < Len(Inputs)
    /\ calls' = calls + 1 /\ phase' = "scan"
    /\ input' = w /\ state' = Initial /\ pos' = 0 /\ matches' = <<>> /\ room' = Spare
    /\ UNCHANGED <<regex, rare, buildVars, dfa, left, cands, filled>>

scanned == <<regex, rare, buildVars, calls, input, cands, filled>>

\* the byte at pos has taken the scan to state s
Byte == input[pos + 1]
InInput == phase = "scan" /\ pos < Len(input)
Report(d, s) ==
    /\ matches' = Append(matches, <<pos + 1 - MatchRel(d, s), pos + 1 - MatchEndOff(d, s)>>)
    /\ state' = Initial
    /\ pos' = pos + 1 - MatchEndOff(d, s)
Advance(d, s) ==
    IF MatchRel(d, s) > 0 THEN Report(d, s) ELSE state' = s /\ pos' = pos + 1 /\ matches' = matches
Transit ==
    /\ dfa' = Filled(regex, dfa, state, dfa.lookup[Byte])
    /\ Advance(dfa', NextState(dfa', state, Byte))

\* bdfa_inner: along the table, while matches has room
HasMatch(d) == MatchRel(d, NextState(d, state, Byte)) > 0
InTable == Cached(state, Byte)
Inner ==
    /\ InInput /\ dfa.prefix = "none" /\ InTable /\ (HasMatch(dfa) => room > 0)
    /\ Advance(dfa, NextState(dfa, state, Byte))
    /\ room' = IF HasMatch(dfa) THEN room - 1 ELSE room
    /\ UNCHANGED <<scanned, dfa, phase, left>>

\* bdfa_scan, where bdfa_inner stops: one transition, and room for more matches
Outer ==
    /\ InInput /\ dfa.prefix = "none" /\ ~(InTable /\ (HasMatch(dfa) => room > 0))
    /\ Transit
    /\ room' = IF room = 0 THEN Spare ELSE IF HasMatch(dfa') THEN room - 1 ELSE room
    /\ UNCHANGED <<scanned, phase, left>>

\* find_fwd: the first place where the prefix lies in the input
Found(from) == {p \in from .. Len(input) - Len(dfa.sets) : \A i \in 1 .. Len(dfa.sets) : input[p + i] \in dfa.sets[i]}
FirstFound == CHOOSE p \in Found(pos) : \A q \in Found(pos) : p <= q

\* bdfa_scan, where nothing is under way: on to the next place where the prefix lies
Prefixed == InInput /\ dfa.prefix # "none"
Skip ==
    /\ Prefixed /\ state = Initial /\ Found(pos) # {}
    /\ IF dfa.prefix = "literal"
       THEN state' = dfa.after /\ pos' = FirstFound + Len(dfa.sets) /\ left' = 0
       ELSE state' = state /\ pos' = FirstFound /\ left' = Len(dfa.sets)
    /\ phase' = "walk"
    /\ UNCHANGED <<scanned, dfa, matches, room>>

\* through the bytes of a prefix that is not a literal, until nothing is under way
Walk ==
    /\ phase = "walk" /\ left > 0 /\ pos < Len(input)
    /\ dfa' = Filled(regex, dfa, state, dfa.lookup[Byte]) /\ state' = NextState(dfa', state, Byte)
    /\ IF state' = Initial THEN pos' = pos /\ left' = 0 ELSE pos' = pos + 1 /\ left' = left - 1
    /\ UNCHANGED <<scanned, phase, matches, room>>
Arrive ==
    /\ phase = "walk" /\ (left = 0 \/ pos >= Len(input))
    /\ phase' = "scan" /\ left' = 0
    /\ IF MatchRel(dfa, state) > 0 THEN Report(dfa, state) ELSE UNCHANGED <<state, pos, matches>>
    /\ UNCHANGED <<scanned, dfa, room>>

\* along the table: a byte after which nothing is under way is left for the next search
FollowTable ==
    /\ Prefixed /\ state # Initial /\ InTable
    /\ IF NextState(dfa, state, Byte) = Initial THEN state' = Initial /\ UNCHANGED <<pos, matches>>
       ELSE Advance(dfa, NextState(dfa, state, Byte))
    /\ UNCHANGED <<scanned, dfa, phase, left, room>>
FollowSlow ==
    /\ Prefixed /\ state # Initial /\ ~InTable
    /\ Transit
    /\ UNCHANGED <<scanned, phase, left, room>>

-----------------------------------------------------------------------------
\* the end of bdfa_scan: what the candidates under way have found, without what overlaps
Pending(chain) == {<<Len(input) - c.step, Len(input) - c.step + c.best>> : c \in {c \in chain : c.best > 0}}
ReachEnd ==
    /\ phase = "scan"
    /\ pos >= Len(input) \/ (dfa.prefix # "none" /\ state = Initial /\ Found(pos) = {})
    /\ phase' = "pending" /\ cands' = Pending(dfa.states[state])
    /\ UNCHANGED <<regex, rare, buildVars, dfa, calls, input, state, pos, left, matches, room, filled>>

LastEnd(ms) == IF ms = <<>> THEN 0 ELSE ms[Len(ms)][2]
FirstPending == CHOOSE m \in cands : \A n \in cands : m[1] < n[1] \/ (m[1] = n[1] /\ m[2] >= n[2])
AddPending ==
    /\ phase = "pending" /\ cands # {}
    /\ matches' = IF FirstPending[1] < LastEnd(matches) THEN matches ELSE Append(matches, FirstPending)
    /\ cands' = cands \ {FirstPending}
    /\ UNCHANGED <<regex, rare, buildVars, dfa, calls, phase, input, state, pos, left, room, filled>>

\* find_all_fwd_bounded: a pattern that matches the empty word has a match at every position left
EndScan ==
    /\ phase = "pending" /\ cands = {}
    /\ phase' = (IF regex.null[regex.pattern] = Always THEN "fill" ELSE "idle") /\ left' = 0
    /\ UNCHANGED <<regex, rare, buildVars, dfa, calls, input, state, pos, matches, room, cands, filled>>

EmptyAt(from, to) == [i \in 1 .. Greater(to - from, 0) |-> <<from + i - 1, from + i - 1>>]
Cursor == IF filled = <<>> THEN 0 ELSE Greater(LastEnd(filled), filled[Len(filled)][1] + 1)
FillMatch ==
    /\ phase = "fill" /\ left < Len(matches)
    /\ filled' = filled \o Append(EmptyAt(Cursor, matches[left + 1][1]), matches[left + 1])
    /\ left' = left + 1
    /\ UNCHANGED <<regex, rare, buildVars, dfa, calls, phase, input, state, pos, matches, room, cands>>
FillEnd ==
    /\ phase = "fill" /\ left = Len(matches)
    /\ matches' = filled \o EmptyAt(Cursor, Len(input) + 1) /\ filled' = <<>> /\ left' = 0 /\ phase' = "idle"
    /\ UNCHANGED <<regex, rare, buildVars, dfa, calls, input, state, pos, room, cands>>

Build ==
    \/ \E S \in uncut : Cut(S)
    \/ \E order \in Orders(cells.rest) : Generate(order)
    \/ PrefixSet \/ BuildPrefix \/ Through \/ SetPrefix \/ PotentialSet \/ BuildPrefixPotential
BdfaNext ==
    \/ Build
    \/ \E w \in Inputs[Lesser(calls + 1, Len(Inputs))] : FindAll(w)
    \/ Inner \/ Outer
    \/ Skip \/ Walk \/ Arrive \/ FollowTable \/ FollowSlow
    \/ ReachEnd \/ AddPending \/ EndScan \/ FillMatch \/ FillEnd

BdfaSpec == BdfaInit /\ [][BdfaNext]_bdfaVars

-----------------------------------------------------------------------------
\* What a regex matches in a word w, by derivatives: what is left of it at i and after, and from i to j.
Residuals(b, w, i) ==
    LET r[k \in 0 .. Len(w) - i] == IF k = 0 THEN b.pattern ELSE b.der[r[k - 1]][w[i + k]] IN r
EndsFrom(b, w, i) == {j \in i .. Len(w) : b.null[Residuals(b, w, i)[j - i]] # Never}

\* The leftmost-longest matches that do not overlap: each begins at the first place that is not before
\* the end of the match before it, nor where that one began, and is the longest there.
After(ms, k) == IF k = 0 THEN 0 ELSE Greater(ms[k][1] + 1, ms[k][2])
LeftmostLongest(ends, ms) ==
    LET starts == {i \in DOMAIN ends : ends[i] # {}}
    IN /\ \A k \in 1 .. Len(ms) :
            /\ ms[k][1] \in starts /\ ms[k][1] >= After(ms, k - 1)
            /\ \A i \in starts : i >= After(ms, k - 1) => ms[k][1] <= i
            /\ ms[k][2] \in ends[ms[k][1]] /\ \A j \in ends[ms[k][1]] : j <= ms[k][2]
       /\ \A i \in starts : i < After(ms, Len(ms))

\* find_all returns the leftmost-longest matches of the pattern that do not overlap, whatever it
\* searched for, whichever transitions were in the table and however many matches there was room
\* for.
ScanExact ==
    phase = "idle" /\ calls > 0 => LeftmostLongest([i \in 0 .. Len(input) |-> EndsFrom(regex, input, i)], matches)

\* The classes of bytes, in whatever order the sets are taken, tell apart the bytes that a set of
\* the pattern tells apart, and no others, although their numbers are kept in a u8.
ClassesExact ==
    phase # "minterms" => \A x, y \in Alphabet : dfa.lookup[x] = dfa.lookup[y] <=> Alike(regex, x, y)

\* Every step of a scan brings it nearer to its end, although the scan goes back to the end of each
\* match it reports and a search for the prefix starts again at the byte where it failed: the last
\* match ends later, or the scan is further on, or it is at the same byte and nearer to a search,
\* whose first byte is never the one where it ends.
Rank ==
    IF phase = "walk" THEN IF left = Len(dfa.sets) THEN 0 ELSE IF left = 0 THEN 3 ELSE 4
    ELSE IF state = Initial THEN 1 ELSE 2
ScanAdvances == [][
    {phase, phase'} \subseteq {"scan", "walk"} =>
        \/ LastEnd(matches') > LastEnd(matches)
        \/ matches' = matches /\ (pos' > pos \/ (pos' = pos /\ Rank' < Rank))]_bdfaVars
=============================================================================
