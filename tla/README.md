# A model of RE#

RE# (`src/`, the `resharp` workspace) is a regular expression engine built on
symbolic derivatives: intersection, complement and lookarounds, leftmost-longest
matches, no backtracking. This directory holds TLA+ models of its parser, algebra,
automata, scans and searchers, and of what threads and caches do to them; the TLC
configurations that check the models on small instances; and TLAPS proofs of their
most important properties for every instance.

## The system

| component | state | operations | interacts with |
|---|---|---|---|
| Parser (`resharp-parser`) | position, group stack, flags | `parse_ast_with`, the translator, the capture skeleton | builds nodes of the algebra |
| Regex algebra (`resharp-algebra/src/lib.rs`) | hash-consed nodes, memo tables of derivatives, reversals, prunings, verdicts of emptiness | `mk_*`, `der`, `reverse`, `prune_fwd`, `prune_rev`, `is_empty_lang`, `subsumes` | asked by the automata, filled under the mutex of the Regex |
| Nullability sets (`nulls.rs`, `NullsBuilder`) | hash-consed sets of (mask, rel, tag) in five representations | union, intersection, complement, shift | effects of automaton states |
| StartPositions (`nulls.rs`) | a vector of half-open runs | `clear`, `add`, `add_range`, iterators | written by the reverse scan, read by the forward scan |
| Byte sets and minterms (`solver.rs`, `minterms.rs`) | interned 256-bit sets, a partition tree | `and_id`, `not_id`, `generate_minterms`, `minterms_lookup` | the alphabet of every automaton |
| Lazy DFA (`ldfa.rs`, `register_state` in `scan.rs`) | state nodes and their index, transition tables, effects, skip ids and skippers | constructor, `lazy_transition`, `create_state`, `get_or_register`, `install_prefix` | asks the algebra for derivatives; its tables are read by the scans through raw pointers |
| Reverse scan (`collect_rev` and relatives) | position, state, pending range | `collect_rev`, `collect_rev_first`, `scan_rev_from` | fills StartPositions from a reverse automaton |
| Forward scan (`scan_fwd` and relatives) | position, state, best end | `scan_fwd_optional`, `scan_fwd_all`, `scan_fwd_from` | reads StartPositions, fills rows of the forward automaton on a miss |
| Linear scanner (`linear.rs`) | interned sets of states, actions, liveness sets | `scan_fwd_linear` | hardened mode, in place of the forward scan |
| Bounded DFA (`bdfa.rs`) | chains of nodes with counters, a prefix searcher | `transition`, `bdfa_scan` | forward-only search of bounded patterns |
| Regex (`lib.rs`, `ismatch.rs`, `fwd.rs`) | `Mutex<RegexInner>`: all automata, the scratch buffers, the capture parser | `find_all`, `is_match`, `find_anchored`, `captures_all` | shared by threads; chooses a path once, at construction |
| Captures (`captures.rs`, `pparse.rs`) | caches per input, the input scope | `begin_input`, `extract_captures` | called for every match, under a lock of its own |
| Stream, Regex set, dump/load (`stream.rs`, `set.rs`, `dump.rs`) | caches in `OnceLock`s, the tagged union automaton | `stream_with`, `seek`, `matched`, `categorize_all`, `dump` | behind features that are off by default |
| Prefix selection (`prefix.rs`) | none after construction | `build_*` | which searcher a row of byte sets becomes |
| SIMD searchers (`accel.rs`, `simd/`) | none after construction | `find_fwd`, `find_rev`, `find_all` | where a scan may jump to |
| FFI (`resharp-ffi`) | none | C wrappers | the Regex |

A search with `find_all` on the general path is: lock the mutex, clear the buffers,
run the reverse automaton from the end of the input and collect the positions at
which a match may start, then run the forward automaton from each of them that does
not lie in the match before, and copy the matches out. Both automata are caches that
fill while they are scanned with.

What is hard, and where a test hardly reaches:

- *Caches that fill during use.* A scan may miss at any byte, fill a row, fail half
  way because of the capacity, and go on, or be followed by another call. The answer
  must not depend on what was in the cache. States are numbers that index four tables
  that grow at different moments and are read without bounds checks.
- *Skipping.* A state that loops on most bytes gets a searcher that passes over them
  unread; everything those bytes would have reported has to be known. The searchers go
  over the input a vector at a time and load it without a bounds check.
- *Two contexts.* A regex may accept at the end of the input and not in the middle, or
  the other way round, so that the last byte is a special case in every loop.
- *Rewriting.* Some hundred rewrite rules fire while a term is built, each of them
  guarded by what was memoised about its operands (lengths, nullability).
- *Shared representations.* A set of null states is held as runs, as an extendable list
  or as a shift of another set, and materialised when it is first read.
- *Out-of-order starts.* Lookaheads make the reverse scan report starts out of order,
  as positions and as ranges.
- *Queries inside queries.* The constructors ask whether a node is empty in order to
  simplify; the answer is searched for with derivatives, which constructors build. The
  verdicts are cached, and a search may be given up half way.
- *Threads.* A Regex is shared through one mutex, but `captures_all` takes it many
  times per call, the buffers are left as the last call left them, and a panic poisons it.
- *Limits.* State capacity, `SET_CAP`, `LIVE_CAP`, 8-bit skip ids and minterm indices,
  limits on repetition and on the size of an expanded pattern.

`PROJECT.json` lists these one by one under `hazards`, each at its line.

## The modules

State machines:

| module | models | state and actions |
|---|---|---|
| `StartSet` | what StartPositions promises | a set of positions; `Clear`, `Add`, `AddRange` |
| `StartPositions` | `StartPositions` in `nulls.rs` | the vector of runs; each action is one call with `insert_general` in it; implements `StartSet` under `Denoted` |
| `Ldfa` | `ldfa.rs`, `register_state` | the tables as sequences; one action per constructor phase, per call, and per cell of a row being filled, so that the capacity can be met between two cells |
| `RegexShared` | the mutex in `lib.rs`, `ismatch.rs`, `fwd.rs`, and `captures_all` | the scratch buffers, scope and cache of RegexInner, and a program counter per thread; one action per critical section or per step in it, and `Fails` (an error or a panic) at each of them |
| `Emptiness` | `is_empty_lang` | `cache_empty`, and the worklist and visited nodes of every search under way, one inside the other; one action per derivative taken, per node looked up, and `Fails` at each of them |
| `FwdScan` | the forward scans | the cells present in the table, the position, state and `max_end` of the scan; one action per byte, jump or miss |
| `LinearScan` | `linear.rs` | the interned sets, actions, live sets and memo, and the locals of `scan_fwd_linear`; one action per byte of each of the three passes |
| `NullSets` | `NullsBuilder` in `nulls.rs` | the store: sets in their forms, interned runs, memo tables; one action per operation |
| `Bdfa` | `bdfa.rs`, with the prefixes of `prefix.rs` it asks for | the partition and the prefix being computed, the chains registered, the table, and the locals of the scan; one action per set cut, per set of a prefix, and per byte, prefix jump or miss |
| `Search` | the loops of `simd/mod.rs`, `simd/neon.rs`, `accel.rs` | the searcher, the position of its loop, what it returned, what the last step has read; one action per turn of a loop |

Algorithms, as operators, and the modules that check them against a reference:

| module | models | reference |
|---|---|---|
| `Terms` | the nodes, their lengths and nullability | `TermMeaning` |
| `Rewrites` | `mk_concat`, `mk_union`, `mk_inter`, `mk_compl`, `mk_star`, `mk_repeat` with their rules | `TermMeaning` |
| `Derivatives` | transition regexes, derivatives, reversal | `TermMeaning` |
| `TermMeaning` | no code: which spans of a word a term matches, by the definition of each operator | |
| `SpanSets`, `Spans` | no code: sets of spans of a word | |
| `Algebra` | builds terms with the constructors, one per step, and states what they should mean | `TermMeaning` |
| `Parser` | `parse_ast_with`: the loop with its group stack, flags, repetition, classes | `PatternGrammar` |
| `WordBoundary` | the rewriting of `\b` by what stands beside it | `PatternMeaning` |
| `Translate` | from the tree to a term, with flags; the capture skeleton | `PatternMeaning` |
| `PatternGrammar` | no code: the grammar of docs/syntax.md, as the text that a tree stands for and the shape precedence asks of it; which patterns are well formed; what the parser promises (`ParsesAsGrammar`, `RejectsExactly`) | |
| `PatternMeaning` | no code: what a tree matches | |
| `Minterms` | the partition of the bytes and its lookup table | `Bdfa` states it |
| `BoundedTerms` | which terms the engine makes a bounded DFA of, and what the algebra answers it | `TermMeaning` |
| `Searchers` | what a row of byte sets becomes: tables, offsets, the choice of a searcher | `Search` states it |
| `Matching` | no code: runs of a complete automaton, the ends they report, leftmost-longest | |

`SampleAutomata` and the `MC*` modules hold the instances TLC is given.
`FindAllProofs` (start positions and the bounded DFA), `BuilderProofs` (emptiness and nullability
sets), `LdfaProofs`, `RegexSharedProofs`, `MatchingProofs`, `FwdScanProofs`, `LinearScanProofs` and
`SearchProofs` hold the proofs.

`FwdScan` and `LinearScan` extend `Matching`; `Bdfa` extends `Minterms`, `Search` extends
`Searchers`; `Algebra` and `Translate` use the constructors of `Rewrites`.
What `Ldfa` shows of the tables is
what `FwdScan` takes for granted of them: a present entry is the derivative, a state
number keeps its meaning, a row may stay half filled after an error, and a searcher
of a state stops at the first byte that leaves it (as long as skip ids do not wrap).
What `Search` shows of searchers is what `FwdScan` and `Bdfa` take for granted of a jump,
`SearchProofs` for rows and haystacks of any length.
`StartPositions` shows what `FwdScan` and `LinearScan` take for granted of the starts:
a set, each of whose members is visited once, in ascending order. `RegexShared` shows
what all of them take for granted about threads: a scan runs alone. What `Derivatives`
and `Emptiness` show of nodes is what `Ldfa` takes for granted of the algebra.

Definitions named "as a bug would have it" or "a mutant" are not used by any specification;
they are there to show that a property notices a slip in the definition that follows them.

### Abstractions

- `Ldfa`: the algebra is a record of what the automaton asks of it: derivatives,
  pruned forms, nullability at CENTER and END, and which classes a searcher can look
  for. Classes of bytes stand for bytes. Allocation sizes are kept where a read depends
  on them (`Grown`), not their exact values.
- `FwdScan`, `LinearScan`: an automaton is a record of complete tables, `rel` of a state is
  the smallest one of its effects, which is what `fwd_update`, `collect_max` and `best_rel`
  pick from the sorted list. A row cannot be
  filled when the capacity is met; the models let this happen at any missing cell.
- `StartPositions`: positions are numbers; iterators are what they yield.
- `LinearScan`: sets, actions and live sets are their contents instead of the index of
  the interned copy. `Starts` is the set the cursor of the same name runs over; the
  cursor only drops runs that end at or before the position asked for, and the position
  asked for never decreases.
- `Emptiness`: a node is what the search sees of it: the leaves of its derivatives at the
  beginning and in the middle, whether it accepts, whether an intersection is inside, and
  what it becomes when its lookarounds are eliminated. The worklist, a queue in the code,
  is a set, so that nodes are taken in any order. A query nested in the elimination of
  lookarounds is one asked just before. The budgets are a failure at any step.
- `RegexShared`: the matches of an input are the positions they start at; the scans
  are one step per match.
- `NullSets`: ids start at 1, and the list cells that ids share in an arena are values.
  Two shifts that would wrap a u32 are excluded as the callers exclude them (`MayShift`,
  `MayShiftBy`): only sets without a tag and without an endless run are shifted.
- `Terms`, `Rewrites`, `Derivatives`: classes of bytes stand for byte sets; the fragment has no
  lookarounds, tags or ordered unions. Terms are values, as hash-consing makes them.
- `Parser`, `Translate`: a pattern is a sequence of tokens of a small alphabet; positions
  and texts of errors are left out, the limits are constants.
- `Bdfa`: the algebra is a record of what the DFA asks of it: derivatives, nullability, the sets of the
  pattern, which node is found to match only where another has matched. `BoundedTerms` makes these
  records of terms with the constructors of `Rewrites`. A chain is the set of its candidates, no two of which
  began at the same place. Which bytes are rare enough to be searched for is any choice (`rare`); a search
  for a prefix finds its first place, which `Search` shows.
- `Searchers`, `Search`: a byte is a number below a small bound and has two nibbles of base
  `NibbleBase`; `Lanes` stands for 32 (AVX2) and 16 (NEON). A byte read outside the
  haystack is 0; `ReadsInside` says that there is none. The literal search is the only
  loop that differs between AVX2 and NEON. A reverse search is not asked on an empty haystack,
  which the engine answers before it searches.

## What is checked

| run | question | instance |
|---|---|---|
| `start_positions` | do the runs stay descending and disjoint, are they a set from which no position is lost, invented or repeated | 5 positions, every sequence of calls |
| `ldfa` | are reads in bounds, entries right, answers given as promised, capacity kept, searchers sound, numbers stable | 4 nodes besides the empty one, 2 classes, capacities 3, 4 and 6, `SkipMod` 3 |
| `regex_shared` | does each call get the answer for its own input, and return | 2 threads, 2 addresses, positions up to 2, 2 calls; both kinds of path |
| `forward_scan` | do the scans return, and are they exact on any cache | 64 automata of 3 states or with lookaheads, inputs of 1 to 3 bytes, any sequence of calls |
| `linear_scan` | is the live set exact, does a walk follow its own start, are the matches leftmost-longest and does a call return, also after another call and after capacity errors | a choice of automata, inputs of 1 to 3 bytes and one of 4, two calls, ample and scarce capacities |
| `emptiness` | are the verdicts true, and does each query return, also with queries inside queries that fail | 3 nodes besides the empty one: every graph of derivatives in which the first leads on and the last at most to itself, and some with unions, lookarounds, an anchor; depth 2, two queries |
| `null_sets` | does each operation return what it should in every form of its operands, and no id change its meaning | rels up to 3, one tag, two masks, 8 sets, 2 memoised results |
| `patterns` | does the parser build the tree of the grammar and reject the rest, does the term mean what the tree means, and the skeleton the same | about 51,000 patterns in families by syntax; every word of up to two of four bytes and of three of two bytes; nesting 4, repetition 5, 40 expanded nodes, 10 members of a list |
| `flags_in_scope` | violation: a second flag group drops the flags of the first | patterns with two flag groups |
| `algebra` | does a term match what it was asked to match, are its lengths and nullability so, its derivatives its rests, its reverse its mirror image | about 15,000 terms, 3 classes, words of up to 3, weight 6 |
| `bdfa` | does the scan return the leftmost-longest matches and always advance, are the classes of bytes exact | 15 patterns over 3 bytes with and without a prefix, two calls on inputs of up to 6 bytes, `IndexLimit` 3, prefixes of at most 3 sets, frontiers of at most 4 nodes, `Spare` 1 |
| `search` | is no match passed over, is only a match returned, are all found, does no vector reach outside | 28 rows of byte sets, one or more for every searcher; words over the bytes that matter up to several vectors; `Lanes` 2, words of 2 bytes |

Why these bounds are enough:

- *StartPositions*. Five positions hold three runs with gaps, the least for an
  insertion that touches runs on both sides while another stays apart.
- *Ldfa*. Capacity 3 is met in the middle of a row, 4 in the constructor or in a row,
  6 never. Four nodes suffice for a row that registers two states and one that merges
  with a registered one. `SkipMod` 3 leaves room for the dead state's searcher and one
  more; the limit is reached and passed, and `SkipSoundBelowLimit` asks only for what holds below it.
- *RegexShared*. Two calls and two threads: one that fails and leaves its buffers, one that
  follows or overtakes it. Two positions: a match already parsed and one still to be.
- *FwdScan*. Three states are the dead one, the initial one and one more, which is
  enough for a loop at which a searcher sits, a way into it and a way out; the four-state automata
  add lookaheads and an initial state that differs from `pruned`. Three bytes: one
  before, one in and one after a jump. The number of calls on one cache is not bounded.
- *LinearScan*. Two live states are enough for slots to shift; `b(a*b)+` makes the same
  action see two live sets. Four bytes hold two segments and a gap; one call after
  another is what a memo of the first could spoil.
- *Emptiness*. Three nodes: the one asked about, one on the way, one that accepts or loops;
  a graph of them has chains, loops through the asked node, and a diamond. Two queries are
  one inside the other or one after it, the least for a verdict to be used by another search.
- *NullSets*. Rels up to 3 leave room for two runs with a gap and a tail. Eight sets are the
  five built in and three more: one extended, one shifted, one made of both.
- *Patterns*. Each family holds every pattern over its tokens up to its length, so that an
  operator meets every other one, and each limit is met and passed. Words of three bytes
  have a first, a middle and a last one, which word boundaries and anchors tell apart.
- *Algebra*. Three leaves are what the longest left side of a rewrite rule looks at; the two
  larger terms are for the rules that look deeper.
- *Bdfa*. Room for one match at a time sends the scan out of its inner loop between any two
  matches. Two calls share the table, of which the first fills a part. The patterns have alternatives
  that begin inside one another, so that candidates are dropped, outlive one another and are
  pending at the end; inputs of six bytes hold a long candidate that fails and the short matches
  inside it. Three bytes are as many classes as `IndexLimit` allows.
- *Search*. With two lanes, words of a few vectors reach the loop over pairs, the loop over
  single vectors and the rest, with a match across each seam. `FewBytes` 2 stands for 16, the
  bytes a large set has to leave out to get a searcher, and `SKIP_FREQ_THRESHOLD` 20 for the limit on the
  frequency of its ranges.

Fairness. `FwdScan` and `LinearScan` are sequential: WF of their next step says that
the thread runs. `Emptiness` has WF of the search alone: it need not fail, and nested
queries are asked by the derivatives of particular regexes, which end; `MaxAsks` bounds them.
In `RegexShared` each thread has WF of its own step, which is what the
operating system gives; the mutex is not assumed to be fair, and waiting ends because
only finitely many calls are made. Callers are under no fairness: calls need not be made.
`NullSets`, `Algebra`, `Bdfa`, `Search` and the patterns have no fairness: their operations are
loops over data that end by their bounds, and `ScanAdvances` says of the one loop whose
position could stand still that it does not. Deadlock is not checked where the number of calls is bounded,
an automaton that failed to build stays so, or a term or pattern has reached its full size.

### Where the code and its documents differ

`flags_in_scope` shows that a flag group starts from the defaults, so that `(?i)(?s)a` is
matched case-sensitively, where docs/syntax.md:205 says that flags apply until the end of
the enclosing group.

Other differences met while reading and modelling; the models do what the code does and no
property is stated about them:

- Parser. Flags set inside a lookaround or `~(...)` leak out of it. `a{0,}` is missing from the
  lists of nullable operands of `word_char_kind` and `edge_class_ast`, so `a{0,}\b` is wrong.
  `is_word_byte(l.c as u8)` and the like truncate code points above U+00FF. The merge of a word
  boundary with a following lookahead translates the body at the wrong lookaround depth, and
  may translate a following flag group early; the skeleton of a repeated complement or
  lookaround translates its body twice, the second time with the flags the first one left.
- Algebra. The rule for a star or complement beside an anchor asks whether an operand is nullable
  everywhere, not on the empty input, so that `()|~(\A\z)` becomes `~(\A\z)`; `MeaningKept` leaves
  out the empty word there. Some rules can never fire (`~(_*\z_*)`, one in `post_init`).
- Lazy DFA. The 256th searcher gets skip id 0, which stands for none, and the 257th the id of
  the first, whose bytes its state then skips by (`ldfa.rs:767`), where README.md:31 of the
  repository promises "fail-loud behavior: capacity / lookahead overflow returns `Err`".
  `SkipSoundBelowLimit` is about the automata below that limit.
  `SeqOffset` searches are never built: `try_build_offset_skip` passes over every branch
  out of a state that does not cover the self loop (`ldfa.rs:636`), which is not empty there and which no
  branch out of the state meets. They and the search for them are not modelled.
- Forward scan. On a warm cache `scan_fwd_verify` may return a match that is too short where
  a state accepts at CENTER and not at END: when a searcher finds no exit only the effects at END are
  recorded, at the end of the input (`scan.rs:450`), while the loop over bytes would have recorded
  the last one at CENTER first (`scan.rs:626`). `FromExactAlike` is about the others.
- Shared Regex. `captures_all` may fail with "capture extraction outside a declared input scope" when
  another thread's call comes between its locks (`lib.rs:1942`). The forward-prefix path takes the
  mutex with `lock().unwrap()` (`fwd.rs:212`) and panics once it is poisoned, where `is_match` and the
  two-pass path recover; tests/engine_test.rs:4146 of the engine, which tries `is_match` only, says
  that a "Regex must survive a caught panic". The model has that panic as an outcome of a call, and
  no property forbids it.
- Emptiness. `is_full_lang` says `Some(false)` of some regexes that accept everything, such as `(__)*_?`,
  since the flags of a complement never say that it holds an intersection (`lib.rs:6558`).
- Bounded DFA. `register` numbers its states as `u16` without a check; the variant for is_match and
  a branch for a prefix in `bdfa_inner` are never taken. `minterms.rs:92` increments a `u8` after
  the last of 256 minterms.
- Nullability sets. `single_run_view` drops the tag of a shifted set, and a shift of an endless
  run overflows; callers do neither.

## What is proved

TLAPS checks the following for every value of the constants that meets the assumptions
stated in the modules, so for inputs, automata, capacities, numbers of threads and of calls of any size.

- `RunsDescending` (`FindAllProofs`): the runs are non-empty, disjoint, not even adjacent, and descending.
  The property is inductive as it stands. The argument is one lemma per way of adding a
  position: prepend, extend a neighbour, join two, insert (`AddPosCorrect`,
  `AddRangeCorrect`), over `InsertIndexProperties`, which says what the binary search finds.
- `StartSetImplemented`: with `Denoted`, the union of the runs, as refinement mapping,
  each call maps to the call of `StartSet` of the same name.
- `Typed`, `ReadsInBounds`, `AutomatonCoherent`, `CallsAnswered`, `Bounded`, `SkippersFit`,
  `OnlyGrows`: the safety properties of the run `ldfa`, for every algebra, capacity and
  number of classes. They rest on one invariant, `IInv` in `LdfaProofs`. None of the properties is
  inductive: that entries are right needs that the index is the inverse of the nodes
  (`Numbering`); that reads are in bounds needs how far the tables have grown at each
  phase (`Sized`, `CallOK`); that an answer is complete needs that the cells before the
  loop variable are filled (`CallOK`); the bound on the states needs how many unchecked
  registrations are still to come (`CapOK`). Each action has a lemma that it keeps
  `IInv`; the actions that register a node share `RegisterCorrect`, the ones that
  attach a searcher share `IdCorrect`.
- `SharedTypeOK`, `SharedOwnMatches`, `SharedOwnCaptures`: each call answers for its own
  input, for any number of threads, addresses, positions and calls. The properties are
  about the step in which a call returns, so they need an invariant of the steps before
  it (`IInv` in `RegexSharedProofs`): the scratch buffers say what the holder's pass has
  reached of the holder's input and nothing when nobody holds the mutex, so what a failed
  call left does not matter (`Scratch`); a `captures_all` between two locks has the
  matches it still has to parse, and those parsed, of its own input (`Parsed`); and the
  cache is about the bytes at the declared address as long as a call borrows them
  (`Cached`). One lemma per action says that its thread keeps its part; `UntouchedOwn`
  and `CacheKept` say that the others keep theirs.
- `EmptinessTypeOK`, `EmptinessEmptySound`, `EmptinessNonemptySound`: `is_empty_lang` says
  "empty" of empty nodes only, for every algebra of any size that is `WellFormed`, however
  deep queries nest and wherever they fail. A node is empty when some set of nodes that do
  not accept holds it and is closed under derivatives; `ClosedEmpty` says that what an
  exhausted search has visited, with what the cache vouched for, is such a set. The
  invariant (`IInv` in `BuilderProofs`) says of every search under way that what it
  visited and took is closed but for its worklist (`Explored`), and that the cache is right;
  an inner search changes the cache only by true verdicts, so the outer ones keep theirs.
  "nonempty" is true where the search's two assumptions hold (`Plain`), by the
  invariant that whatever was visited is a derivative of the node asked about (`Leads`).
  `WellFormed` is what the theorems assume of the constructors: nothing is accepted after
  the empty node, a union accepts what its members do, and elimination of lookarounds
  keeps emptiness.
- `RunsComputeMeaning`, `StoreStaysGood`, `SetsStayWellFormed`, `ResultsStayExact`, `IdsStayMeaning`
  (`BuilderProofs`): the three properties of the run `null_sets`, for every `MaxRel`, set of tags, masks
  and runs asked for, and however many sets are interned. `RunsComputeMeaning` is about lists of runs:
  on lists whose runs are maximal, apart and sorted (`Normal`), union, intersection, mask,
  complement and shifts return such a list that means what it should. None of the three
  properties is inductive: that a result is exact
  needs that the operands are normal in whatever form they are held, and that what the memo tables say is
  true. `StoreOK` says both, and what the cheap forms rest on: a list is a chain
  from its head on with the bounds it names, a shift is of a set that is not one and stays
  below `MaxRel`, so that adding the offset does not wrap, and no set but `EMPTY` is empty. The
  proof has four parts.
  - *Runs.* A sorted sequence is its set, each member at its rank (`RanksAll`, `SortOfSet`). Coalescing is
    followed run by run: what was pushed so far is normal and shows exactly what came in (`PushKeeps`,
    `CoalesceLined`). A sweep cuts at every bound, so that on a stretch each run is everywhere or
    nowhere (`StretchesAre`, `StretchFold`), and coalescing the stretches gives the union or the
    intersection of one tag (`OrTagKeeps`, `AndTagKeeps`); the tags are put together in
    `OrRunsMean` and `AndRunsMean`.
  - *Lists.* An extension at the head keeps a chain and adds one run (`InsertAsc`, `InsertDesc`), so that
    a list built from runs, from either end, shows those runs (`ListOfKeeps`).
  - *The store.* `Grew` says that a step leaves the runs of every id it had as they were;
    materialising a shift, its root or a list does (`MaterialisedKeeps`), and so does
    interning (`AddKeeps`).
  - *Operations.* `Yields` says that the store has grown and the id returned means what it should, one lemma
    for each operation (`OrIdYields`, `AndIdYields`, `AndMaskYields`, `NotIdYields`, `AddRelYields`,
    `UnionShiftedYields`), for any two ids of any good store: the bounds of the run on what may
    be combined with what are not used.

  `NullSetsAssumption` says that tags lie below `NoTag` and that runs asked for are not empty. A shift
  is asked for only where it stays below `MaxRel` (`MayShift`, `MayShiftBy`), as the callers do.
- `ScanInvHolds`, `OptionalExactHolds`, `FromExactAlikeHolds`, `AllExactHolds` (`FwdScanProofs`): the
  forward scans are exact for every automaton, input, filling of the cache and sequence
  of calls. `BestSoFar` is not inductive: after a miss it allows the end at the position
  to be counted or not, and what follows depends on which. `IInv` says for each place of
  the loops which of the two it is, where the position stands, what the match found so
  far is worth (`Place`), and of `scan_fwd_all` that the matches pushed are the
  leftmost-longest ones as far as they go and which starts are still to come. A jump is
  the hard step: a searcher stops at the first byte that leaves the state, so that on the
  bytes before it the run loops (`RunLoops`) and reports what the state reports, of which
  the last one is the largest (`LongestLoop`).
- `LinearScanInvHolds`, `LinearExactHolds` (`LinearScanProofs`): what is live is exact, slots lead
  along the run of the start they were given to, and the matches are the leftmost-longest ones, for
  every automaton, input, capacity and sequence of calls, with any failure on the way. `IInv` has
  five parts besides types. What is interned is what would be computed again (`Interned`), so that it
  makes no difference which call, segment or start it was interned for; this is what a
  memo that is believed for the wrong live set would break. The sets of a
  segment lead from each position to the next (`Chain`), and a segment that ends before the input
  does ends with no state (`Turned`). What is live is exact from the position on that the second pass has
  gone back to (`LiveFrom`), by `BackExact`: a state has an end ahead if it reports one or if
  the state after it has one ahead. A walk has the longest end of its run up to its position and the slot
  of the run's state (`WalkAt`); when it stops, either the run is dead or its state has
  no end ahead, so that the longest so far is the longest (`WalkEnds`). No start that is
  not before the end of the last match was passed over (`Visits`).
  That a slot is the slot of exactly one state follows by counting (`SlotsOfStates`,
  `StatesOfSlots`): the slots grow with the states, so they are as many.
- `BdfaStaysOK`, `ScanStaysExact`, `ClassesStayExact`, `ScanKeepsAdvancing` (`FindAllProofs`): the three
  properties of the run `bdfa`, for every regex that is `WellFormed`, set of bytes, sequence of
  calls, length of the prefix and of the frontier, choice of rare bytes and room for matches.
  `ScanExact` says nothing while a scan is under way; `BdfaOK` says what each part of the state has to
  mean for it, and is inductive.
  - *Classes* (`CutOK`). The cells tell bytes apart exactly as the sets taken so far do, in whatever order they
    come (`CellsOK`), so that the minterms number classes whose bytes have the same derivatives.
  - *Chains* (`ChainOK`). A state is right for every place of every input at which it may be entered: there is
    a candidate for each start from the last match on that can still matter, and each tells the longest match found from
    its start (`Tracks`). A start without a candidate has no match any more (`Hopeless`), or is
    under the match of an earlier candidate, or can match only where an earlier one has matched first
    (`Shadows`). That is what makes dropping candidates sound, and that a drop stays right as the
    input goes on is the hard step (`RebuildOK`): a candidate dropped for one that is dropped itself
    later, or that fails, must still be accounted for.
  - *The table* (`TablesOK`). Each entry is the transition of the state's chain, whichever call made it
    (`DfaOK`); entering a state twice gives the same number.
  - *The prefix* (`SearchesOK`, `PrefixOK`). The sets found so far are those of the bytes after which a match can go on, so that every match
    begins with the prefix, and the bytes passed over by a search begin no match. A literal prefix leads from
    the initial state to the state `after`, by the classes of its bytes; while another prefix is walked through,
    no candidate is older than the walk, so that none is finished when it ends (`WalksOK`).
  - *The scan* (`ScansOK`, `EndsOK`). The matches reported are the leftmost-longest ones up to the last end, and the
    chain of the state stands for the starts after it. At the end of the input, what is pending is taken from left to
    right; the matches of the empty word fill exactly the places between (`Fills`).

  Each action has a lemma that it keeps `BdfaOK` and, for an action of the scan, comes `Nearer` to its
  end. `WellFormed` is what the theorems assume of the algebra: nothing matches after the
  empty node, bytes that no set tells apart have the same derivatives, a node that is found to be
  covered by another is so in a relation that derivatives keep, and what is left to match gets shorter.
- `NothingSkippedHolds`, `FoundThereHolds`, `AllFoundHolds`, `ReadsInsideHolds` (`SearchProofs`): every
  searcher returns the first match (a backward one the last), a search for all collects
  the leftmost matches that do not overlap, and no read leaves the haystack, for every row of byte sets,
  haystack, number of lanes, length of a word, set of thresholds and byte frequencies.
  None of the four is inductive: while a loop runs, nothing has been returned and nothing
  is promised. `IInv` adds what the loop knows. `SearcherRuns` says which searcher runs,
  over what part of which haystack; `Hits` are the places where it should stop; `LoopAt`
  says where the loop stands and that no hit lies behind it, and with `ReadsInside` that the next vector
  fits; `Answer` what it may return; `Greedy` and `CollectAt` what a search for all has collected.
  The proof has three parts.
  - *A searcher verifies its row, no more and no less.* `LiteralSearches` and `RevLiteralSearches`
    (comparing words, the last of which overlaps, is comparing bytes: `ChunksEqual`),
    `TeddySearches` (every place has its turn in the order of frequency, even with
    equal frequencies: `FreqOrderCovers`), `RangeSearches` and `SetSearches` (ranges cover exactly their set: `RangesCover`),
    `RevTeddySearches`. A filter may let anything through but stops no match.
  - *A turn of a loop keeps the invariant*, a lemma for each action (`CallRowKeeps`, `TeddyPairKeeps`,
    ...). A vector finds the hits among its lanes (`SetLanesFind`, `TeddyCandsFind`, ...), it fits
    (`SimdRoom`), and the rest takes what no vector does. Candidates come as masks; that collecting them in
    order gives the leftmost ones is `CollectedGreedy`.
  - *What the loop found is what was asked for.* `HitsAre` translates hits back to the request,
    `FinishFinds` and `FinishFindsAll` conclude.

  Folds over finite sets (sums and products of frequencies, collected masks) are
  not taken apart by a rule of induction, which the prover does not have, but by the
  first number of members at which a claim would fail (`FoldExists`, `FoldInduction`,
  `FirstNatural`). `SearchConstants` and `SearchRequests` are assumed: bytes are `0 .. last`, lanes, words
  and frequencies are positive, a row is not empty and has one set, neither empty nor full, when a single set is searched for.

`MatchingProofs` holds the lemmas both scans need: a run exists and is unique
(`RunExists`, `RunUnique`), its ends lie in the input, the longest one exists
(`LongestExists`) and grows by one position at a time (`LongestStep`), a dead state reports
nothing more (`LongestDead`). Where an induction along the input is needed it takes the
first position at which the claim fails (`FirstPosition`).

Both scan modules assume of an automaton that it is `WellFormed` and that no match ends before it
starts (`EndsFollowStarts`): `rel` counts the bytes of lookahead read since the match ended, so it
is never more than the bytes read since it started. TLC evaluates the assumption for every
automaton and input of the runs. Without it a match could end before its start and the
next one be looked for behind it.

Only model-checked, and why:

- Liveness (`CallsReturn` of three modules, `QueriesReturn`): it needs fairness and ENABLED, which are
  out of the reach of the prover.
- Everything about `Terms`, `Rewrites`, `Derivatives`, `Algebra`, `Parser`, `Translate`,
  `PatternGrammar`, `PatternMeaning` and `BoundedTerms`: trees are taken apart by recursive
  operators, for which no prover has a rule of induction. That terms answer the bounded DFA as
  `WellFormed` says is what TLC checks for the patterns of the run `bdfa`.

## What is not modelled

- *Reverse scan.* Its starts are `StartPositions`, its table `Ldfa`, its searchers `Search`; the loop of
  `collect_rev` with pending ranges is not modelled, and `FwdScan` and `LinearScan` are given the starts it should report.
- *Dispatch and construction.* Which path `find_all` takes is a function of flags fixed at construction; each path is modelled by
  itself where it is.
- *Forward prefix.* The loop of `find_all_fwd_prefix` around `scan_fwd_from`.
- *Lookarounds, tags and ordered unions in the algebra*, pruning, subsumption, `is_equiv` with its union-find.
- *Captures.* The parse of a match into groups and its tie breaks; only the caches between calls are modelled.
- *Stream, Regex set, dump and load.* Behind features that are off by default.
- *Prefix rows.* How the rows of byte sets that `Searchers` is given are computed, but for the bounded DFA's: `Bdfa` models
  `calc_prefix_sets_inner` and `calc_potential_start` from its start; the others strip and prune the start first.
- *wasm.rs* (a third copy of the searchers' loops), the byte frequencies, the Unicode tables and the FFI: data, or code without a protocol.

`PROJECT.json` says for each component what is left out.
