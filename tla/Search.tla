-------------------------------- MODULE Search --------------------------------
(***************************************************************************)
(* The vector searchers at work (resharp-engine/src/simd/mod.rs, neon.rs,  *)
(* accel.rs): a search is asked for, its searcher is built, and its loop   *)
(* goes over the haystack, one step of the model for one turn of the loop: *)
(* two vectors, one vector, or the rest that fills no vector.  A vector is *)
(* loaded without a bounds check.                                          *)
(***************************************************************************)
EXTENDS Searchers

CONSTANT Requests   \* families of searches asked for: how, for which sets, in which haystacks, from where

ASSUME SearchRequests ==
    \A q \in Requests :
        /\ q.ops \subseteq {"strict", "all", "fwd", "rev", "setfwd", "setrev"}
        /\ q.sets \in Seq(SUBSET Bytes) /\ q.sets # <<>>
        /\ q.ops \cap {"setfwd", "setrev"} # {} => Len(q.sets) = 1 /\ q.sets[1] \notin {{}, Bytes}
        /\ q.skips \subseteq Nat /\ \A h \in q.hays : h \in Seq(Bytes)

VARIABLES
    ask,       \* the request
    s,         \* the searcher whose loop runs
    run,       \* its haystack, where it starts, and what is added to what it finds
    pc,        \* "build", "call", "chunks", "tail", "returned", "done"
    pos,       \* the position of the loop
    found,     \* what the loop returned
    result,    \* what the whole search returned
    matches,   \* the matches that a search for all has collected
    reads      \* the positions of run.hay that the last step has read

vars == <<ask, s, run, pc, pos, found, result, matches, reads>>

Reverse == {"rev", "setrev"}
Frame(h, f, b) == [hay |-> h, from |-> f, base |-> b]

Init ==
    /\ \E q \in Requests : \E op \in q.ops, arch \in q.archs, h \in q.hays, skip \in q.skips :
          \* these search the whole haystack
          /\ skip <= Len(h) /\ (op \in {"all", "setfwd", "setrev"} => skip = 0)
          /\ ask = [op |-> op, arch |-> arch, sets |-> q.sets, common |-> q.common, hay |-> h,
                    from |-> IF op \in Reverse THEN Len(h) - skip ELSE skip]
          /\ op = "rev" => h # <<>>      \* the engine answers for an empty input itself
    /\ s = NoSearcher /\ run = Frame(<<>>, 0, 0) /\ pc = "build" /\ pos = 0
    /\ found = None /\ result = None /\ matches = <<>> /\ reads = {}

\* FwdPrefixSearch::find_fwd: a literal gets the rest of the haystack
Called(lit) ==
    IF lit.k = "literal" THEN Frame(SubSeq(ask.hay, ask.from + 1, Len(ask.hay)), 0, ask.from)
    ELSE Frame(ask.hay, ask.from, 0)
Build(searcher) ==
    /\ s' = searcher /\ run' = Called(searcher)
    /\ pc' = IF searcher = NoSearcher THEN "unsearched" ELSE "call"
    /\ UNCHANGED <<ask, pos, found, result, matches, reads>>

BuildStrict == pc = "build" /\ ask.op \in {"strict", "all"} /\ Build(StrictLiteral(ask.sets))
BuildFwd == pc = "build" /\ ask.op = "fwd" /\ Build(FwdSearch(ask.sets, ask.common))
BuildRev == pc = "build" /\ ask.op = "rev" /\ Build(RevPrefixSearch(ask.sets))
BuildSet == pc = "build" /\ ask.op \in {"setfwd", "setrev"} /\ Build(SetSearch(ask.sets[1]))

(***************************************************************************)
(* A step of a loop.                                                       *)
(***************************************************************************)
Span(p, n) == p .. p + n - 1
Return(p) ==
    /\ found' = (IF p = None THEN None ELSE p + s.tail + run.base)
    /\ pc' = "returned" /\ pos' = pos
Go(to, p) == pc' = to /\ pos' = p /\ found' = found
Loops == UNCHANGED <<ask, s, run, result>>
Collects == ask.op = "all"

\* from here on the loop goes forward or backward over candidates
FirstOr(hits, to, p) == IF hits = {} THEN Go(to, p) ELSE Return(Least(hits))
LastOr(hits, to, p) == IF hits = {} THEN Go(to, p) ELSE Return(Greatest(hits))
Last(hits) == IF hits = {} THEN None ELSE Greatest(hits)
First(hits) == IF hits = {} THEN None ELSE Least(hits)

Is(kinds) == s.k \in kinds
Hay == run.hay
N == Len(run.hay)

(***************************************************************************)
(* RevSearchBytes and RevSearchRanges: whole vectors, and a buffer of      *)
(* zeros for the rest.                                                     *)
(***************************************************************************)
SetIs(op) == Is({"bytes", "ranges"}) /\ (ask.op = "setfwd") = (op = "fwd")
SetLanes(h, p) == {i \in 0 .. Lanes - 1 : SetHit(s, At(h, p + i))}
Buffer(h, p, n) == [i \in 1 .. Lanes |-> IF i <= n THEN At(h, p + i - 1) ELSE 0]
SetRest(h, p, n) == {p + i : i \in SetLanes(Buffer(h, p, n), 0) \cap 0 .. n - 1}

CallSetFwd == pc = "call" /\ SetIs("fwd") /\ Go("chunks", 0) /\ reads' = {} /\ Loops /\ UNCHANGED matches
SetFwdChunk ==
    /\ pc = "chunks" /\ SetIs("fwd") /\ pos + Lanes <= N
    /\ FirstOr({pos + i : i \in SetLanes(Hay, pos)}, "chunks", pos + Lanes)
    /\ reads' = Span(pos, Lanes) /\ Loops /\ UNCHANGED matches
SetFwdTail ==
    /\ pc = "chunks" /\ SetIs("fwd") /\ pos + Lanes > N
    /\ Return(First(SetRest(Hay, pos, N - pos)))
    /\ reads' = Span(pos, N - pos) /\ Loops /\ UNCHANGED matches

CallSetRev ==
    /\ pc = "call" /\ SetIs("rev")
    /\ IF N >= Lanes THEN Go("chunks", N - Lanes) ELSE Go("tail", 0)
    /\ reads' = {} /\ Loops /\ UNCHANGED matches
SetRevChunk ==
    /\ pc = "chunks" /\ SetIs("rev")
    /\ LastOr({pos + i : i \in SetLanes(Hay, pos)}, IF pos < Lanes THEN "tail" ELSE "chunks", Less(pos, Lanes))
    /\ reads' = Span(pos, Lanes) /\ Loops /\ UNCHANGED matches
Gap == IF N >= Lanes THEN N % Lanes ELSE N
SetRevTail ==
    /\ pc = "tail" /\ SetIs("rev")
    /\ Return(Last(SetRest(Hay, 0, Gap)))
    /\ reads' = Span(0, Gap) /\ Loops /\ UNCHANGED matches

(***************************************************************************)
(* FwdLiteralSearch: pos is where the rare byte would be.                  *)
(***************************************************************************)
LiteralEnd == N - s.len + s.rare
Starts(lanes) == {pos + i - s.rare : i \in lanes}
CompareReads(starts) == UNION {Span(p, s.len) : p \in starts}
LaneReads(p, w) == Span(p, w) \cup Span(p + s.confirm - s.rare, w)

\* a mutant: matches may overlap
CollectAny(acc, p) == IF Verify(s, Hay, p) THEN Append(acc, <<p, p + s.len>>) ELSE acc
\* one candidate of a search for all: those that begin before the end of the last match are passed over
Collect(acc, p) ==
    IF acc # <<>> /\ p < acc[Len(acc)][2] THEN acc
    ELSE IF Verify(s, Hay, p) THEN Append(acc, <<p, p + s.len>>) ELSE acc
\* the candidates of a step, lowest first
Collected(starts) == SetOps!MapThenFoldSet(LAMBDA p, acc : Collect(acc, p), matches, LAMBDA p : p, Greatest, starts)
\* the closure `handle` for the candidates of a step
Handle(starts, to, p) ==
    IF Collects THEN Go(to, p) /\ matches' = Collected(starts)
    ELSE FirstOr({q \in starts : Verify(s, Hay, q)}, to, p) /\ UNCHANGED matches

CallLiteral ==
    /\ pc = "call" /\ Is({"literal"})
    /\ IF N < s.len THEN Return(None) ELSE Go("chunks", s.rare)
    /\ reads' = {} /\ Loops /\ UNCHANGED matches

Pairs == ask.arch = "neon" /\ pos + 2 * Lanes <= LiteralEnd + 1
\* with NEON two vectors at a time
LiteralPair ==
    /\ pc = "chunks" /\ Is({"literal"}) /\ Pairs
    /\ Handle(Starts(LiteralLanes(s, Hay, pos, 2 * Lanes)), "chunks", pos + 2 * Lanes)
    /\ reads' = LaneReads(pos, 2 * Lanes) \cup CompareReads(Starts(LiteralLanes(s, Hay, pos, 2 * Lanes))) /\ Loops
LiteralChunk ==
    /\ pc = "chunks" /\ Is({"literal"}) /\ ~Pairs /\ pos + Lanes <= LiteralEnd + 1
    /\ Handle(Starts(LiteralLanes(s, Hay, pos, Lanes)), "chunks", pos + Lanes)
    /\ reads' = LaneReads(pos, Lanes) \cup CompareReads(Starts(LiteralLanes(s, Hay, pos, Lanes))) /\ Loops
\* the rest, byte by byte; only NEON looks at the second byte
RareInRest ==
    {p \in pos .. LiteralEnd : /\ At(Hay, p) = s.rareByte
                               /\ ask.arch = "neon" => At(Hay, p + s.confirm - s.rare) = s.confirmByte}
LiteralRest ==
    /\ pc = "chunks" /\ Is({"literal"}) /\ pos + Lanes > LiteralEnd + 1
    /\ Handle({p - s.rare : p \in RareInRest}, "tail", pos)
    /\ reads' = (pos .. LiteralEnd) \cup CompareReads({p - s.rare : p \in RareInRest}) /\ Loops
LiteralDone ==
    /\ pc = "tail" /\ Is({"literal"}) /\ Return(None)
    /\ reads' = {} /\ Loops /\ UNCHANGED matches

(***************************************************************************)
(* FwdPrefixSearch (Teddy) and FwdRangeSearch.                             *)
(***************************************************************************)
\* a mutant: the vectors of the later places of the row are forgotten
SimdEndShort == Less(N, Lanes - 1)
SimdEnd == Less(N, Lanes - 1 + s.len - 1)
Verified(cands) == {p \in cands : VerifyFwd(s, Hay, p)}
RowReads(cands) == UNION {Span(p, s.len) : p \in cands}
TeddyCands(p) == {p + i : i \in FilterFwd(s, Hay, p)}
TeddyReads(p) == (UNION {Span(p + s.offsets[m], Lanes) : m \in DOMAIN s.offsets}) \cup RowReads(TeddyCands(p))

CallRow ==
    /\ pc = "call" /\ Is({"teddy", "range"}) /\ Go("chunks", run.from)
    /\ reads' = {} /\ Loops /\ UNCHANGED matches
TeddyPairs == Len(s.masks) = 3 /\ pos + Lanes < SimdEnd
TeddyPair ==
    /\ pc = "chunks" /\ Is({"teddy"}) /\ TeddyPairs
    /\ FirstOr(Verified(TeddyCands(pos) \cup TeddyCands(pos + Lanes)), "chunks", pos + 2 * Lanes)
    /\ reads' = TeddyReads(pos) \cup TeddyReads(pos + Lanes) /\ Loops /\ UNCHANGED matches
TeddyChunk ==
    /\ pc = "chunks" /\ Is({"teddy"}) /\ ~TeddyPairs /\ pos < SimdEnd
    /\ FirstOr(Verified(TeddyCands(pos)), "chunks", pos + Lanes)
    /\ reads' = TeddyReads(pos) /\ Loops /\ UNCHANGED matches

RangeCands == {pos + i : i \in {j \in 0 .. Lanes - 1 : InRanges(At(Hay, pos + j + s.anchor), s.ranges)}}
RangeChunk ==
    /\ pc = "chunks" /\ Is({"range"}) /\ pos < SimdEnd
    /\ FirstOr(Verified(RangeCands), "chunks", pos + Lanes)
    /\ reads' = Span(pos + s.anchor, Lanes) \cup RowReads(RangeCands) /\ Loops /\ UNCHANGED matches
RowRest ==
    /\ pc = "chunks" /\ Is({"teddy", "range"}) /\ pos >= SimdEnd
    /\ Return(First(Verified(pos .. N - s.len)))
    /\ reads' = RowReads(pos .. N - s.len) /\ Loops /\ UNCHANGED matches

(***************************************************************************)
(* RevTeddySearch::find_rev, for a literal and for Teddy: the place of a   *)
(* match is that of its last byte.                                         *)
(***************************************************************************)
LastByte == Lesser(run.from, Less(N, 1))
RevEnd == LastByte - s.tail
CallTooEarly ==
    /\ pc = "call" /\ Is({"revliteral", "revteddy"}) /\ RevEnd < 0
    /\ Return(None) /\ reads' = {} /\ Loops /\ UNCHANGED matches

CallRevLiteral ==
    /\ pc = "call" /\ Is({"revliteral"}) /\ RevEnd >= 0
    /\ IF RevEnd + 1 < s.len THEN Return(None) ELSE Go("chunks", RevEnd - (s.len - 1) + s.rare)
    /\ reads' = {} /\ Loops /\ UNCHANGED matches
RevBase == pos - (Lanes - 1)
Ends(starts) == {p + s.len - 1 : p \in {q \in starts : Verify(s, Hay, q)}}
RevLiteralStarts == {RevBase + i - s.rare : i \in LiteralLanes(s, Hay, RevBase, Lanes)}
RevLiteralChunk ==
    /\ pc = "chunks" /\ Is({"revliteral"}) /\ pos >= s.rare + Lanes
    /\ LastOr(Ends(RevLiteralStarts), "chunks", pos - Lanes)
    /\ reads' = LaneReads(RevBase, Lanes) \cup CompareReads(RevLiteralStarts) /\ Loops /\ UNCHANGED matches
RevRestStarts == {p - s.rare : p \in {q \in s.rare .. pos : /\ At(Hay, q) = s.rareByte
                                                           /\ At(Hay, q - s.rare + s.confirm) = s.confirmByte}}
RevLiteralRest ==
    /\ pc = "chunks" /\ Is({"revliteral"}) /\ pos < s.rare + Lanes
    /\ Return(Last(Ends(RevRestStarts)))
    /\ reads' = (s.rare .. pos) \cup CompareReads(RevRestStarts) /\ Loops /\ UNCHANGED matches

MinPos == s.len - 1
\* a mutant: the rest begins a vector lower
RestBelow(p) == Lesser(Less(p, Lanes), RevEnd)
\* where the rest begins when the last vector lies at p
RestFrom(p) == Lesser(Less(p, 1), RevEnd)
CallRevTeddy ==
    /\ pc = "call" /\ Is({"revteddy"}) /\ RevEnd >= 0
    /\ IF RevEnd < Lanes - 1 + MinPos THEN Go("tail", RevEnd) ELSE Go("chunks", RevEnd - (Lanes - 1))
    /\ reads' = {} /\ Loops /\ UNCHANGED matches
VerifiedRev(cands) == {p \in cands : VerifyRev(s, Hay, p)}
RevCands(p) == {p + i : i \in FilterRev(s, Hay, p)}
RevRowReads(cands) == UNION {Span(p - MinPos, s.len) : p \in {q \in cands : q >= MinPos}}
RevTeddyReads(p) == (UNION {Span(p - (m - 1), Lanes) : m \in DOMAIN s.masks}) \cup RevRowReads(RevCands(p))
RevPairs == Len(s.masks) = 3 /\ pos >= 2 * Lanes + MinPos
RevTeddyPair ==
    /\ pc = "chunks" /\ Is({"revteddy"}) /\ RevPairs
    /\ LastOr(VerifiedRev(RevCands(pos) \cup RevCands(pos - Lanes)), "chunks", pos - 2 * Lanes)
    /\ reads' = RevTeddyReads(pos) \cup RevTeddyReads(pos - Lanes) /\ Loops /\ UNCHANGED matches
RevTeddyChunk ==
    /\ pc = "chunks" /\ Is({"revteddy"}) /\ ~RevPairs
    /\ IF pos < Lanes + MinPos
       THEN LastOr(VerifiedRev(RevCands(pos)), "tail", RestFrom(pos))
       ELSE LastOr(VerifiedRev(RevCands(pos)), "chunks", pos - Lanes)
    /\ reads' = RevTeddyReads(pos) /\ Loops /\ UNCHANGED matches
RevTeddyTail ==
    /\ pc = "tail" /\ Is({"revteddy"})
    /\ Return(Last(VerifiedRev(MinPos .. pos)))
    /\ reads' = RevRowReads(MinPos .. pos) /\ Loops /\ UNCHANGED matches

Finish ==
    /\ pc = "returned"
    /\ pc' = "done" /\ result' = found /\ reads' = {}
    /\ UNCHANGED <<ask, s, run, pos, found, matches>>

Next ==
    \/ BuildStrict \/ BuildFwd \/ BuildRev \/ BuildSet
    \/ CallSetFwd \/ SetFwdChunk \/ SetFwdTail \/ CallSetRev \/ SetRevChunk \/ SetRevTail
    \/ CallLiteral \/ LiteralPair \/ LiteralChunk \/ LiteralRest \/ LiteralDone
    \/ CallRow \/ TeddyPair \/ TeddyChunk \/ RangeChunk \/ RowRest
    \/ CallTooEarly \/ CallRevLiteral \/ RevLiteralChunk \/ RevLiteralRest
    \/ CallRevTeddy \/ RevTeddyPair \/ RevTeddyChunk \/ RevTeddyTail
    \/ Finish

Spec == Init /\ [][Next]_vars

(***************************************************************************)
(* What a search promises, in the words of its request.                    *)
(***************************************************************************)
Sets == ask.sets
HayLen == Len(ask.hay)
FitsAt(p) == p + Len(Sets) <= HayLen /\ \A i \in Places(Sets) : At(ask.hay, p + i) \in At(Sets, i)
EndsAt(p) == p + 1 >= Len(Sets) /\ p < HayLen /\ \A i \in Places(Sets) : At(ask.hay, p - i) \in At(Sets, i)
Forward == ask.op \in {"strict", "fwd", "setfwd"}
Spots ==
    IF Forward THEN {p \in ask.from .. HayLen : FitsAt(p)}
    ELSE {p \in 0 .. Lesser(ask.from, HayLen - 1) : EndsAt(p)}

\* NothingSkipped: a search never passes over a place where all the sets of its request match.
\* The scans jump to what a search returns and never look at what lies between.
NothingSkipped ==
    (pc = "done" /\ ask.op # "all") =>
        \A p \in Spots : result # None /\ IF Forward THEN result <= p ELSE p <= result

\* FoundThere: what a search returns is a place where the part of the row that it searches for
\* matches: the word of a literal, the three places of a reverse search, else the whole row.
Part == IF s.k = "literal" THEN 1 .. s.len
        ELSE IF ask.op = "rev" THEN s.tail + 1 .. s.tail + s.len ELSE 1 .. Len(Sets)
FoundThere ==
    (pc = "done" /\ result # None) =>
        \/ Forward /\ \A i \in Part : At(ask.hay, result + i - 1) \in Sets[i]
        \/ ask.op \in {"rev", "setrev"} /\ \A i \in Part : At(ask.hay, result - (i - 1)) \in Sets[i]

\* AllFound: a search for all collects the matches that do not overlap, each the next one after the
\* last; its candidates come a vector at a time, and a match may reach over several vectors.
AllFound ==
    (pc = "done" /\ ask.op = "all") =>
        LET from(k) == IF k = 0 THEN 0 ELSE matches[k][2]
            next(p) == {q \in p .. HayLen : FitsAt(q)}
        IN /\ \A k \in DOMAIN matches : /\ matches[k][1] \in next(from(k - 1))
                                        /\ \A q \in next(from(k - 1)) : matches[k][1] <= q
                                        /\ matches[k][2] = matches[k][1] + Len(Sets)
           /\ next(from(Len(matches))) = {}

\* ReadsInside: what a step reads lies in the haystack, the vectors that are loaded from a pointer and
\* the bytes that a candidate is compared with.
ReadsInside == reads \subseteq 0 .. N - 1
=============================================================================
