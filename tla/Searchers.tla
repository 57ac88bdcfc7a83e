------------------------------- MODULE Searchers -------------------------------
(***************************************************************************)
(* What the vector searchers are built from (resharp-engine/src/simd and   *)
(* the choices of prefix.rs): a word or a row of byte sets becomes the     *)
(* tables that a loop over Lanes bytes at a time compares with, and which  *)
(* searcher it becomes depends on how common its bytes are.  Positions     *)
(* count from 0, as in the code.                                           *)
(***************************************************************************)
EXTENDS Integers, Sequences, FiniteSets
SeqOps == INSTANCE SequencesExt
SetOps == INSTANCE FiniteSetsExt

CONSTANTS
    Bytes,            \* 0 .. 255
    HighByte,         \* 0x80, the first byte that is not ASCII
    NibbleBase,       \* 16: a byte is NibbleBase * high nibble + low nibble
    ByteFreq,         \* BYTE_FREQ: how common each byte is, at least 1
    WordBytes,        \* 8, the bytes of a u64
    Lanes,            \* the bytes of a vector: 32 with AVX2, 16 with NEON
    ExactLimit,       \* 3, the bytes of a RevSearchBytes
    RangeLimit,       \* 4, the ranges of a RevSearchRanges
    FewBytes,         \* 16: a set that is large but for fewer bytes is nearly all
    MAX_RANGE_SETS,   \* 3, the ranges of a FwdRangeSearch
    TeddyBytes,       \* 16, the bytes of the rarest place of a FwdPrefixSearch
    SKIP_FREQ_THRESHOLD, RARE_BYTE_FREQ_LIMIT, RANGE_FREQ_THRESHOLD, TEDDY_MAX_FREQ_SUM,
    TEDDY_WEAK_POSITION_FREQ, TEDDY_MEMCHR_MAX_FREQ, TEDDY_MEMCHR_MAX_FREQ_F,
    RevShare          \* <<12, 256>>: the share of all places a reverse search may stop at

ASSUME SearchConstants ==
    /\ {Lanes, WordBytes, NibbleBase} \subseteq Nat \ {0} /\ HighByte \in Nat
    /\ \E last \in Bytes : Bytes = 0 .. last
    /\ ByteFreq \in [Bytes -> Nat \ {0}]

None == -1
NoSearcher == [k |-> "none"]
\* a byte outside the haystack could be any: it is 0 here, see ReadsInside
At(h, i) == IF i \in 0 .. Len(h) - 1 THEN h[i + 1] ELSE 0
Least(S) == SetOps!Min(S)
Greatest(S) == SetOps!Max(S)
Lesser(i, j) == IF i < j THEN i ELSE j
Less(i, j) == IF i > j THEN i - j ELSE 0       \* saturating_sub

FreqSum(S) == SetOps!MapThenSumSet(LAMBDA b : ByteFreq[b], S)
ByteOf(S) == CHOOSE b \in S : TRUE
IsByte(S) == Cardinality(S) = 1

\* pp_collect_ranges: the longest runs of bytes in S
RangesOf(S) == {r \in S \X S : /\ r[1] .. r[2] \subseteq S /\ r[1] <= r[2]
                               /\ r[1] - 1 \notin S /\ r[2] + 1 \notin S}
InRanges(b, ranges) == \E r \in ranges : r[1] <= b /\ b <= r[2]

(***************************************************************************)
(* A literal: its rarest byte is looked for, a second one confirms, and    *)
(* the word is compared WordBytes at a time, its last part padded with 0.  *)
(***************************************************************************)
\* the first place of those with the least value
FirstLeast(f(_), idxs) == CHOOSE i \in idxs : \A j \in idxs : f(i) < f(j) \/ (f(i) = f(j) /\ i <= j)
Rarest(needle, idxs) == FirstLeast(LAMBDA i : ByteFreq[At(needle, i)], idxs)
Places(needle) == 0 .. Len(needle) - 1
RareIdx(needle) == Rarest(needle, Places(needle))
ConfirmIdx(needle) == IF Len(needle) = 1 THEN 0 ELSE Rarest(needle, Places(needle) \ {RareIdx(needle)})
PaddedWord(word, off) == [i \in 1 .. WordBytes |-> IF off + i <= Len(word) THEN word[off + i] ELSE 0]
Chunks(word) == [c \in 1 .. (Len(word) + WordBytes - 1) \div WordBytes |-> PaddedWord(word, (c - 1) * WordBytes)]

LiteralSearch(kind, needle, tail) ==
    [k |-> kind, len |-> Len(needle), rare |-> RareIdx(needle), rareByte |-> At(needle, RareIdx(needle)),
     confirm |-> ConfirmIdx(needle), confirmByte |-> At(needle, ConfirmIdx(needle)),
     chunks |-> Chunks(needle), tail |-> tail]
\* verify: the word at start, which lies inside h
Verify(lit, h, start) == Chunks(SubSeq(h, start + 1, start + lit.len)) = lit.chunks
\* the lanes of the w bytes from p on where both bytes are right
LiteralLanes(lit, h, p, w) ==
    {i \in 0 .. w - 1 : At(h, p + i) = lit.rareByte /\ At(h, p + i + lit.confirm - lit.rare) = lit.confirmByte}

(***************************************************************************)
(* Teddy: for up to three places of the row, tables of the nibbles that    *)
(* its bytes have.  A byte whose nibbles are both there may still be       *)
(* another byte.                                                           *)
(***************************************************************************)
Masks(S) == [lo |-> {b % NibbleBase : b \in S}, hi |-> {b \div NibbleBase : b \in S}]
Passes(mask, b) == b % NibbleBase \in mask.lo /\ b \div NibbleBase \in mask.hi
FilterFwd(t, h, p) ==
    {i \in 0 .. Lanes - 1 : \A m \in DOMAIN t.masks : Passes(t.masks[m], At(h, p + i + t.offsets[m]))}
FilterRev(t, h, p) ==
    {i \in 0 .. Lanes - 1 : \A m \in DOMAIN t.masks : Passes(t.masks[m], At(h, p + i - (m - 1)))}

\* the places by how common their bytes are (a stable sort)
PlaceFreq(sets, i) == FreqSum(At(sets, i))
RarerAt(sets, i, j) ==
    PlaceFreq(sets, i) < PlaceFreq(sets, j) \/ (PlaceFreq(sets, i) = PlaceFreq(sets, j) /\ i < j)
FreqOrder(sets) ==
    CHOOSE order \in [1 .. Len(sets) -> Places(sets)] :
        \A m, n \in DOMAIN order : m < n => RarerAt(sets, order[m], order[n])
NumSimd(len) == Lesser(len, 3)
FirstOf(order, n) == SubSeq(order, 1, n)
FwdTeddy(sets) ==
    [k |-> "teddy", len |-> Len(sets), offsets |-> FirstOf(FreqOrder(sets), NumSimd(Len(sets))),
     masks |-> [m \in 1 .. NumSimd(Len(sets)) |-> Masks(At(sets, FreqOrder(sets)[m]))],
     \* verify_order: the places the filter does not look at come first
     order |-> SubSeq(FreqOrder(sets), NumSimd(Len(sets)) + 1, Len(sets)) \o FirstOf(FreqOrder(sets), NumSimd(Len(sets))),
     sets |-> sets, tail |-> 0]
\* verify_inline and verify_tail_fwd
VerifyFwd(t, h, p) == \A j \in DOMAIN t.order : At(h, p + t.order[j]) \in At(t.sets, t.order[j])

RevTeddy(sets, tail) ==
    [k |-> "revteddy", len |-> Len(sets), masks |-> [m \in 1 .. NumSimd(Len(sets)) |-> Masks(sets[m])],
     sets |-> sets, tail |-> tail]
\* a mutant: what passes the filter is taken
VerifyFiltered(t, h, p) == p + 1 >= t.len /\ \A m \in DOMAIN t.masks : Passes(t.masks[m], At(h, p - (m - 1)))
VerifyRev(t, h, p) == p + 1 >= t.len /\ \A j \in Places(t.sets) : At(h, p - j) \in At(t.sets, j)

\* RevTeddySearch::new: single bytes make a literal, read from its end
RevSearch(sets, tail) ==
    IF \A i \in DOMAIN sets : IsByte(sets[i])
    THEN LiteralSearch("revliteral", [i \in DOMAIN sets |-> ByteOf(sets[Len(sets) + 1 - i])], tail)
    ELSE RevTeddy(sets, tail)

(***************************************************************************)
(* The bytes at which a state is left, some of all: up to ExactLimit       *)
(* bytes, or up to RangeLimit ranges if they are rare enough.              *)
(***************************************************************************)
NearlyAll(S) == 2 * Cardinality(S) > Cardinality(Bytes) /\ Cardinality(Bytes \ S) < FewBytes
RangeSkip(S) ==
    IF Cardinality(RangesOf(S)) <= RangeLimit /\ FreqSum(S) < SKIP_FREQ_THRESHOLD /\ ~NearlyAll(S)
    THEN [k |-> "ranges", ranges |-> RangesOf(S), tail |-> 0]
    ELSE NoSearcher
SetSearch(S) ==
    IF Cardinality(S) <= ExactLimit THEN [k |-> "bytes", bytes |-> S, tail |-> 0] ELSE RangeSkip(S)
SetHit(s, b) == IF s.k = "bytes" THEN b \in s.bytes ELSE InRanges(b, s.ranges)

(***************************************************************************)
(* The choice of a forward search for a row of sets.                       *)
(***************************************************************************)
Needle(sets, n) == [i \in 1 .. n |-> ByteOf(sets[i])]
IsRare(needle) == ByteFreq[At(needle, RareIdx(needle))] < RARE_BYTE_FREQ_LIMIT
StrictLiteral(sets) ==
    IF (\A i \in DOMAIN sets : IsByte(sets[i])) /\ IsRare(Needle(sets, Len(sets)))
    THEN LiteralSearch("literal", Needle(sets, Len(sets)), 0)
    ELSE NoSearcher

\* high bytes may be folded into one range
CoarseRanges(S) == RangesOf({b \in S : b < HighByte}) \cup {<<HighByte, Greatest(Bytes)>>}
AnchorRanges(S) == IF Cardinality(RangesOf(S)) <= MAX_RANGE_SETS THEN RangesOf(S) ELSE CoarseRanges(S)
RangePrefix(sets, anchor, common) ==
    IF \/ ~common /\ FreqSum(At(sets, anchor)) >= RANGE_FREQ_THRESHOLD
       \/ Cardinality(RangesOf(At(sets, anchor))) > MAX_RANGE_SETS /\ \A b \in At(sets, anchor) : b < HighByte
       \/ Cardinality(AnchorRanges(At(sets, anchor))) > MAX_RANGE_SETS
    THEN NoSearcher
    ELSE [k |-> "range", len |-> Len(sets), anchor |-> anchor, ranges |-> AnchorRanges(At(sets, anchor)),
          sets |-> sets, order |-> [i \in DOMAIN sets |-> i - 1], tail |-> 0]

LiteralLength(sets) == Greatest({n \in 0 .. Len(sets) : \A i \in 1 .. n : IsByte(sets[i])})
PlaceSearch(sets, rarest, common) ==
    IF Len(sets) > 1 /\ Cardinality({i \in DOMAIN sets : sets[i] # Bytes}) <= 1 THEN NoSearcher
    ELSE IF Len(sets) = 1 /\ FreqSum(sets[1]) > TEDDY_MEMCHR_MAX_FREQ_F THEN RangePrefix(sets, rarest, common)
    ELSE IF \/ Cardinality(At(sets, rarest)) > TeddyBytes
            \/ FreqSum(At(sets, rarest)) > TEDDY_MAX_FREQ_SUM
    THEN RangePrefix(sets, rarest, FALSE)
    ELSE FwdTeddy(sets)
FwdSearch(sets, common) ==
    IF LiteralLength(sets) >= 3 /\ (LiteralLength(sets) = Len(sets) \/ IsRare(Needle(sets, LiteralLength(sets))))
    THEN LiteralSearch("literal", Needle(sets, LiteralLength(sets)), 0)
    ELSE PlaceSearch(sets, FreqOrder(sets)[1], common)

(***************************************************************************)
(* The choice of a reverse search: the three places in a row that are      *)
(* rarest together, if they are rare enough.                               *)
(***************************************************************************)
Product(sets, off) ==
    SeqOps!FoldLeft(LAMBDA acc, S : acc * FreqSum(S), 1, SubSeq(sets, off + 1, off + NumSimd(Len(sets))))
TailOffset(sets) == FirstLeast(LAMBDA o : Product(sets, o), 0 .. Len(sets) - NumSimd(Len(sets)))
RevWindow(sets) == SubSeq(sets, TailOffset(sets) + 1, TailOffset(sets) + NumSimd(Len(sets)))
RareEnough(window) ==
    LET freqs == {FreqSum(window[i]) : i \in DOMAIN window}
        narrow == {i \in DOMAIN window : FreqSum(window[i]) <= TEDDY_WEAK_POSITION_FREQ}
    IN /\ Least(freqs) <= TEDDY_MAX_FREQ_SUM
       /\ Cardinality(narrow) >= 2 \/ Least(freqs) <= TEDDY_MEMCHR_MAX_FREQ
       /\ Product(window, 0) * RevShare[2] <= RevShare[1] * FreqSum(Bytes) ^ Len(window)
RevPrefixSearch(sets) ==
    IF RareEnough(RevWindow(sets)) THEN RevSearch(RevWindow(sets), TailOffset(sets)) ELSE NoSearcher
=============================================================================
