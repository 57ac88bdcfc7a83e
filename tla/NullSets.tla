------------------------------ MODULE NullSets ------------------------------
(***************************************************************************)
(* The interned sets of null states (resharp-algebra, nulls.rs).  A set    *)
(* says at which distances (rel) behind the position a node is nullable,   *)
(* where in the input (mask) and with which tag.  A set is known by its    *)
(* id, and an id is held in one of three forms: its runs; a list of runs   *)
(* that is cheap to extend at one end; or a shift of another set by an     *)
(* offset.  The last two are turned into runs the first time the runs are  *)
(* needed, and results are memoised by the ids of the operands.            *)
(*                                                                         *)
(* The list cells that ids share in an arena are values here, and ids      *)
(* start at 1.                                                             *)
(***************************************************************************)
EXTENDS Integers, Sequences, FiniteSets, FiniteSetsExt, SequencesExt

CONSTANTS
  MaxRel,           \* u32::MAX: a run up to it is a tail, without an end
  Tag,              \* tags of capture groups, numbers below NoTag
  NoTag,            \* NO_TAG, u32::MAX
  Mask,             \* the masks callers ask for, sets of Bit
  Runs,             \* the single runs they ask for
  MaxSets,          \* a bound on the sets interned
  MaxMemo           \* a bound on the unions and intersections remembered

Bit    == {"center", "begin", "end"}      \* Nullability
Always == Bit
Rel    == 0 .. MaxRel

ASSUME NullSetsAssumption ==
  /\ MaxRel \in Nat \ {0} /\ MaxSets \in Nat /\ NoTag \in Nat
  /\ \A t \in Tag : t \in Nat /\ t < NoTag
  /\ Mask \subseteq SUBSET Bit /\ MaxMemo \in Nat
  /\ \A r \in Runs : /\ r.mask \in (SUBSET Bit) \ {{}}
                     /\ r.lo \in Rel /\ r.hi \in Rel /\ r.lo <= r.hi

VARIABLE
  store             \* NullsBuilder: the sets and the memo tables

nullsVars == <<store>>

-----------------------------------------------------------------------------
(* Runs: [mask, lo, hi, tag], sorted by (lo, tag): each stands where as    *)
(* many come before it.                                                    *)

Tagged(mask, lo, hi, tag) == [mask |-> mask, lo |-> lo, hi |-> hi, tag |-> tag]
Run(mask, lo, hi) == Tagged(mask, lo, hi, NoTag)

Before(r, s) == r.lo < s.lo \/ (r.lo = s.lo /\ r.tag < s.tag)
SortRuns(S) ==
  [i \in 1 .. Cardinality(S) |-> CHOOSE r \in S : Cardinality({q \in S : Before(q, r)}) = i - 1]
(* Of sorted runs, those of one tag are sorted still.                      *)
WithTag(runs, tag) == SortRuns({r \in ToSet(runs) : r.tag = tag})
TagsOf(runs) == {runs[i].tag : i \in DOMAIN runs}
Alike(r, s)  == r.mask = s.mask /\ r.tag = s.tag

PushCoalesced(runs, r) ==
  IF r.mask = {} THEN runs
  ELSE IF runs # <<>> /\ Last(runs).mask = r.mask /\ Last(runs).hi + 1 = r.lo
  THEN [runs EXCEPT ![Len(runs)].hi = r.hi]
  ELSE Append(runs, r)

(* The runs of each tag coalesced, the empty masks dropped.                *)
Canonical(S) ==
  LET of(tag) == FoldLeft(PushCoalesced, <<>>, SortRuns({r \in S : r.tag = tag}))
  IN SortRuns(UNION {ToSet(of(tag)) : tag \in {r.tag : r \in S}})

(* The stretches between the bounds of two lists of runs: on each of them  *)
(* every run is either everywhere or nowhere.                              *)
Ascending(S) ==
  [i \in 1 .. Cardinality(S) |-> CHOOSE n \in S : Cardinality({m \in S : m < n}) = i - 1]
Stretches(a, b) ==
  LET runs   == ToSet(a) \cup ToSet(b)
      bounds == Ascending({r.lo : r \in runs} \cup {r.hi + 1 : r \in runs})
  IN [i \in 1 .. Len(bounds) - 1 |-> [lo |-> bounds[i], hi |-> bounds[i + 1] - 1]]

Covering(runs, w) == UNION {r.mask : r \in {r \in ToSet(runs) : r.lo <= w.lo /\ w.hi <= r.hi}}

OrTag(a, b, tag) ==
  LET w == Stretches(a, b)
  IN IF a = <<>> THEN b
     ELSE IF b = <<>> THEN a
     ELSE FoldLeft(PushCoalesced, <<>>, [i \in DOMAIN w |->
            Tagged(Covering(a, w[i]) \cup Covering(b, w[i]), w[i].lo, w[i].hi, tag)])

AndTag(a, b, tag) ==
  LET w == Stretches(a, b)
  IN FoldLeft(PushCoalesced, <<>>, [i \in DOMAIN w |->
       Tagged(Covering(a, w[i]) \cap Covering(b, w[i]), w[i].lo, w[i].hi, tag)])

OrRuns(a, b) ==
  SortRuns(UNION {ToSet(OrTag(WithTag(a, t), WithTag(b, t), t)) : t \in TagsOf(a) \cup TagsOf(b)})

(* Tag by tag; what two tags share is kept under both.                     *)
AndRuns(a, b) ==
  LET both == {[runs |-> AndTag(WithTag(a, s), WithTag(b, t), s), tags |-> {s, t}] :
                 s \in TagsOf(a), t \in TagsOf(b)}
      under(p, t) == [i \in DOMAIN p.runs |-> [p.runs[i] EXCEPT !.tag = t]]
  IN FoldSet(OrRuns, <<>>, UNION {{under(p, t) : t \in p.tags} : p \in both})

AndMaskRuns(a, mask) == Canonical({[r EXCEPT !.mask = @ \cap mask] : r \in ToSet(a)})
NotRuns(a)           == Canonical({[r EXCEPT !.mask = Always \ @] : r \in ToSet(a)})

(* Rels are u32.                                                           *)
Plus(m, n) == (m + n) % (MaxRel + 1)
AddRelRuns(a, rel) ==
  [i \in DOMAIN a |-> [a[i] EXCEPT !.lo = Plus(@, rel), !.hi = Plus(@, rel)]]

MergeOverlapping(runs, r) ==
  IF runs # <<>> /\ r.lo <= Last(runs).hi + 1
  THEN [runs EXCEPT ![Len(runs)].hi = IF r.hi > @ THEN r.hi ELSE @]
  ELSE Append(runs, r)

UnionShiftedRuns(body, shifts) ==
  LET shifted(br) == FoldLeft(MergeOverlapping, <<>>, [i \in DOMAIN shifts |->
        Tagged(br.mask, Plus(br.lo, shifts[i].lo), Plus(br.hi, shifts[i].hi), br.tag)])
  IN FoldLeft(OrRuns, <<>>, [i \in DOMAIN body |-> shifted(body[i])])

-----------------------------------------------------------------------------
(* The list form: the runs from one end, the head the lowest (asc) or the  *)
(* highest, with the least and the greatest rel.                           *)

EmptyList(asc) == [asc |-> asc, runs |-> <<>>, min |-> 0, max |-> 0]
NoList == [asc |-> FALSE, runs |-> <<>>, min |-> MaxRel, max |-> 0]

TryInsertExtreme(list, run) ==
  LET h == Head(list.runs)
  IN IF list.runs = <<>>
     THEN [list EXCEPT !.runs = <<run>>, !.min = run.lo, !.max = run.hi]
     ELSE IF list.asc
     THEN IF Alike(run, h) /\ run.hi + 1 = h.lo
          THEN [list EXCEPT !.runs[1].lo = run.lo, !.min = run.lo]
          ELSE IF run.hi < h.lo
          THEN [list EXCEPT !.runs = <<run>> \o @, !.min = run.lo]
          ELSE NoList
     ELSE IF Alike(run, h) /\ run.lo = h.hi + 1
          THEN [list EXCEPT !.runs[1].hi = run.hi, !.max = run.hi]
          ELSE IF run.lo > h.hi
          THEN [list EXCEPT !.runs = <<run>> \o @, !.max = run.hi]
          ELSE NoList

(* As a bug would have it: the cells as they come.                        *)
ToVecAsIs(list) == list.runs

ToVec(list) == IF list.asc THEN list.runs ELSE Reverse(list.runs)

Extend(list, run) == IF list = NoList THEN NoList ELSE TryInsertExtreme(list, run)
ListOf(runs, asc) == FoldLeft(Extend, EmptyList(asc), IF asc THEN Reverse(runs) ELSE runs)

-----------------------------------------------------------------------------
(* The store.  A set is [form, runs, list, root, off]: the runs of a set   *)
(* in another form are not there yet.                                      *)

PlainSet(runs)    == [form |-> "runs", runs |-> runs, list |-> NoList, root |-> 0, off |-> 0]
Listed(list)      == [form |-> "list", runs |-> <<>>, list |-> list, root |-> 0, off |-> 0]
Shifted(root, d)  == [form |-> "shift", runs |-> <<>>, list |-> NoList, root |-> root, off |-> d]

EMPTY == 1
CENTER0 == 2
ALWAYS0 == 3
BEGIN0 == 4
END0 == 5

(* NullsBuilder::new; cache: the sets interned by their runs; created,     *)
(* shifts and rels: the memo tables of or/and, of (root, offset) and of    *)
(* add_rel.                                                                *)
NewStore ==
  [sets    |-> <<PlainSet(<<>>), PlainSet(<<Run({"center"}, 0, 0)>>), PlainSet(<<Run(Always, 0, 0)>>),
                 PlainSet(<<Run({"begin"}, 0, 0)>>), PlainSet(<<Run({"end"}, 0, 0)>>)>>,
   cache   |-> 1 .. 5,
   created |-> {}, shifts |-> {}, rels |-> {}]

(* An operation takes a store and gives a store and an id.                 *)
Gives(st, id) == [st |-> st, id |-> id]
Add(st, set)  == Gives([st EXCEPT !.sets = Append(@, set)], Len(st.sets) + 1)

GetRunsId(st, runs) ==
  LET known == {id \in st.cache : st.sets[id].runs = runs}
  IN IF known # {} THEN Gives(st, CHOOSE id \in known : TRUE)
     ELSE LET r == Add(st, PlainSet(runs)) IN [r EXCEPT !.st.cache = @ \cup {r.id}]

SingleRun(st, mask, lo, hi) == GetRunsId(st, <<Run(mask, lo, hi)>>)
TagRun(st, tag)             == GetRunsId(st, <<Tagged(Always, 0, 0, tag)>>)

Flattened(st, id) ==
  IF st.sets[id].form = "list"
  THEN [st EXCEPT !.sets[id] = PlainSet(ToVec(st.sets[id].list))] ELSE st

(* As a bug would have it: the offset is added to the root as well.        *)
MaterialisedRoot(st, id) ==
  LET e == st.sets[id]
      s == Flattened(st, e.root)
  IN IF e.form # "shift" THEN Flattened(st, id)
     ELSE [s EXCEPT !.sets[id] = PlainSet(AddRelRuns(s.sets[e.root].runs, e.off)),
                    !.sets[e.root] = PlainSet(AddRelRuns(s.sets[e.root].runs, e.off))]

(* get_set_ref: the store once the runs of id are there.                   *)
Materialised(st, id) ==
  LET e == st.sets[id]
      s == Flattened(st, e.root)
  IN IF e.form # "shift" THEN Flattened(st, id)
     ELSE [s EXCEPT !.sets[id] = PlainSet(AddRelRuns(s.sets[e.root].runs, e.off))]

Pair(st, a, b) == Materialised(Materialised(st, a), b)

(* What is read of a set without its runs.                                 *)
Root(st, id)   == IF st.sets[id].form = "shift" THEN st.sets[id].root ELSE id
Offset(st, id) == st.sets[id].off

SingleRunView(st, id) ==
  LET r    == st.sets[Root(st, id)]
      runs == IF r.form = "list" THEN r.list.runs ELSE r.runs
  IN IF Len(runs) # 1 THEN {} ELSE ToSet(AddRelRuns(runs, Offset(st, id)))

MinRel(st, id) ==
  LET r == st.sets[Root(st, id)]
  IN Offset(st, id) + IF r.form = "list" THEN r.list.min
                      ELSE IF r.runs = <<>> THEN 0 ELSE r.runs[1].lo

MaxRelOf(st, id) ==
  LET r == st.sets[Root(st, id)]
  IN Offset(st, id) + IF r.form = "list" THEN r.list.max
                      ELSE Max({0} \cup {s.hi : s \in ToSet(r.runs)})

IsAlways0(st, id) == SingleRunView(st, id) = {Run(Always, 0, 0)}

-----------------------------------------------------------------------------
(* The operations.                                                         *)

RunListForExtend(st, big, asc) ==
  LET s == Materialised(st, big)
  IN IF st.sets[big].form = "list"
     THEN [st |-> st, list |-> IF st.sets[big].list.asc = asc THEN st.sets[big].list ELSE NoList]
     ELSE [st |-> s, list |-> ListOf(s.sets[big].runs, asc)]

(* As a bug would have it: a run that starts below the set extends it.     *)
TryOrExtremeOverlapping(st, small, big) ==
  LET view == SingleRunView(st, small)
      run  == CHOOSE r \in view : TRUE
      asc  == run.lo < MinRel(st, big)
      ext  == RunListForExtend(st, big, asc)
      list == IF asc THEN [ext.list EXCEPT !.runs = <<run>> \o @, !.min = run.lo]
              ELSE TryInsertExtreme(ext.list, run)
  IN IF view = {} \/ ~(asc \/ run.lo > MaxRelOf(st, big)) THEN Gives(st, 0)
     ELSE IF ext.list = NoList \/ list = NoList THEN Gives(ext.st, 0)
     ELSE Add(ext.st, Listed(list))

(* try_or_id_extreme: the union in list form when small is one run beyond  *)
(* an end of big, or 0 and the store it leaves.                            *)
TryOrExtreme(st, small, big) ==
  LET view == SingleRunView(st, small)
      run  == CHOOSE r \in view : TRUE
      asc  == run.hi < MinRel(st, big)
      ext  == RunListForExtend(st, big, asc)
      list == TryInsertExtreme(ext.list, run)
  IN IF view = {} \/ ~(asc \/ run.lo > MaxRelOf(st, big)) THEN Gives(st, 0)
     ELSE IF ext.list = NoList \/ list = NoList THEN Gives(ext.st, 0)
     ELSE Add(ext.st, Listed(list))

Memo(op, a, b, r) ==
  Gives([r.st EXCEPT !.created = @ \cup {[op |-> op, left |-> a, right |-> b, id |-> r.id]}], r.id)
Known(st, op, a, b) == {m \in st.created : m.op = op /\ m.left = a /\ m.right = b}

OrSorted(st, a, b) ==
  LET one  == TryOrExtreme(st, a, b)
      two  == TryOrExtreme(one.st, b, a)
      full == Pair(two.st, a, b)
  IN IF a = EMPTY THEN Gives(st, b)
     ELSE IF a = b THEN Gives(st, a)
     ELSE IF Known(st, "or", a, b) # {}
     THEN Gives(st, (CHOOSE m \in Known(st, "or", a, b) : TRUE).id)
     ELSE IF a = ALWAYS0 /\ b = END0 THEN Gives(st, ALWAYS0)
     ELSE IF one.id # 0 THEN Memo("or", a, b, one)
     ELSE IF two.id # 0 THEN Memo("or", a, b, two)
     ELSE Memo("or", a, b, GetRunsId(full, OrRuns(full.sets[a].runs, full.sets[b].runs)))

OrId(st, a, b) == IF a <= b THEN OrSorted(st, a, b) ELSE OrSorted(st, b, a)

AndSorted(st, a, b) ==
  LET full == Pair(st, a, b)
  IN IF a = EMPTY THEN Gives(st, EMPTY)
     ELSE IF a = b THEN Gives(st, a)
     ELSE IF Known(st, "and", a, b) # {}
     THEN Gives(st, (CHOOSE m \in Known(st, "and", a, b) : TRUE).id)
     ELSE Memo("and", a, b, GetRunsId(full, AndRuns(full.sets[a].runs, full.sets[b].runs)))

AndId(st, a, b) == IF a <= b THEN AndSorted(st, a, b) ELSE AndSorted(st, b, a)

AndMask(st, a, mask) ==
  LET s == Materialised(st, a)
  IN IF a = EMPTY \/ mask = {} THEN Gives(st, EMPTY)
     ELSE IF mask = Always THEN Gives(st, a)
     ELSE GetRunsId(s, AndMaskRuns(s.sets[a].runs, mask))

NotId(st, a) ==
  LET s == Materialised(st, a)
  IN CASE a = EMPTY   -> Gives(st, ALWAYS0)
       [] a = ALWAYS0 -> Gives(st, EMPTY)
       [] a = BEGIN0  -> OrId(st, CENTER0, END0)
       [] a = END0    -> OrId(st, CENTER0, BEGIN0)
       [] OTHER       -> GetRunsId(s, NotRuns(s.sets[a].runs))

(* add_rel: a shift of the root, nothing is computed.                      *)
AddRel(st, a, rel) ==
  LET done  == {m \in st.rels : m.set = a /\ m.rel = rel}
      root  == Root(st, a)
      off   == Offset(st, a) + rel
      known == {m \in st.shifts : m.root = root /\ m.off = off}
      made  == Add([st EXCEPT !.shifts = @ \cup {[root |-> root, off |-> off,
                                                  id |-> Len(st.sets) + 1]}],
                   Shifted(root, off))
      r     == IF known # {} THEN Gives(st, (CHOOSE m \in known : TRUE).id) ELSE made
  IN IF rel = 0 \/ rel = MaxRel THEN Gives(st, a)
     ELSE IF done # {} THEN Gives(st, (CHOOSE m \in done : TRUE).id)
     ELSE [r EXCEPT !.st.rels = @ \cup {[set |-> a, rel |-> rel, id |-> r.id]}]

UnionShifted(st, body, shifts) ==
  LET full == Pair(st, body, shifts)
  IN IF body = EMPTY \/ shifts = EMPTY THEN Gives(st, EMPTY)
     ELSE IF IsAlways0(st, body) THEN Gives(st, shifts)
     ELSE GetRunsId(full, UnionShiftedRuns(full.sets[body].runs, full.sets[shifts].runs))

-----------------------------------------------------------------------------
(* What a set means: where (rel, tag, bit) it is nullable.                 *)
RunsMean(runs) == UNION {{<<rel, r.tag, b>> : rel \in r.lo .. r.hi, b \in r.mask} : r \in ToSet(runs)}
Means(st, id)  == RunsMean(Materialised(st, id).sets[id].runs)

Rels(M)     == {x[1] : x \in M}
Untagged(M) == \A x \in M : x[2] = NoTag

NotMeans(M) ==
  IF M = {} THEN {<<0, NoTag, b>> : b \in Always}
  ELSE {x \in {<<m[1], m[2], b>> : m \in M, b \in Always} : x \notin M}
AndMeans(M, N) ==
  LET both == {p \in M \X N : p[1][1] = p[2][1] /\ p[1][3] = p[2][3]}
  IN {p[1] : p \in both} \cup {p[2] : p \in both}
ShiftMeans(M, rels) == {<<m[1] + d, m[2], m[3]>> : m \in M, d \in rels}

-----------------------------------------------------------------------------
NullsInit == store = NewStore

Ids == DOMAIN store.sets
Becomes(r) ==
  /\ Len(r.st.sets) <= MaxSets /\ Cardinality(r.st.created) <= MaxMemo
  /\ store' = r.st

(* A bound on the orders: single runs are interned before other sets.      *)
First == store.created = {} /\ store.rels = {}

Single   == First /\ \E r \in Runs : Becomes(SingleRun(store, r.mask, r.lo, r.hi))
OfTag    == First /\ \E t \in Tag : Becomes(TagRun(store, t))
(* A bound: what is changed or combined with another is the newest set.    *)
Newest   == Len(store.sets)

Or       == \E b \in Ids : Becomes(OrId(store, Newest, b))
And      == \E b \in Ids : Becomes(AndId(store, Newest, b))
Masked   == \E mask \in Mask : Becomes(AndMask(store, Newest, mask))
Not      == Becomes(NotId(store, Newest))

(* What is shifted are the rels of a lookahead: there is one, they carry   *)
(* no tag, and no tail is shifted.                                         *)
MayShift(a, rel) ==
  /\ Means(store, a) # {} /\ Untagged(Means(store, a))
  /\ MaxRelOf(store, a) + rel < MaxRel
Shift == \E rel \in Rel : MayShift(Newest, rel) /\ Becomes(AddRel(store, Newest, rel))

(* The shifts are rels, nullable everywhere; the sets shifted have no tail.*)
MayShiftBy(a, b) ==
  /\ Means(store, b) = {<<rel, NoTag, x>> : rel \in Rels(Means(store, b)), x \in Always}
  /\ MaxRelOf(store, a) + MaxRelOf(store, b) < MaxRel
ShiftBy == \E b \in Ids : MayShiftBy(Newest, b) /\ Becomes(UnionShifted(store, Newest, b))

(* nulls_entry_states: the runs are wanted.                                *)
Read == \E a \in Ids : store' = Materialised(store, a)

NullsNext ==
  \/ Single \/ OfTag \/ Or \/ And \/ Masked \/ Not \/ Shift \/ ShiftBy \/ Read

NullsSpec == NullsInit /\ [][NullsNext]_nullsVars

-----------------------------------------------------------------------------
(* The runs of each tag are maximal and apart; what is read of a set in    *)
(* another form - its least and greatest rel, its only run - is what its   *)
(* runs would say; and a shift is never one of a shift.                    *)
SetsWellFormed ==
  \A id \in Ids :
    LET runs == Materialised(store, id).sets[id].runs
    IN /\ runs = SortRuns(ToSet(runs))
       /\ \A i, j \in DOMAIN runs :
            i < j /\ runs[i].tag = runs[j].tag =>
              /\ runs[i].hi < runs[j].lo
              /\ runs[i].mask = runs[j].mask => runs[i].hi + 1 < runs[j].lo
       /\ runs # <<>> => /\ MinRel(store, id) = runs[1].lo
                         /\ MaxRelOf(store, id) = Max({r.hi : r \in ToSet(runs)})
       /\ SingleRunView(store, id) = IF Len(runs) = 1 THEN ToSet(runs) ELSE {}
       /\ store.sets[id].form = "shift" => store.sets[store.sets[id].root].form # "shift"

(* Whatever forms its operands are in, and whether its result is computed  *)
(* or remembered: an operation returns a set that means what it should.    *)
ResultsMean ==
  LET m == [a \in Ids |-> Means(store, a)]
      Returns(r, M) == Means(r.st, r.id) = M
  IN \A a \in Ids :
       /\ \A b \in a .. Newest :
            /\ Returns(OrId(store, a, b), m[a] \cup m[b])
            /\ Returns(AndId(store, a, b), AndMeans(m[a], m[b]))
       /\ \A b \in Ids : MayShiftBy(a, b) =>
            Returns(UnionShifted(store, a, b), ShiftMeans(m[a], Rels(m[b])))
       /\ \A mask \in Mask :
            Returns(AndMask(store, a, mask), {x \in m[a] : x[3] \in mask})
       /\ Returns(NotId(store, a), NotMeans(m[a]))
       /\ \A rel \in Rel : MayShift(a, rel) =>
            Returns(AddRel(store, a, rel), ShiftMeans(m[a], {rel}))

(* An id means the same for ever: extending a list, materialising a shift  *)
(* or its root, changes no other set.                                      *)
IdsKeepMeaning == [][\A id \in Ids : Means(store', id) = Means(store, id)]_nullsVars
=============================================================================
