------------------------- MODULE RegexSharedProofs -------------------------
(***************************************************************************)
(* RegexShared, for any number of threads, inputs and positions: each call *)
(* answers for its own input.                                              *)
(*                                                                         *)
(* The invariant says what the scratch buffers hold in terms of the input  *)
(* of the thread that holds the mutex (and nothing when nobody does), what *)
(* a captures_all keeps of its input between two locks, and that the cache *)
(* is about the bytes at the declared address as long as a call borrows    *)
(* them.                                                                   *)
(***************************************************************************)
EXTENDS RegexShared, TLAPS

Locked  == {"rev", "fwd", "prefix", "any"}
Op      == {"find_all", "is_match", "captures_all"}
Results == [status : Status, at : Seq(Pos), on : Seq(Bytes)]
Elems(s) == {s[i] : i \in DOMAIN s}

Typed ==
  /\ twoPass \in BOOLEAN
  /\ mem \in [Address -> Bytes]
  /\ holder \in Thread \cup {Free} /\ poisoned \in BOOLEAN
  /\ nulls \in Bytes /\ matches \in Seq(Pos) /\ pos \in 0 .. MaxPos
  /\ scope \in Address \cup {Free}
  /\ cache \in [Pos -> Bytes \cup {NoEntry}]
  /\ calls \in 0 .. MaxCalls
  /\ pc \in [Thread -> Locked \cup {"idle", "lock", "scope", "extract"}]
  /\ call \in [Thread -> {NoCall} \cup [op : Op, addr : Address]]
  /\ found \in [Thread -> Seq(Pos)]
  /\ result \in [Thread -> Results]

Locking(t) ==
  /\ pc[t] \in Locked <=> holder = t
  /\ pc[t] = "idle" <=> call[t] = NoCall

(* What the pass of the holder has reached of its input.                   *)
Scratch(t) ==
  /\ IF pc[t] \in {"rev", "fwd"} THEN twoPass ELSE ~twoPass
  /\ pc[t] = "any" => call[t].op = "is_match"
  /\ pc[t] \in {"fwd", "prefix"} => call[t].op # "is_match"
  /\ pc[t] = "rev" /\ call[t].op = "is_match" =>
       \/ pos = 0 /\ nulls # {} /\ nulls \subseteq Input(t)
       \/ nulls = {} /\ \A q \in Input(t) : q <= pos
  /\ pc[t] = "rev" /\ call[t].op # "is_match" =>
       nulls = {q \in Input(t) : q > pos} /\ matches = <<>>
  /\ pc[t] = "fwd" => nulls = Input(t)
  /\ pc[t] \in {"fwd", "prefix"} => IsAscending(matches, {q \in Input(t) : q <= pos})

(* Of its input a captures_all has the matches still to be parsed and,     *)
(* below them, those already parsed.                                       *)
Parsed(t) ==
  /\ result[t].status = "ok"
  /\ result[t].on = [i \in DOMAIN result[t].at |-> Input(t)]
  /\ IsAscending(result[t].at, Elems(result[t].at))
  /\ IsAscending(found[t], Elems(found[t]))
  /\ Input(t) = Elems(result[t].at) \cup Elems(found[t])
  /\ \A p \in Elems(result[t].at), q \in Elems(found[t]) : p < q

Capturing(t) ==
  /\ pc[t] \in {"scope", "extract"} => call[t].op = "captures_all"
  /\ pc[t] = "scope" => IsAscending(found[t], Input(t))
  /\ pc[t] = "extract" => Parsed(t)

Cached(t) ==
  pc[t] = "extract" /\ scope = call[t].addr =>
    \A k \in Pos : cache[k] \in {NoEntry, Input(t)}

Own(t) == Locking(t) /\ (holder = t => Scratch(t)) /\ Capturing(t) /\ Cached(t)

IInv == Typed /\ \A t \in Thread : Own(t)

-----------------------------------------------------------------------------
(* Ascending sequences.                                                    *)
LEMMA AscendingEmpty == <<>> \in Seq(Pos) /\ IsAscending(<<>>, {}) /\ Elems(<<>>) = {}
  BY DEF IsAscending, Elems

LEMMA AscendingAppend ==
  ASSUME NEW s \in Seq(Pos), NEW S, IsAscending(s, S),
         NEW p \in Pos, \A q \in S : q < p
  PROVE  Append(s, p) \in Seq(Pos) /\ IsAscending(Append(s, p), S \cup {p})
<1> DEFINE s2 == Append(s, p)
<1>1. /\ s2 \in Seq(Pos) /\ DOMAIN s2 = 1 .. Len(s) + 1 /\ DOMAIN s = 1 .. Len(s)
      /\ Len(s) \in Nat /\ s2[Len(s) + 1] = p /\ \A i \in 1 .. Len(s) : s2[i] = s[i]
  OBVIOUS
<1>2. \A i \in 1 .. Len(s) : s[i] \in S
  BY <1>1 DEF IsAscending
<1>3. {s2[i] : i \in DOMAIN s2} = S \cup {p}
  BY <1>1 DEF IsAscending
<1>4. ASSUME NEW i \in DOMAIN s2, NEW j \in DOMAIN s2, i < j
      PROVE  s2[i] < s2[j]
  <2>1. i \in 1 .. Len(s)
    BY <1>1, <1>4
  <2>2. CASE j = Len(s) + 1
    BY <1>1, <1>2, <2>1, <2>2
  <2>3. CASE j # Len(s) + 1
    BY <1>1, <1>4, <2>1, <2>3 DEF IsAscending
  <2> QED
    BY <2>2, <2>3
<1> QED
  BY <1>1, <1>3, <1>4 DEF IsAscending

LEMMA AscendingTail ==
  ASSUME NEW s \in Seq(Pos), s # <<>>, NEW S, IsAscending(s, S)
  PROVE  /\ Head(s) \in S /\ Head(s) \in Pos
         /\ Tail(s) \in Seq(Pos) /\ IsAscending(Tail(s), S \ {Head(s)})
         /\ \A q \in S \ {Head(s)} : Head(s) < q
<1> DEFINE r == Tail(s)
<1>1. /\ Len(s) \in Nat \ {0} /\ DOMAIN s = 1 .. Len(s) /\ Head(s) = s[1]
      /\ r \in Seq(Pos) /\ Len(r) = Len(s) - 1 /\ DOMAIN r = 1 .. Len(s) - 1
      /\ \A i \in 1 .. Len(s) - 1 : r[i] = s[i + 1]
      /\ \A i \in 1 .. Len(s) : s[i] \in Pos
  OBVIOUS
<1>2. \A i, j \in 1 .. Len(s) : i < j => s[i] < s[j]
  BY <1>1 DEF IsAscending
<1>3. S = {s[i] : i \in 1 .. Len(s)}
  BY <1>1 DEF IsAscending
<1>4. \A i \in 2 .. Len(s) : s[1] < s[i] /\ s[i] # s[1]
  BY <1>1, <1>2 DEF Pos
<1>5. \A q \in S \ {s[1]} : \E i \in 1 .. Len(s) - 1 : q = s[i + 1]
  <2> SUFFICES ASSUME NEW i \in 1 .. Len(s), s[i] # s[1]
               PROVE  \E k \in 1 .. Len(s) - 1 : s[i] = s[k + 1]
    BY <1>3
  <2>1. i - 1 \in 1 .. Len(s) - 1 /\ (i - 1) + 1 = i
    BY <1>1
  <2> QED
    BY <2>1
<1>6. {r[i] : i \in DOMAIN r} = S \ {s[1]}
  <2>1. \A i \in 1 .. Len(s) - 1 : i + 1 \in 2 .. Len(s) /\ s[i + 1] \in S
    BY <1>1, <1>3
  <2>2. \A i \in DOMAIN r : r[i] \in S \ {s[1]}
    BY <1>1, <1>4, <2>1
  <2>3. ASSUME NEW q \in S \ {s[1]}
        PROVE  \E i \in DOMAIN r : q = r[i]
    <3>1. PICK i \in 1 .. Len(s) - 1 : q = s[i + 1]
      BY <1>5
    <3>2. q = r[i] /\ i \in DOMAIN r
      BY <1>1, <3>1
    <3> QED
      BY <3>2
  <2> QED
    BY <2>2, <2>3
<1>7. \A i, j \in DOMAIN r : i < j => r[i] < r[j]
  BY <1>1, <1>2
<1>8. \A q \in S \ {s[1]} : s[1] < q
  BY <1>1, <1>4, <1>5
<1>9. s[1] \in S /\ s[1] \in Pos
  BY <1>1, <1>3
<1> QED
  BY <1>1, <1>6, <1>7, <1>8, <1>9 DEF IsAscending

-----------------------------------------------------------------------------
(* What a step of another thread leaves alone.                             *)
Untouched(u) ==
  /\ pc'[u] = pc[u] /\ call'[u] = call[u]
  /\ found'[u] = found[u] /\ result'[u] = result[u]
  /\ pc[u] # "idle" => mem'[call[u].addr] = mem[call[u].addr]
  /\ twoPass' = twoPass
  /\ holder' = u <=> holder = u
  /\ holder = u => nulls' = nulls /\ matches' = matches /\ pos' = pos

LEMMA Busy ==
  ASSUME Typed, NEW t \in Thread, Locking(t), pc[t] # "idle"
  PROVE  /\ call[t] \in [op : Op, addr : Address]
         /\ call[t].addr \in Address /\ call[t].op \in Op
         /\ Input(t) \in Bytes
  BY DEF Typed, Locking, Input

LEMMA EndedTyped == \A how \in Status : Ended(how) \in Results
<1>1. <<>> \in Seq(Pos) /\ <<>> \in Seq(Bytes)
  OBVIOUS
<1> QED
  BY <1>1 DEF Ended, Results

LEMMA AnswerTyped == \A b \in BOOLEAN : Answer(b) \in Results
  BY EndedTyped DEF Answer, Status

LEMMA MatchesTyped == \A m \in Seq(Pos) : Matches(m) \in Results
<1>1. <<>> \in Seq(Bytes)
  OBVIOUS
<1> QED
  BY <1>1 DEF Matches, Results, Status

LEMMA UntouchedOwn ==
  ASSUME Typed, NEW u \in Thread, Own(u), Untouched(u), Cached(u)'
  PROVE  Own(u)'
<1>1. Locking(u)'
  BY DEF Own, Locking, Untouched
<1>2. ASSUME pc[u] # "idle"
      PROVE  Input(u)' = Input(u)
  BY <1>2 DEF Untouched, Input
<1>3. ASSUME holder' = u
      PROVE  Scratch(u)'
  <2>1. pc[u] # "idle" /\ Scratch(u)
    BY <1>3 DEF Own, Locking, Untouched, Locked
  <2> QED
    BY <1>2, <1>3, <2>1 DEF Scratch, Untouched
<1>4. Capturing(u)'
  <2>1. CASE pc[u] = "extract"
    BY <1>2, <2>1 DEF Own, Capturing, Parsed, Untouched
  <2>2. CASE pc[u] # "extract"
    BY <1>2, <2>2 DEF Own, Capturing, Untouched
  <2> QED
    BY <2>1, <2>2
<1> QED
  BY <1>1, <1>3, <1>4 DEF Own

(* The cache of another thread's input is kept when nothing is parsed.     *)
LEMMA CacheKept ==
  ASSUME NEW u \in Thread, Own(u), Untouched(u), cache' = cache, scope' = scope
  PROVE  Cached(u)'
<1> SUFFICES ASSUME pc[u] = "extract", scope = call[u].addr, NEW k \in Pos
             PROVE  cache[k] \in {NoEntry, Input(u)'}
  BY DEF Cached, Untouched
<1>1. Input(u)' = Input(u)
  BY DEF Untouched, Input
<1> QED
  BY <1>1 DEF Own, Cached
-----------------------------------------------------------------------------
(* One lemma per action: what it leaves to the others, its own thread.     *)
Preserved(t) == Typed' /\ Own(t)' /\ \A u \in Thread \ {t} : Untouched(u) /\ Cached(u)'

LEMMA PreservedAll ==
  ASSUME IInv, NEW t \in Thread, Preserved(t)
  PROVE  IInv'
  BY UntouchedOwn DEF IInv, Preserved

LEMMA RewriteOwn ==
  ASSUME IInv, NEW a \in Address, Rewrite(a)
  PROVE  IInv'
<1>1. Typed'
  BY DEF IInv, Typed, Rewrite, inner
<1>2. ASSUME NEW u \in Thread
      PROVE  Untouched(u)
  <2>1. call[u].addr # a
    BY DEF Rewrite, Borrowed
  <2>2. pc[u] # "idle" => call[u].addr \in Address
    BY Busy DEF IInv, Own
  <2> QED
    BY <2>1, <2>2 DEF Untouched, IInv, Typed, Rewrite, inner
<1>3. cache' = cache /\ scope' = scope
  BY DEF Rewrite, inner
<1> QED
  BY <1>1, <1>2, <1>3, CacheKept, UntouchedOwn DEF IInv

LEMMA CallOwn ==
  ASSUME IInv, NEW t \in Thread, NEW a \in Address, NEW op \in Op, Call(t, op, a)
  PROVE  Preserved(t)
<1>1. Typed'
  <2>1. calls' \in 0 .. MaxCalls
    BY SharedAssumption DEF IInv, Typed, Call
  <2>2. NoResult \in Results
    BY EndedTyped DEF NoResult, Status
  <2> QED
    BY <2>1, <2>2 DEF IInv, Typed, Call, inner
<1>2. Own(t)'
  BY DEF IInv, Own, Typed, Call, inner, Op, NoCall, Locking, Locked, Capturing, Cached
<1>3. ASSUME NEW u \in Thread \ {t}
      PROVE  Untouched(u) /\ Cached(u)'
  <2>1. Untouched(u)
    BY DEF Untouched, IInv, Typed, Call, inner
  <2> QED
    BY <2>1, CacheKept DEF IInv, Call, inner
<1> QED
  BY <1>1, <1>2, <1>3 DEF Preserved

(* A step of t that keeps the cache and changes the scratch buffers only   *)
(* while it holds, or gets hold of, the mutex.                             *)
LEMMA OthersKept ==
  ASSUME IInv, NEW t \in Thread,
         \A u \in Thread \ {t} : /\ pc'[u] = pc[u] /\ call'[u] = call[u]
                                 /\ found'[u] = found[u] /\ result'[u] = result[u],
         mem' = mem, twoPass' = twoPass, cache' = cache, scope' = scope,
         holder \in {t, Free}, holder' \in {t, Free}
  PROVE  \A u \in Thread \ {t} : Untouched(u) /\ Cached(u)'
<1> SUFFICES ASSUME NEW u \in Thread \ {t}
             PROVE  Untouched(u) /\ Cached(u)'
  OBVIOUS
<1>1. Untouched(u)
  BY SharedAssumption DEF Untouched
<1> QED
  BY <1>1, CacheKept DEF IInv

LEMMA LockOwn ==
  ASSUME IInv, NEW t \in Thread, Lock(t)
  PROVE  Preserved(t)
<1> USE DEF inner, Go, Return, Done
<1>0. /\ Typed /\ Own(t) /\ pc[t] = "lock" /\ holder = Free
      /\ call[t] \in [op : Op, addr : Address] /\ Input(t) \in Bytes
  BY Busy DEF IInv, Own, Lock, LockTwoPass, LockPrefix, LockFirst
<1>1. CASE LockTwoPass(t)
  <2>1. Typed'
    BY <1>0, <1>1, AscendingEmpty, SharedAssumption DEF Typed, LockTwoPass, Locked, Bytes
  <2>2. Input(t)' = Input(t)
    BY <1>1 DEF LockTwoPass, Input
  <2>3. nulls' = {q \in Input(t) : q > pos'} /\ \A q \in Input(t) : q <= pos'
    BY <1>0, <1>1, SharedAssumption DEF LockTwoPass, Bytes, Pos
  <2>4. Scratch(t)'
    BY <1>0, <1>1, <2>2, <2>3 DEF LockTwoPass, Scratch, Typed
  <2>5. Own(t)'
    BY <1>0, <1>1, <2>4 DEF LockTwoPass, Own, Locking, Locked, Capturing, Cached, Typed
  <2> QED
    BY <1>0, <1>1, <2>1, <2>5, OthersKept DEF LockTwoPass, Preserved, Typed, IInv
<1>2. CASE LockPrefix(t) /\ poisoned
  <2>1. Typed'
    <3>1. Ended("poisoned") \in Results
      BY EndedTyped DEF Status
    <3>2. result' = [result EXCEPT ![t] = Ended("poisoned")] /\ Done(t)
      BY <1>2 DEF LockPrefix
    <3> QED
      BY <1>0, <1>2, <3>1, <3>2 DEF Typed, LockPrefix
  <2>2. Own(t)'
    BY <1>0, <1>2, SharedAssumption
       DEF LockPrefix, Own, Locking, Locked, Capturing, Cached, Typed
  <2> QED
    BY <1>0, <1>2, <2>1, <2>2, OthersKept DEF LockPrefix, Preserved, Typed, IInv
<1>3. CASE LockPrefix(t) /\ ~poisoned
  <2>1. Typed'
    <3>1. /\ holder' = t /\ pc' = [pc EXCEPT ![t] = "prefix"]
          /\ matches' = <<>> /\ pos' = 0 /\ UNCHANGED <<call, result>>
      BY <1>3 DEF LockPrefix
    <3>2. matches' \in Seq(Pos) /\ pos' \in 0 .. MaxPos
      BY <3>1, AscendingEmpty, SharedAssumption
    <3>3. pc' \in [Thread -> Locked \cup {"idle", "lock", "scope", "extract"}]
      BY <1>0, <3>1 DEF Typed, Locked
    <3> QED
      BY <1>0, <1>3, <3>1, <3>2, <3>3 DEF Typed, LockPrefix
  <2>2. Input(t)' = Input(t)
    BY <1>3 DEF LockPrefix, Input
  <2>3. {q \in Input(t) : q <= pos'} = {}
    BY <1>0, <1>3 DEF LockPrefix, Bytes, Pos
  <2>4. Scratch(t)'
    BY <1>0, <1>3, <2>2, <2>3, AscendingEmpty DEF LockPrefix, Scratch, Typed
  <2>5. Own(t)'
    BY <1>0, <1>3, <2>4 DEF LockPrefix, Own, Locking, Locked, Capturing, Cached, Typed
  <2> QED
    BY <1>0, <1>3, <2>1, <2>5, OthersKept DEF LockPrefix, Preserved, Typed, IInv
<1>4. CASE LockFirst(t)
  <2>1. Typed'
    BY <1>0, <1>4 DEF Typed, LockFirst, Locked
  <2>2. Scratch(t)'
    BY <1>0, <1>4 DEF LockFirst, Scratch, Typed
  <2>3. Own(t)'
    BY <1>0, <1>4, <2>2 DEF LockFirst, Own, Locking, Locked, Capturing, Cached, Typed
  <2> QED
    BY <1>0, <1>4, <2>1, <2>3, OthersKept DEF LockFirst, Preserved, Typed, IInv
<1> QED
  BY <1>1, <1>2, <1>3, <1>4 DEF Lock
LEMMA CollectRevOwn ==
  ASSUME IInv, NEW t \in Thread, CollectRev(t)
  PROVE  Preserved(t)
<1> USE DEF inner
<1>0. /\ Typed /\ Own(t) /\ pc[t] = "rev" /\ holder = t /\ Scratch(t)
      /\ call[t] \in [op : Op, addr : Address] /\ Input(t) \in Bytes
      /\ pos \in Pos /\ pos - 1 \in 0 .. MaxPos
  BY Busy, SharedAssumption DEF IInv, Own, CollectRev, Typed, Locking, Locked, Pos
<1>1. nulls' = nulls \cup (Input(t) \cap {pos})
  BY <1>0 DEF CollectRev
<1>2. Typed'
  <2>1. nulls' \in Bytes
    BY <1>0, <1>1 DEF Typed, Bytes
  <2>2. pos' \in 0 .. MaxPos
    BY <1>0, SharedAssumption DEF CollectRev
  <2> QED
    BY <1>0, <2>1, <2>2 DEF Typed, CollectRev
<1>3. Input(t)' = Input(t)
  BY DEF CollectRev, Input
<1>4. \A q \in Input(t) : q \in Int /\ (q > pos - 1 <=> q > pos \/ q = pos)
  BY <1>0 DEF Bytes, Pos
<1>5. CASE call[t].op = "is_match"
  <2>1. nulls = {} /\ \A q \in Input(t) : q <= pos
    BY <1>0, <1>5 DEF Scratch, Pos
  <2>2. Scratch(t)'
    <3>1. CASE pos \in Input(t)
      <4>1. pos' = 0 /\ nulls' = {pos}
        BY <1>1, <1>5, <2>1, <3>1 DEF CollectRev
      <4> QED
        BY <1>0, <1>3, <1>5, <3>1, <4>1 DEF CollectRev, Scratch
    <3>2. CASE pos \notin Input(t)
      <4>1. pos' = pos - 1 /\ nulls' = {}
        BY <1>1, <2>1, <3>2 DEF CollectRev
      <4>2. \A q \in Input(t) : q <= pos - 1
        BY <1>0, <2>1, <3>2 DEF Bytes, Pos
      <4> QED
        BY <1>0, <1>3, <1>5, <4>1, <4>2 DEF CollectRev, Scratch
    <3> QED
      BY <3>1, <3>2
  <2> QED
    BY <1>0, <1>2, <2>2, OthersKept
       DEF CollectRev, Preserved, IInv, Own, Locking, Capturing, Cached
<1>6. CASE call[t].op # "is_match"
  <2>1. nulls = {q \in Input(t) : q > pos} /\ matches = <<>>
    BY <1>0, <1>6 DEF Scratch
  <2>2. pos' = pos - 1
    BY <1>6 DEF CollectRev
  <2>3. nulls' = {q \in Input(t) : q > pos'}
    BY <1>1, <1>4, <2>1, <2>2
  <2>4. Scratch(t)'
    BY <1>0, <1>3, <1>6, <2>1, <2>3 DEF CollectRev, Scratch
  <2> QED
    BY <1>0, <1>2, <2>4, OthersKept
       DEF CollectRev, Preserved, IInv, Own, Locking, Capturing, Cached
<1> QED
  BY <1>5, <1>6

(* The thread that has returned owns nothing.                              *)
LEMMA IdleOwn ==
  ASSUME Typed, NEW t \in Thread, Done(t), holder' # t
  PROVE  Own(t)'
  BY DEF Typed, Done, Go, Own, Locking, Locked, Capturing, Cached

LEMMA CollectRevDoneOwn ==
  ASSUME IInv, NEW t \in Thread, CollectRevDone(t)
  PROVE  Preserved(t)
<1> USE DEF inner
<1>0. /\ Typed /\ Own(t) /\ pc[t] = "rev" /\ pos = 0 /\ holder = t /\ Scratch(t)
      /\ call[t] \in [op : Op, addr : Address] /\ Input(t) \in Bytes
  BY Busy DEF IInv, Own, CollectRevDone, Typed, Locking, Locked
<1>1. CASE call[t].op = "is_match"
  <2>1. Return(t, Answer(nulls # {})) /\ holder' = Free
    BY <1>1 DEF CollectRevDone
  <2>2. Answer(nulls # {}) \in Results
    BY AnswerTyped
  <2>3. Typed'
    BY <1>0, <2>1, <2>2 DEF Typed, CollectRevDone, Return, Done, Go
  <2>4. Own(t)'
    BY <1>0, <2>1, SharedAssumption, IdleOwn DEF Return
  <2> QED
    BY <1>0, <2>1, <2>3, <2>4, OthersKept
       DEF CollectRevDone, Preserved, Return, Done, Go, Typed
<1>2. CASE call[t].op # "is_match"
  <2>1. pc' = [pc EXCEPT ![t] = "fwd"] /\ UNCHANGED <<holder, call, result>>
    BY <1>2 DEF CollectRevDone, Go
  <2>2. Typed'
    BY <1>0, <2>1 DEF Typed, CollectRevDone, Locked
  <2>3. Input(t)' = Input(t)
    BY <2>1 DEF CollectRevDone, Input
  <2>4. nulls = Input(t) /\ matches = <<>> /\ {q \in Input(t) : q <= pos} = {}
    <3>1. nulls = {q \in Input(t) : q > pos} /\ matches = <<>>
      BY <1>0, <1>2 DEF Scratch
    <3>2. \A q \in Input(t) : q > pos /\ ~(q <= pos)
      BY <1>0 DEF Bytes, Pos
    <3> QED
      BY <3>1, <3>2
  <2>5. Scratch(t)'
    <3>1. pos' = pos /\ nulls' = nulls /\ matches' = matches /\ twoPass' = twoPass
      BY DEF CollectRevDone
    <3>2. pc'[t] = "fwd" /\ call'[t] = call[t]
      BY <1>0, <2>1 DEF Typed
    <3>3. IsAscending(matches', {q \in Input(t)' : q <= pos'})
      BY <2>3, <2>4, <3>1, AscendingEmpty
    <3>4. twoPass
      BY <1>0 DEF Scratch
    <3> QED
      BY <1>2, <2>3, <2>4, <3>1, <3>2, <3>3, <3>4 DEF Scratch
  <2>6. Own(t)'
    BY <1>0, <2>1, <2>5
       DEF CollectRevDone, Own, Locking, Locked, Capturing, Cached, Typed
  <2> QED
    BY <1>0, <2>1, <2>2, <2>6, OthersKept DEF CollectRevDone, Preserved, Typed
<1> QED
  BY <1>1, <1>2

(* The matches are looked for among the starts of the input.               *)
LEMMA VerifyState ==
  ASSUME IInv, NEW t \in Thread, Verify(t)
  PROVE  /\ Typed /\ Own(t) /\ pc[t] \in {"fwd", "prefix"} /\ holder = t /\ Scratch(t)
         /\ call[t] \in [op : Op, addr : Address] /\ Input(t) \in Bytes
         /\ call[t].op # "is_match" /\ Starts(t) = Input(t)
         /\ IsAscending(matches, {q \in Input(t) : q <= pos})
         /\ Forward(t, Input(t)) \/ Copy(t, Input(t))
  BY Busy DEF IInv, Own, Verify, Locking, Locked, Scratch, Starts

LEMMA VerifyOwn ==
  ASSUME IInv, NEW t \in Thread, Verify(t)
  PROVE  Preserved(t)
<1> USE DEF inner
<1>0. /\ Typed /\ Own(t) /\ pc[t] \in {"fwd", "prefix"} /\ holder = t /\ Scratch(t)
      /\ call[t] \in [op : Op, addr : Address] /\ Input(t) \in Bytes
      /\ call[t].op # "is_match"
      /\ IsAscending(matches, {q \in Input(t) : q <= pos})
  BY VerifyState
<1>1. CASE Forward(t, Input(t))
  <2>1. PICK p \in Input(t) : /\ p > pos /\ \A q \in Input(t) : q > pos => p <= q
                             /\ matches' = Append(matches, p) /\ pos' = p
    BY <1>1 DEF Forward
  <2>2. p \in Pos /\ pos \in Int /\ \A q \in Input(t) : q \in Int
    BY <1>0 DEF Bytes, Pos, Typed
  <2>3. {q \in Input(t) : q <= pos} \cup {p} = {q \in Input(t) : q <= p}
    <3>1. \A q \in Input(t) : q <= p <=> q <= pos \/ q = p
      BY <2>1, <2>2 DEF Pos
    <3> QED
      BY <3>1
  <2>4. matches' \in Seq(Pos) /\ IsAscending(matches', {q \in Input(t) : q <= pos'})
    <3>1. \A q \in {q \in Input(t) : q <= pos} : q < p
      BY <2>1, <2>2 DEF Pos
    <3>2. matches \in Seq(Pos)
      BY <1>0 DEF Typed
    <3> QED
      BY <1>0, <2>1, <2>2, <2>3, <3>1, <3>2, AscendingAppend
  <2>5. Typed'
    BY <1>0, <1>1, <2>1, <2>2, <2>4 DEF Typed, Forward, Pos
  <2>6. Input(t)' = Input(t)
    BY <1>1 DEF Forward, Input
  <2>7. Scratch(t)'
    BY <1>0, <1>1, <2>4, <2>6 DEF Forward, Scratch
  <2> QED
    BY <1>0, <1>1, <2>5, <2>7, OthersKept
       DEF Forward, Preserved, Own, Locking, Capturing, Cached
<1>2. CASE Copy(t, Input(t))
  <2>0. matches \in Seq(Pos) /\ IsAscending(matches, Input(t))
    <3>1. {q \in Input(t) : q <= pos} = Input(t)
      BY <1>2 DEF Copy
    <3> QED
      BY <1>0, <3>1 DEF Typed
  <2>1. CASE call[t].op = "find_all"
    <3>1. Return(t, Matches(matches)) /\ UNCHANGED found /\ holder' = Free
      BY <1>2, <2>1 DEF Copy
    <3>2. Matches(matches) \in Results
      BY <2>0, MatchesTyped
    <3>3. Typed'
      BY <1>0, <1>2, <3>1, <3>2 DEF Typed, Copy, Return, Done, Go
    <3>4. Own(t)'
      BY <1>0, <3>1, SharedAssumption, IdleOwn DEF Return
    <3> QED
      BY <1>0, <1>2, <3>1, <3>3, <3>4, OthersKept
         DEF Copy, Preserved, Return, Done, Go, Typed
  <2>2. CASE call[t].op # "find_all"
    <3>1. /\ call[t].op = "captures_all" /\ found' = [found EXCEPT ![t] = matches]
          /\ pc' = [pc EXCEPT ![t] = "scope"] /\ UNCHANGED <<call, result>>
          /\ holder' = Free
      BY <1>2, <2>2 DEF Copy, Go
    <3>2. Typed'
      BY <1>0, <1>2, <2>0, <3>1 DEF Typed, Copy, Locked
    <3>3. Input(t)' = Input(t)
      BY <1>2, <3>1 DEF Copy, Input
    <3>4. Own(t)'
      BY <1>0, <2>0, <3>1, <3>3, SharedAssumption
         DEF Own, Locking, Locked, Capturing, Cached, Typed
    <3> QED
      BY <1>0, <1>2, <3>1, <3>2, <3>4, OthersKept DEF Copy, Preserved, Typed
  <2> QED
    BY <2>1, <2>2
<1> QED
  BY <1>1, <1>2, VerifyState

LEMMA FindFirstOwn ==
  ASSUME IInv, NEW t \in Thread, FindFirst(t)
  PROVE  Preserved(t)
<1> USE DEF inner
<1>0. Typed /\ Own(t) /\ pc[t] = "any" /\ holder = t
  BY DEF IInv, Own, FindFirst, Locking, Locked
<1>1. Return(t, Answer(Input(t) # {})) /\ holder' = Free
  BY DEF FindFirst
<1>2. Answer(Input(t) # {}) \in Results
  BY AnswerTyped
<1>3. Typed'
  BY <1>0, <1>1, <1>2 DEF Typed, FindFirst, Return, Done, Go
<1>4. Own(t)'
  BY <1>0, <1>1, SharedAssumption, IdleOwn DEF Return
<1> QED
  BY <1>0, <1>1, <1>3, <1>4, OthersKept DEF FindFirst, Preserved, Return, Done, Go, Typed
LEMMA BeginInputOwn ==
  ASSUME IInv, NEW t \in Thread, BeginInput(t)
  PROVE  Preserved(t)
<1> USE DEF inner, Go
<1>0. /\ Typed /\ Own(t) /\ pc[t] = "scope" /\ holder = Free /\ holder # t
      /\ call[t] \in [op : Op, addr : Address] /\ Input(t) \in Bytes
      /\ IsAscending(found[t], Input(t)) /\ found[t] \in Seq(Pos)
  BY Busy, SharedAssumption DEF IInv, Own, BeginInput, Typed, Capturing
<1>1. Typed'
  <2>1. Matches(<<>>) \in Results
    BY MatchesTyped, AscendingEmpty
  <2> QED
    BY <1>0, <2>1 DEF Typed, BeginInput
<1>2. Input(t)' = Input(t)
  BY DEF BeginInput, Input
<1>3. Parsed(t)'
  <2>1. result'[t] = Matches(<<>>) /\ found'[t] = found[t]
    BY <1>0 DEF BeginInput, Typed
  <2>2. result'[t].status = "ok" /\ result'[t].at = <<>> /\ result'[t].on = <<>>
    BY <2>1 DEF Matches
  <2>3. <<>> = [i \in DOMAIN <<>> |-> Input(t)]
    OBVIOUS
  <2>4. Elems(found[t]) = Input(t)
    BY <1>0 DEF IsAscending, Elems
  <2> QED
    BY <1>0, <1>2, <2>1, <2>2, <2>3, <2>4, AscendingEmpty DEF Parsed
<1>4. Own(t)'
  BY <1>0, <1>3 DEF BeginInput, Own, Locking, Locked, Capturing, Cached, Typed
<1>5. ASSUME NEW u \in Thread \ {t}
      PROVE  Untouched(u) /\ Cached(u)'
  BY DEF BeginInput, Untouched, Cached, IInv, Typed
<1> QED
  BY <1>1, <1>4, <1>5 DEF Preserved

(* The cache is filled with the bytes of the input its address stands for. *)
LEMMA FilledCached ==
  ASSUME IInv, NEW t \in Thread, pc[t] = "extract", scope = call[t].addr,
         found[t] # <<>>
  PROVE  /\ Head(found[t]) \in Pos
         /\ ParsedOn(t) = Input(t) /\ Filled(t) \in [Pos -> Bytes \cup {NoEntry}]
         /\ \A u \in Thread : pc[u] = "extract" /\ scope = call[u].addr =>
              \A k \in Pos : Filled(t)[k] \in {NoEntry, Input(u)}
<1>0. /\ Typed /\ Own(t) /\ Input(t) \in Bytes /\ found[t] \in Seq(Pos)
      /\ Head(found[t]) \in Pos
  BY Busy DEF IInv, Own, Typed
<1>1. ParsedOn(t) = Input(t)
  BY <1>0 DEF Own, Cached, ParsedOn
<1>2. Filled(t) = [cache EXCEPT ![Head(found[t])] = Input(t)]
  BY <1>1 DEF Filled
<1>3. ASSUME NEW u \in Thread, pc[u] = "extract", scope = call[u].addr, NEW k \in Pos
      PROVE  Filled(t)[k] \in {NoEntry, Input(u)}
  <2>1. Input(u) = Input(t)
    BY <1>3 DEF Input
  <2>2. cache[k] \in {NoEntry, Input(u)}
    BY <1>3 DEF IInv, Own, Cached
  <2> QED
    BY <1>0, <1>2, <2>1, <2>2 DEF Typed
<1> QED
  BY <1>0, <1>1, <1>2, <1>3 DEF Typed

LEMMA ExtractState ==
  ASSUME IInv, NEW t \in Thread, pc[t] = "extract"
  PROVE  /\ Typed /\ Own(t) /\ Parsed(t) /\ Cached(t) /\ holder # t
         /\ call[t] \in [op : Op, addr : Address] /\ Input(t) \in Bytes
         /\ found[t] \in Seq(Pos) /\ result[t] \in Results
         /\ call[t].op = "captures_all"
  BY Busy DEF IInv, Own, Typed, Capturing, Locking, Locked

LEMMA ExtractOneParsed ==
  ASSUME IInv, NEW t \in Thread, Extract(t), scope = call[t].addr
  PROVE  /\ Parsed(t)'
         /\ found'[t] \in Seq(Pos) /\ result'[t] \in Results
<1> DEFINE p   == Head(found[t])
           at  == result[t].at
           fs  == Elems(found[t])
<1>0. /\ Typed /\ Parsed(t) /\ found[t] \in Seq(Pos) /\ found[t] # <<>>
      /\ result[t] \in Results /\ Input(t) \in Bytes
      /\ at \in Seq(Pos) /\ result[t].on \in Seq(Bytes)
  BY ExtractState DEF Extract, Results
<1>1. /\ p \in Pos /\ ParsedOn(t) = Input(t)
  BY <1>0, FilledCached DEF Extract
<1>2. /\ result'[t] = [result[t] EXCEPT !.at = Append(at, p), !.on = Append(@, Input(t))]
      /\ found'[t] = Tail(found[t]) /\ Input(t)' = Input(t)
  BY <1>0, <1>1 DEF Extract, Typed, Input
<1>3. /\ result'[t].status = "ok" /\ result'[t].at = Append(at, p)
      /\ result'[t].on = Append(result[t].on, Input(t))
      /\ result'[t] \in Results
  <2>1. Append(at, p) \in Seq(Pos) /\ Append(result[t].on, Input(t)) \in Seq(Bytes)
    BY <1>0, <1>1
  <2>2. result[t].status = "ok"
    BY <1>0 DEF Parsed
  <2> QED
    BY <1>0, <1>2, <2>1, <2>2 DEF Results
<1>4. /\ p \in fs /\ Tail(found[t]) \in Seq(Pos)
      /\ IsAscending(Tail(found[t]), fs \ {p})
      /\ \A q \in fs \ {p} : p < q
  BY <1>0, AscendingTail DEF Parsed
<1>5. IsAscending(Append(at, p), Elems(at) \cup {p})
  BY <1>0, <1>1, <1>4, AscendingAppend DEF Parsed
<1>6. /\ Elems(Append(at, p)) = Elems(at) \cup {p}
      /\ Elems(Tail(found[t])) = fs \ {p}
  BY <1>4, <1>5 DEF IsAscending, Elems
<1>7. Append(result[t].on, Input(t)) = [i \in DOMAIN Append(at, p) |-> Input(t)]
  <2>1. result[t].on = [i \in DOMAIN at |-> Input(t)]
    BY <1>0 DEF Parsed
  <2>2. Len(result[t].on) = Len(at)
    BY <1>0, <2>1
  <2> QED
    BY <1>0, <1>1, <2>1, <2>2
<1>8. \A r \in Elems(at) \cup {p}, q \in fs \ {p} : r < q
  BY <1>0, <1>4 DEF Parsed
<1>9. Input(t) = (Elems(at) \cup {p}) \cup (fs \ {p})
  BY <1>0, <1>4 DEF Parsed
<1> QED
  BY <1>2, <1>3, <1>4, <1>5, <1>6, <1>7, <1>8, <1>9 DEF Parsed

LEMMA ExtractOwn ==
  ASSUME IInv, NEW t \in Thread, Extract(t)
  PROVE  Preserved(t)
<1>0. /\ pc[t] = "extract" /\ Typed /\ Own(t) /\ holder # t /\ holder = Free
      /\ found[t] \in Seq(Pos) /\ found[t] # <<>>
      /\ call[t] \in [op : Op, addr : Address] /\ call[t].op = "captures_all"
  BY ExtractState DEF Extract
<1>1. CASE scope # call[t].addr
  <2>1. /\ Return(t, Ended("outside_scope")) /\ found' = [found EXCEPT ![t] = <<>>]
        /\ cache' = cache
    BY <1>1 DEF Extract
  <2>2. Ended("outside_scope") \in Results
    BY EndedTyped DEF Status
  <2>3. Typed'
    BY <1>0, <2>1, <2>2, AscendingEmpty DEF Typed, Extract, Return, Done, Go
  <2>4. Own(t)'
    BY <1>0, <2>1, IdleOwn DEF Return, Extract
  <2> QED
    BY <1>0, <2>1, <2>3, <2>4, OthersKept
       DEF Extract, Preserved, Return, Done, Go, Typed
<1>2. CASE scope = call[t].addr
  <2>1. cache' = Filled(t) /\ UNCHANGED <<pc, call>>
    BY <1>2 DEF Extract
  <2>2. /\ result' = [result EXCEPT ![t] = result'[t]]
        /\ found' = [found EXCEPT ![t] = found'[t]]
    BY <1>0, <1>2 DEF Extract, Typed
  <2>3. Parsed(t)' /\ found'[t] \in Seq(Pos) /\ result'[t] \in Results
    BY <1>2, ExtractOneParsed
  <2>4. Typed'
    BY <1>0, <1>2, <2>1, <2>2, <2>3, FilledCached DEF Typed, Extract
  <2>5. ASSUME NEW u \in Thread
        PROVE  Cached(u)'
    <3>1. scope' = scope /\ Input(u)' = Input(u)
      BY <2>1 DEF Extract, Input
    <3> QED
      BY <1>0, <1>2, <2>1, <3>1, FilledCached DEF Cached
  <2>6. Own(t)'
    BY <1>0, <2>1, <2>3, <2>5 DEF Extract, Own, Locking, Locked, Capturing
  <2>7. ASSUME NEW u \in Thread \ {t}
        PROVE  Untouched(u)
    BY <2>1, <2>2 DEF Extract, Untouched, IInv, Typed
  <2> QED
    BY <2>4, <2>5, <2>6, <2>7 DEF Preserved
<1> QED
  BY <1>1, <1>2

LEMMA ExtractDoneOwn ==
  ASSUME IInv, NEW t \in Thread, ExtractDone(t)
  PROVE  Preserved(t)
<1> USE DEF inner
<1>0. Typed /\ Own(t) /\ pc[t] = "extract" /\ holder # t
  BY ExtractState DEF ExtractDone
<1>1. Typed'
  BY <1>0 DEF Typed, ExtractDone, Done, Go
<1>2. Own(t)'
  BY <1>0, IdleOwn DEF ExtractDone
<1>3. ASSUME NEW u \in Thread \ {t}
      PROVE  Untouched(u) /\ Cached(u)'
  <2>1. Untouched(u)
    BY DEF ExtractDone, Untouched, Done, Go, IInv, Typed
  <2> QED
    BY <2>1, CacheKept DEF ExtractDone, IInv
<1> QED
  BY <1>1, <1>2, <1>3 DEF Preserved

LEMMA FailsOwn ==
  ASSUME IInv, NEW t \in Thread, Fails(t)
  PROVE  Preserved(t)
<1>0. /\ Typed /\ holder' = Free /\ Done(t) /\ holder \in {t, Free}
      /\ found' = [found EXCEPT ![t] = <<>>]
      /\ UNCHANGED <<twoPass, mem, nulls, matches, pos, scope, calls>>
  BY DEF IInv, Fails, Return
<1>1. PICK how \in {"err", "panic"} : /\ result' = [result EXCEPT ![t] = Ended(how)]
                                     /\ poisoned' \in BOOLEAN
  BY <1>0 DEF Fails, Return, Typed
<1>2. \/ cache' = cache
      \/ /\ pc[t] = "extract" /\ scope = call[t].addr /\ found[t] # <<>>
         /\ cache' = Filled(t)
  BY DEF Fails
<1>3. Typed'
  <2>1. Ended(how) \in Results
    BY EndedTyped DEF Status
  <2>2. cache' \in [Pos -> Bytes \cup {NoEntry}]
    BY <1>0, <1>2, FilledCached DEF Typed
  <2> QED
    BY <1>0, <1>1, <2>1, <2>2, AscendingEmpty DEF Typed, Done, Go
<1>4. Own(t)'
  BY <1>0, SharedAssumption, IdleOwn
<1>5. ASSUME NEW u \in Thread \ {t}
      PROVE  Untouched(u) /\ Cached(u)'
  <2>1. Untouched(u)
    BY <1>0, <1>1, SharedAssumption DEF Untouched, Done, Go, Typed
  <2>2. CASE cache' = cache
    BY <1>0, <2>1, <2>2, CacheKept DEF IInv
  <2>3. CASE cache' # cache
    <3>1. /\ scope' = scope /\ pc'[u] = pc[u] /\ call'[u] = call[u]
          /\ Input(u)' = Input(u)
      BY <1>0, <2>1 DEF Untouched, Input
    <3> QED
      BY <1>2, <2>1, <2>3, <3>1, FilledCached DEF Cached
  <2> QED
    BY <2>1, <2>2, <2>3
<1> QED
  BY <1>3, <1>4, <1>5 DEF Preserved
LEMMA StepOwn ==
  ASSUME IInv, NEW t \in Thread, Step(t) \/ Fails(t)
  PROVE  Preserved(t)
  BY LockOwn, CollectRevOwn, CollectRevDoneOwn, VerifyOwn, FindFirstOwn, BeginInputOwn,
     ExtractOwn, ExtractDoneOwn, FailsOwn DEF Step

-----------------------------------------------------------------------------
(* IInv holds at first and every step preserves it.                        *)
LEMMA Initially == Init => IInv
<1> SUFFICES ASSUME Init PROVE IInv
  OBVIOUS
<1>1. Typed
  <2>1. NoResult \in Results
    BY EndedTyped DEF NoResult, Status
  <2>2. {} \in Bytes /\ 0 \in 0 .. MaxPos /\ 0 \in 0 .. MaxCalls
    BY SharedAssumption DEF Bytes
  <2> QED
    BY <2>1, <2>2, AscendingEmpty DEF Init, Typed
<1>2. ASSUME NEW t \in Thread
      PROVE  Own(t)
  BY SharedAssumption DEF Init, Own, Locking, Locked, Capturing, Cached
<1> QED
  BY <1>1, <1>2 DEF IInv

LEMMA Inductive == IInv /\ [Next]_vars => IInv'
<1> SUFFICES ASSUME IInv, [Next]_vars PROVE IInv'
  OBVIOUS
<1>1. ASSUME NEW a \in Address, Rewrite(a)
      PROVE  IInv'
  BY <1>1, RewriteOwn
<1>2. ASSUME NEW t \in Thread, NEW a \in Address, NEW op \in Op, Call(t, op, a)
      PROVE  IInv'
  BY <1>2, CallOwn, PreservedAll
<1>3. ASSUME NEW t \in Thread, Step(t) \/ Fails(t)
      PROVE  IInv'
  BY <1>3, StepOwn, PreservedAll
<1>4. CASE UNCHANGED vars
  <2>1. Typed'
    BY <1>4 DEF vars, inner, IInv, Typed
  <2>2. \A t \in Thread : Untouched(t) /\ cache' = cache /\ scope' = scope
    BY <1>4 DEF vars, inner, Untouched
  <2> QED
    BY <2>1, <2>2, CacheKept, UntouchedOwn DEF IInv
<1> QED
  BY <1>1, <1>2, <1>3, <1>4 DEF Next, Op

LEMMA Invariant == Spec => []IInv
  BY Initially, Inductive, PTL DEF Spec

LEMMA InvariantTypeOK == IInv => TypeOK
<1> SUFFICES ASSUME IInv PROVE TypeOK
  OBVIOUS
<1>1. ASSUME NEW t \in Thread
      PROVE  /\ pc[t] \in {"idle", "lock", "rev", "fwd", "prefix", "any", "scope",
                          "extract"}
             /\ pc[t] \in {"rev", "fwd", "prefix", "any"} <=> holder = t
             /\ IF pc[t] = "idle" THEN call[t] = NoCall
                ELSE call[t] \in [op : {"find_all", "is_match", "captures_all"},
                                  addr : Address]
             /\ found[t] \in Seq(Pos)
             /\ result[t].status \in Status
  BY DEF IInv, Typed, Own, Locking, Locked, Op, Results
<1> QED
  BY <1>1 DEF TypeOK, IInv, Typed

(* A call that answers does so in one of these steps of its own thread.    *)
LEMMA Answering ==
  ASSUME IInv, Next, NEW t \in Thread, call[t].op \in Op, pc'[t] = "idle",
         result'[t].status \in {"ok", "true", "false"}
  PROVE  \/ CollectRevDone(t) /\ call[t].op = "is_match"
         \/ Verify(t) /\ call[t].op = "find_all" /\ Copy(t, Input(t))
         \/ FindFirst(t)
         \/ ExtractDone(t)
<1>0. Typed /\ pc[t] # "idle"
  BY DEF IInv, Own, Locking, NoCall, Op
<1>1. PICK u \in Thread : Step(u) \/ Fails(u)
  <2>1. ASSUME NEW a \in Address, Rewrite(a) PROVE FALSE
    BY <1>0, <2>1 DEF Rewrite
  <2>2. ASSUME NEW u \in Thread, NEW a \in Address, NEW op \in Op, Call(u, op, a)
        PROVE  FALSE
    BY <1>0, <2>2 DEF Call, Typed
  <2> QED
    BY <2>1, <2>2 DEF Next, Op
<1>2. u = t
  BY <1>0, <1>1, StepOwn DEF Preserved, Untouched
<1>3. ~Lock(t)
  <2>1. ~LockTwoPass(t) /\ ~LockFirst(t)
    BY <1>0 DEF LockTwoPass, LockFirst, Typed, Go
  <2>2. ~LockPrefix(t)
    BY <1>0 DEF LockPrefix, Typed, Go, Return, Done, Ended
  <2> QED
    BY <2>1, <2>2 DEF Lock
<1>4. ~CollectRev(t) /\ ~BeginInput(t)
  BY <1>0 DEF CollectRev, BeginInput, Typed, Go
<1>5. ~Extract(t)
  <2>1. ~Return(t, Ended("outside_scope"))
    BY <1>0 DEF Typed, Return, Ended
  <2>2. ~UNCHANGED <<pc, call>>
    BY <1>0
  <2> QED
    BY <2>1, <2>2 DEF Extract
<1>6. ~Fails(t)
  BY <1>0 DEF Fails, Typed, Return, Ended
<1>7. CASE CollectRevDone(t)
  BY <1>0, <1>7 DEF CollectRevDone, Go, Typed
<1>8. CASE Verify(t)
  BY <1>0, <1>8, VerifyState DEF Forward, Copy, Go, Typed
<1> QED
  BY <1>1, <1>2, <1>3, <1>4, <1>5, <1>6, <1>7, <1>8 DEF Step

LEMMA AnswersOwnMatches == IInv /\ [Next]_vars => [OwnMatchesStep]_vars
<1> SUFFICES ASSUME IInv, Next, NEW t \in Thread
             PROVE  /\ Answers(t, "find_all") => IsAscending(result'[t].at, Input(t))
                    /\ Answers(t, "is_match") => result'[t] = Answer(Input(t) # {})
  BY DEF OwnMatchesStep
<1>0. Typed /\ Own(t)
  BY DEF IInv
<1>1. ASSUME Answers(t, "find_all")
      PROVE  IsAscending(result'[t].at, Input(t))
  <2>1. Verify(t) /\ Copy(t, Input(t)) /\ call[t].op = "find_all"
    <3>1. pc[t] = "any" => call[t].op = "is_match"
      BY <1>0 DEF Own, Scratch, Locking, Locked
    <3>2. pc[t] = "extract" => call[t].op = "captures_all"
      BY ExtractState
    <3> QED
      BY <1>1, <3>1, <3>2, Answering DEF Answers, Op, FindFirst, ExtractDone
  <2>2. result'[t].at = matches
    BY <1>0, <2>1 DEF Copy, Return, Matches, Typed
  <2>3. {q \in Input(t) : q <= pos} = Input(t)
    BY <2>1 DEF Copy
  <2> QED
    BY <2>1, <2>2, <2>3, VerifyState
<1>2. ASSUME Answers(t, "is_match")
      PROVE  result'[t] = Answer(Input(t) # {})
  <2>1. CollectRevDone(t) \/ FindFirst(t)
    <3>1. pc[t] = "extract" => call[t].op = "captures_all"
      BY ExtractState
    <3> QED
      BY <1>2, <3>1, Answering DEF Answers, Op, ExtractDone
  <2>2. CASE CollectRevDone(t)
    <3>1. result'[t] = Answer(nulls # {}) /\ pc[t] = "rev" /\ pos = 0
      BY <1>0, <1>2, <2>2 DEF CollectRevDone, Return, Answers, Typed
    <3>2. Scratch(t) /\ call[t].op = "is_match" /\ Input(t) \in Bytes
      BY <1>0, <1>2, <3>1, Busy DEF Own, Locking, Locked, Answers
    <3>3. nulls # {} <=> Input(t) # {}
      BY <3>1, <3>2 DEF Scratch, Bytes, Pos
    <3> QED
      BY <3>1, <3>3
  <2>3. CASE FindFirst(t)
    BY <1>0, <2>3 DEF FindFirst, Return, Typed
  <2> QED
    BY <2>1, <2>2, <2>3
<1> QED
  BY <1>1, <1>2

LEMMA AnswersOwnCaptures == IInv /\ [Next]_vars => [OwnCapturesStep]_vars
<1> SUFFICES ASSUME IInv, Next, NEW t \in Thread, Answers(t, "captures_all")
             PROVE  /\ IsAscending(result'[t].at, Input(t))
                    /\ result'[t].on = [i \in DOMAIN result'[t].at |-> Input(t)]
  BY DEF OwnCapturesStep
<1>1. ExtractDone(t)
  <2>1. pc[t] = "any" => call[t].op = "is_match"
    BY DEF IInv, Own, Scratch, Locking, Locked
  <2> QED
    BY <2>1, Answering DEF Answers, Op, FindFirst
<1>2. Parsed(t) /\ result' = result /\ found[t] = <<>>
  BY <1>1, ExtractState DEF ExtractDone
<1>3. Elems(result[t].at) = Input(t)
  BY <1>2, AscendingEmpty DEF Parsed
<1> QED
  BY <1>2, <1>3 DEF Parsed

-----------------------------------------------------------------------------
(* The variables keep their types, and who is in a critical section holds  *)
(* the mutex.                                                              *)
THEOREM SharedTypeOK == Spec => []TypeOK
  BY Invariant, InvariantTypeOK, PTL

(* find_all and is_match answer for their own input, whatever the other    *)
(* threads do and whatever failed or panicked before.                      *)
THEOREM SharedOwnMatches == Spec => OwnMatches
  BY Invariant, AnswersOwnMatches, PTL DEF Spec, OwnMatches

(* captures_all, when it succeeds, has every match of its own input, each  *)
(* parsed on its own bytes, although it lets go of the mutex in between    *)
(* and the parser keeps a cache by address.                                *)
THEOREM SharedOwnCaptures == Spec => OwnCaptures
  BY Invariant, AnswersOwnCaptures, PTL DEF Spec, OwnCaptures
=============================================================================
