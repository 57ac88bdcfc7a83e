----------------------------- MODULE RegexShared -----------------------------
(***************************************************************************)
(* One Regex used by several threads (resharp-engine, lib.rs).  Everything *)
(* a call changes is in RegexInner, behind one Mutex: the scratch buffers  *)
(* nulls and matches, which a call clears, fills and copies its answer     *)
(* from, and the capture parser with its caches.  find_all and is_match    *)
(* hold the lock once; captures_all takes it for the matches, again to     *)
(* declare its input, and again for every match.  A call may fail half way *)
(* (capacity) or panic, in which case the caller catches the panic and the *)
(* Mutex stays poisoned: some paths recover from that, others unwrap.      *)
(*                                                                         *)
(* An input is a slice: an address, and bytes that may change between      *)
(* calls but not while a call borrows them.  Of the bytes the model keeps  *)
(* the positions at which a match starts; matches do not overlap.          *)
(***************************************************************************)
EXTENDS Integers, Sequences

CONSTANTS
  Thread,
  Address,          \* where inputs live
  MaxPos,           \* inputs have the positions 1 .. MaxPos
  MaxCalls,         \* a bound on the calls of all threads
  Free              \* the holder of the mutex when there is none, not a thread

ASSUME SharedAssumption ==
  /\ MaxPos \in Nat /\ MaxCalls \in Nat
  /\ Free \notin Thread /\ Free \notin Address

VARIABLES
  twoPass,          \* FindAll::Dfa or Hardened, or else FwdPrefix
  mem,              \* the match starts of the bytes at an address
  holder,           \* who holds the mutex
  poisoned,         \* Mutex::is_poisoned
  nulls,            \* RegexInner::nulls, a set of positions
  matches,          \* RegexInner::matches
  pos,              \* where the scan of the holder is
  scope,            \* input_scope of the capture parser, Free for None
  cache,            \* rev_starts: for an end, the bytes it was computed on
  pc,               \* where each thread is
  call,             \* its operation and the address of its input
  found,            \* captures_all: the matches still to be parsed
  result,           \* what its last call returned
  calls             \* the number of calls made

inner  == <<nulls, matches, pos, scope, cache>>
vars   == <<twoPass, mem, holder, poisoned, inner, pc, call, found, result, calls>>

Pos   == 1 .. MaxPos
Bytes == SUBSET Pos
NoEntry == {0}      \* no set of positions

Input(t)  == mem[call[t].addr]
IsAscending(s, S) ==
  /\ {s[i] : i \in DOMAIN s} = S
  /\ \A i, j \in DOMAIN s : i < j => s[i] < s[j]

NoCall   == [op |-> "none", addr |-> Free]
(* A result: how the call ended, the starts of its matches and, for the    *)
(* captures, the bytes that the groups of each were computed on.           *)
Ended(how) == [status |-> how, at |-> <<>>, on |-> <<>>]
Matches(m) == [status |-> "ok", at |-> m, on |-> <<>>]
Answer(b)  == Ended(IF b THEN "true" ELSE "false")
NoResult   == Ended("none")

-----------------------------------------------------------------------------
Init ==
  /\ twoPass \in BOOLEAN
  /\ mem \in [Address -> Bytes]
  /\ holder = Free /\ poisoned = FALSE
  /\ nulls = {} /\ matches = <<>> /\ pos = 0
  /\ scope = Free /\ cache = [k \in Pos |-> NoEntry]
  /\ pc = [t \in Thread |-> "idle"]
  /\ call = [t \in Thread |-> NoCall]
  /\ found = [t \in Thread |-> <<>>]
  /\ result = [t \in Thread |-> NoResult]
  /\ calls = 0

Borrowed(a) == \E t \in Thread : call[t].addr = a

(* The owner of a buffer that is not borrowed writes to it, or frees it    *)
(* and another buffer comes to lie at its address.                         *)
Rewrite(a) ==
  /\ ~Borrowed(a)
  /\ \E b \in Bytes : mem' = [mem EXCEPT ![a] = b]
  /\ UNCHANGED <<twoPass, holder, poisoned, inner, pc, call, calls, found, result>>

Call(t, op, a) ==
  /\ pc[t] = "idle" /\ calls < MaxCalls
  /\ pc' = [pc EXCEPT ![t] = "lock"]
  /\ call' = [call EXCEPT ![t] = [op |-> op, addr |-> a]]
  /\ calls' = calls + 1
  /\ result' = [result EXCEPT ![t] = NoResult]
  /\ UNCHANGED <<twoPass, mem, holder, poisoned, inner, found>>

Go(t, where)  == pc' = [pc EXCEPT ![t] = where]
Done(t)       == Go(t, "idle") /\ call' = [call EXCEPT ![t] = NoCall]
Return(t, r)  == Done(t) /\ result' = [result EXCEPT ![t] = r]

-----------------------------------------------------------------------------
(* As a bug would have it: the starts an earlier call left are kept.       *)
LockStale(t) ==
  /\ pc[t] = "lock" /\ holder = Free /\ twoPass
  /\ holder' = t /\ Go(t, "rev")
  /\ matches' = IF call[t].op = "is_match" THEN matches ELSE <<>>
  /\ pos' = MaxPos
  /\ UNCHANGED <<twoPass, mem, poisoned, nulls, scope, cache, call, calls, found,
                 result>>

(* find_all_dfa_inner and is_match_dfa: lock, whether poisoned or not, and *)
(* clear what an earlier call may have left.                               *)
LockTwoPass(t) ==
  /\ pc[t] = "lock" /\ holder = Free /\ twoPass
  /\ holder' = t /\ Go(t, "rev")
  /\ nulls' = {}
  /\ matches' = IF call[t].op = "is_match" THEN matches ELSE <<>>
  /\ pos' = MaxPos
  /\ UNCHANGED <<twoPass, mem, poisoned, scope, cache, call, calls, found, result>>

(* find_all_fwd_prefix: `lock().unwrap()` panics on a poisoned mutex.      *)
LockPrefix(t) ==
  /\ pc[t] = "lock" /\ holder = Free /\ ~twoPass /\ call[t].op # "is_match"
  /\ \/ /\ poisoned
        /\ Return(t, Ended("poisoned"))
        /\ UNCHANGED <<holder, matches, pos>>
     \/ /\ ~poisoned
        /\ holder' = t /\ Go(t, "prefix")
        /\ matches' = <<>> /\ pos' = 0
        /\ UNCHANGED <<call, result>>
  /\ UNCHANGED <<twoPass, mem, poisoned, nulls, scope, cache, found, calls>>

(* is_match_fwd_ts locks whether poisoned or not and uses no scratch.      *)
LockFirst(t) ==
  /\ pc[t] = "lock" /\ holder = Free /\ ~twoPass /\ call[t].op = "is_match"
  /\ holder' = t /\ Go(t, "any")
  /\ UNCHANGED <<twoPass, mem, poisoned, inner, call, calls, found, result>>

Lock(t) == LockTwoPass(t) \/ LockPrefix(t) \/ LockFirst(t)

(* As a bug would have it: positions without a match are not passed over.  *)
CollectRevStuck(t) ==
  /\ pc[t] = "rev" /\ pos > 0
  /\ pos \in Input(t) /\ nulls' = nulls \cup {pos}
  /\ pos' = IF call[t].op = "is_match" THEN 0 ELSE pos - 1
  /\ UNCHANGED <<twoPass, mem, holder, poisoned, matches, scope, cache, pc, call,
                 calls, found, result>>

(* The reverse pass, one position; for is_match it stops at the first.     *)
CollectRev(t) ==
  /\ pc[t] = "rev" /\ pos > 0
  /\ \/ pos \in Input(t) /\ nulls' = nulls \cup {pos}
     \/ pos \notin Input(t) /\ UNCHANGED nulls
  /\ pos' = IF call[t].op = "is_match" /\ pos \in Input(t) THEN 0 ELSE pos - 1
  /\ UNCHANGED <<twoPass, mem, holder, poisoned, matches, scope, cache, pc, call,
                 calls, found, result>>

CollectRevDone(t) ==
  /\ pc[t] = "rev" /\ pos = 0
  /\ \/ /\ call[t].op = "is_match"
        /\ Return(t, Answer(nulls # {}))
        /\ holder' = Free
     \/ /\ call[t].op # "is_match"
        /\ Go(t, "fwd")
        /\ UNCHANGED <<holder, call, result>>
  /\ UNCHANGED <<twoPass, mem, poisoned, inner, found, calls>>

(* The next match after pos: of the starts collected, or of the input.     *)
Forward(t, starts) ==
  /\ \E p \in starts :
       /\ p > pos /\ \A q \in starts : q > pos => p <= q
       /\ matches' = Append(matches, p)
       /\ pos' = p
  /\ UNCHANGED <<twoPass, mem, holder, poisoned, nulls, scope, cache, pc, call,
                 calls, found, result>>

(* The answer is a copy of the matches; captures_all goes on with it.      *)
Copy(t, starts) ==
  /\ \A p \in starts : p <= pos
  /\ holder' = Free
  /\ \/ call[t].op = "find_all" /\ Return(t, Matches(matches)) /\ UNCHANGED found
     \/ /\ call[t].op = "captures_all"
        /\ found' = [found EXCEPT ![t] = matches]
        /\ Go(t, "scope")
        /\ UNCHANGED <<call, result>>
  /\ UNCHANGED <<twoPass, mem, poisoned, inner, calls>>

Starts(t) == IF twoPass THEN nulls ELSE Input(t)

Verify(t) ==
  /\ pc[t] \in {"fwd", "prefix"}
  /\ Forward(t, Starts(t)) \/ Copy(t, Starts(t))

(* is_match_fwd_ts stops at the first match; the scan leaves no scratch.   *)
FindFirst(t) ==
  /\ pc[t] = "any"
  /\ Return(t, Answer(Input(t) # {}))
  /\ holder' = Free
  /\ UNCHANGED <<twoPass, mem, poisoned, inner, found, calls>>

-----------------------------------------------------------------------------
(* As a bug would have it: the caches survive the change of input.         *)
BeginInputKept(t) ==
  /\ pc[t] = "scope" /\ holder = Free
  /\ scope' = call[t].addr /\ UNCHANGED cache
  /\ result' = [result EXCEPT ![t] = Matches(<<>>)]
  /\ Go(t, "extract")
  /\ UNCHANGED <<twoPass, mem, holder, poisoned, nulls, matches, pos, call, calls,
                 found>>

(* begin_input: the parser's caches are emptied and its input declared.    *)
BeginInput(t) ==
  /\ pc[t] = "scope" /\ holder = Free
  /\ scope' = call[t].addr
  /\ cache' = [k \in Pos |-> NoEntry]
  /\ result' = [result EXCEPT ![t] = Matches(<<>>)]
  /\ Go(t, "extract")
  /\ UNCHANGED <<twoPass, mem, holder, poisoned, nulls, matches, pos, call, calls,
                 found>>

(* The bytes the next match is parsed on, and the cache afterwards.        *)
ParsedOn(t) == LET b == cache[Head(found[t])] IN IF b = NoEntry THEN Input(t) ELSE b
Filled(t)   == [cache EXCEPT ![Head(found[t])] = ParsedOn(t)]

(* extract_captures for one match.  The parser does not work for any input *)
(* but the one declared last, which it knows by its address.  A capture is *)
(* the match and the bytes its groups were computed on.                    *)
Extract(t) ==
  /\ pc[t] = "extract" /\ holder = Free /\ found[t] # <<>>
  /\ \/ /\ scope # call[t].addr
        /\ Return(t, Ended("outside_scope"))
        /\ found' = [found EXCEPT ![t] = <<>>]
        /\ UNCHANGED cache
     \/ /\ scope = call[t].addr
        /\ cache' = Filled(t)
        /\ result' = [result EXCEPT ![t].at = Append(@, Head(found[t])),
                                   ![t].on = Append(@, ParsedOn(t))]
        /\ found' = [found EXCEPT ![t] = Tail(@)]
        /\ UNCHANGED <<pc, call>>
  /\ UNCHANGED <<twoPass, mem, holder, poisoned, nulls, matches, pos, scope, calls>>

ExtractDone(t) ==
  /\ pc[t] = "extract" /\ found[t] = <<>>
  /\ Done(t)
  /\ UNCHANGED <<twoPass, mem, holder, poisoned, inner, found, result, calls>>

(* `?` or a panic while the mutex is held: the buffers and caches stay as  *)
(* they are, half way through a pass or a parse.                           *)
Fails(t) ==
  /\ \/ holder = t /\ UNCHANGED cache
     \/ /\ pc[t] = "extract" /\ holder = Free /\ found[t] # <<>>
        /\ UNCHANGED cache \/ (scope = call[t].addr /\ cache' = Filled(t))
  /\ \/ Return(t, Ended("err")) /\ UNCHANGED poisoned
     \/ Return(t, Ended("panic")) /\ poisoned' = TRUE
  /\ holder' = Free
  /\ found' = [found EXCEPT ![t] = <<>>]
  /\ UNCHANGED <<twoPass, mem, nulls, matches, pos, scope, calls>>

Step(t) ==
  \/ Lock(t) \/ CollectRev(t) \/ CollectRevDone(t) \/ Verify(t) \/ FindFirst(t)
  \/ BeginInput(t) \/ Extract(t) \/ ExtractDone(t)

Next ==
  \/ \E a \in Address : Rewrite(a)
  \/ \E t \in Thread, a \in Address, op \in {"find_all", "is_match", "captures_all"} :
       Call(t, op, a)
  \/ \E t \in Thread : Step(t) \/ Fails(t)

(* A thread that can go on is scheduled, and a call owes no failure.  The  *)
(* mutex is not fair: with finitely many calls, all get it in the end.     *)
Fairness == \A t \in Thread : WF_vars(Step(t))

Spec == Init /\ [][Next]_vars /\ Fairness

-----------------------------------------------------------------------------
Status == {"none", "ok", "true", "false", "err", "panic", "poisoned", "outside_scope"}

(* The scratch buffers hold positions, and only a thread that is in its    *)
(* critical section holds the mutex.                                       *)
TypeOK ==
  /\ twoPass \in BOOLEAN
  /\ mem \in [Address -> Bytes]
  /\ holder \in Thread \cup {Free} /\ poisoned \in BOOLEAN
  /\ nulls \in Bytes /\ matches \in Seq(Pos) /\ pos \in 0 .. MaxPos
  /\ scope \in Address \cup {Free}
  /\ cache \in [Pos -> Bytes \cup {NoEntry}]
  /\ calls \in 0 .. MaxCalls
  /\ \A t \in Thread :
       /\ pc[t] \in {"idle", "lock", "rev", "fwd", "prefix", "any", "scope", "extract"}
       /\ pc[t] \in {"rev", "fwd", "prefix", "any"} <=> holder = t
       /\ IF pc[t] = "idle" THEN call[t] = NoCall
          ELSE call[t] \in [op : {"find_all", "is_match", "captures_all"}, addr : Address]
       /\ found[t] \in Seq(Pos)
       /\ result[t].status \in Status

(* A call of t comes back, not with an error. *)
Answers(t, op) ==
  call[t].op = op /\ pc'[t] = "idle" /\ result'[t].status \in {"ok", "true", "false"}

(* Whatever other threads do between the locks, and whatever calls that    *)
(* failed or panicked left in the scratch buffers: find_all returns the    *)
(* matches of its own input, in order, and is_match whether there is one.  *)
OwnMatchesStep ==
  \A t \in Thread :
    /\ Answers(t, "find_all") => IsAscending(result'[t].at, Input(t))
    /\ Answers(t, "is_match") => result'[t] = Answer(Input(t) # {})

OwnMatches == [][OwnMatchesStep]_vars

(* captures_all takes the mutex again and again, and keeps a cache in it.  *)
(* Whenever it succeeds it returns one entry per match of its own input,   *)
(* in order, each parsed on the bytes of that input: never on those of     *)
(* another thread's, or those that were at the same address before.        *)
OwnCapturesStep ==
  \A t \in Thread : Answers(t, "captures_all") =>
    /\ IsAscending(result'[t].at, Input(t))
    /\ result'[t].on = [i \in DOMAIN result'[t].at |-> Input(t)]

OwnCaptures == [][OwnCapturesStep]_vars

(* Every call returns: a call that fails or panics lets go of the mutex,   *)
(* and no thread waits for a mutex its own call holds.                     *)
CallsReturn == \A t \in Thread : pc[t] # "idle" ~> pc[t] = "idle"
=============================================================================
