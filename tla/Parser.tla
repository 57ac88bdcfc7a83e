------------------------------- MODULE Parser -------------------------------
(***************************************************************************)
(* The parser of resharp-parser/src/lib.rs: one left-to-right pass over a  *)
(* pattern that keeps a concatenation under construction, a stack of open  *)
(* groups, alternations and intersections, and a stack of open character   *)
(* classes.  A pattern is a sequence of tokens: a token is a character, or *)
(* one of the groups, counts and escapes that the code reads in one go     *)
(* ("(?i:", "{2,3}", "\b").  Every action is one turn of parse_inner's     *)
(* loop (or of parse_set_class's, while a class is open), with the skipped *)
(* white space and comments of the x flag in front of it.                  *)
(***************************************************************************)
EXTENDS Integers, Sequences, FiniteSets

CONSTANTS
    Inputs,           \* the patterns, sequences of tokens
    MaxDepth,         \* max_depth: the bound on the stack
    MaxRepeat,        \* max_repeat: the bound on counts
    MaxExpanded,      \* expanded_ast_limit
    MaxList,          \* max_list_len
    ImplicitCaptures, \* implicit_captures: "(" captures
    Extended          \* ignore_whitespace at the start

ASSUME LimitsAssumption ==
    /\ MaxDepth \in Nat /\ MaxRepeat \in Nat /\ MaxExpanded \in Nat /\ MaxList \in Nat
    /\ ImplicitCaptures \in BOOLEAN /\ Extended \in BOOLEAN

VARIABLES
    input,    \* the pattern
    pos,      \* index of the next token
    stack,    \* stack_group
    concat,   \* the concatenation under construction
    classes,  \* stack_class
    union,    \* items of the innermost open class
    ws,       \* ignore_whitespace
    caps,     \* capture_index
    names,    \* capture_names: name -> index
    result    \* what parse_inner returned

vars == <<input, pos, stack, concat, classes, union, ws, caps, names, result>>

(***************************************************************************)
(* Tokens.                                                                 *)
(***************************************************************************)
Ch(c) == [t |-> "ch", c |-> c]
Esc(c) == [t |-> "esc", c |-> c]
Open(kind, flags, name) == [t |-> "open", kind |-> kind, flags |-> flags, name |-> name]
SetFlags(flags) == [t |-> "set", flags |-> flags]
Count(min, comma, max, closed) ==
    [t |-> "count", min |-> min, comma |-> comma, max |-> max, closed |-> closed]

Lookarounds == {"la", "nla", "lb", "nlb"}
Blank == {Ch(" "), Ch("nl")}
Quantifiers == {Ch("?"), Ch("*"), Ch("+")}
Specials == {"(", ")", "|", "&", "~", "["}

Eof(p) == p > Len(input)
Is(p, c) == ~Eof(p) /\ input[p] = Ch(c)

(***************************************************************************)
(* Flags: a sequence of letters and at most one "-".                       *)
(***************************************************************************)
Twice(items, i) == \E j \in 1 .. i - 1 : items[j] = items[i]
FirstBadFlag(items) ==
    {i \in 1 .. Len(items) : Twice(items, i) /\ \A j \in 1 .. i - 1 : ~Twice(items, j)}
FlagError(items) ==
    IF FirstBadFlag(items) # {}
    THEN IF \E i \in FirstBadFlag(items) : items[i] = "-" THEN "FlagRepeatedNegation" ELSE "FlagDuplicate"
    ELSE IF items # <<>> /\ items[Len(items)] = "-" THEN "FlagDanglingNegation"
    ELSE "none"

\* Flags::flag_state, with "unset" for None
FlagState(items, flag) ==
    IF \A i \in 1 .. Len(items) : items[i] # flag THEN "unset"
    ELSE IF \E i, j \in 1 .. Len(items) : j < i /\ items[i] = flag /\ items[j] = "-" THEN "off"
    ELSE "on"
Updated(value, items, flag) ==
    CASE FlagState(items, flag) = "on" -> TRUE
      [] FlagState(items, flag) = "off" -> FALSE
      [] OTHER -> value

(***************************************************************************)
(* White space and comments, skipped under the x flag.                     *)
(***************************************************************************)
RECURSIVE Skipped(_)
Skipped(p) ==
    IF Eof(p) THEN p
    ELSE IF input[p] \in Blank THEN Skipped(p + 1)
    ELSE IF input[p] = Ch("#")
    THEN LET ends == {q \in p .. Len(input) : input[q] = Ch("nl")}
         IN IF ends = {} THEN Len(input) + 1
            ELSE Skipped(1 + CHOOSE q \in ends : \A r \in ends : q <= r)
    ELSE p
Space(p) == IF ws THEN Skipped(p) ELSE p
At == Space(pos)

\* peek_space: the token after p; a comment in between is left at once
PeekSpace(p) ==
    LET solid == {q \in p + 1 .. Len(input) : input[q] \notin Blank}
        first == CHOOSE q \in solid : \A r \in solid : q <= r
        after == solid \ {first}
        second == CHOOSE q \in after : \A r \in after : q <= r
    IN IF ~ws \/ solid = {} THEN p + 1
       ELSE IF input[first] # Ch("#") THEN first
       ELSE IF after = {} THEN p + 1 ELSE second

(***************************************************************************)
(* The syntax tree: literals and other atoms with their position, and the  *)
(* nodes above them.                                                       *)
(***************************************************************************)
Empty == [k |-> "empty"]
Atom(p) == [k |-> "atom", tok |-> input[p], at |-> p]
Flags(items) == [k |-> "flags", flags |-> items]
Repetition(op, body) == [k |-> "rep", op |-> op, body |-> body]
Node(kind, asts) == [k |-> kind, asts |-> asts]

\* into_ast of Concat, Alternation and Intersection
IntoAst(kind, asts) ==
    CASE Len(asts) = 0 -> Empty
      [] Len(asts) = 1 -> asts[1]
      [] OTHER -> Node(kind, asts)

\* Ast::group, and pop_group's complement
GroupAst(group, body) ==
    CASE group.kind = "compl" -> [k |-> "compl", body |-> body]
      [] group.kind \in Lookarounds -> [k |-> "look", kind |-> group.kind, body |-> body]
      [] OTHER -> [k |-> "group", group |-> group, body |-> body]

TheGroup(kind, flags, name, index) ==
    [kind |-> kind, flags |-> flags, name |-> name, index |-> index]

(***************************************************************************)
(* The stack of groups.                                                    *)
(***************************************************************************)
TopIs(st, kind) == st # <<>> /\ st[Len(st)].k = kind
Pop(st) == SubSeq(st, 1, Len(st) - 1)
Add(st, ast) == [st EXCEPT ![Len(st)].asts = Append(@, ast)]

PushOrAdd(st, kind, ast) ==
    IF TopIs(st, kind) THEN Add(st, ast) ELSE Append(st, [k |-> kind, asts |-> <<ast>>])

\* a mutant: "|" closes only the concatenation, as "&" does
CloseConcatOnly(st, items) == [ast |-> IntoAst("concat", items), stack |-> st]

\* close_intersection: what an arm of an alternation is, and the stack below
CloseIntersection(st, items) ==
    IF TopIs(st, "inter")
    THEN [ast |-> Node("inter", Append(st[Len(st)].asts, IntoAst("concat", items))), stack |-> Pop(st)]
    ELSE [ast |-> IntoAst("concat", items), stack |-> st]

\* close_ops: everything down to the innermost open group
RECURSIVE CloseOps(_, _)
CloseOps(st, ast) ==
    IF TopIs(st, "inter") \/ TopIs(st, "alt")
    THEN CloseOps(Pop(st), Node(st[Len(st)].k, Append(st[Len(st)].asts, ast)))
    ELSE [ast |-> ast, stack |-> st]

(***************************************************************************)
(* The sizes that bound a pattern.                                         *)
(***************************************************************************)
\* the children of a tree
Children(a) ==
    CASE a.k \in {"concat", "alt", "inter"} -> a.asts
      [] a.k \in {"group", "compl", "look", "rep"} -> <<a.body>>
      [] OTHER -> <<>>

SetMax(S) == CHOOSE m \in S : \A n \in S : n <= m
RECURSIVE MaxConcat(_)
MaxConcat(a) ==
    LET below == {MaxConcat(Children(a)[i]) : i \in 1 .. Len(Children(a))} \cup {0}
    IN SetMax(below \cup IF a.k = "concat" THEN {Len(a.asts)} ELSE {})

\* how often the translation copies the body of a repetition
Factor(op) ==
    CASE op \in Quantifiers -> 2
      [] op.t = "count" /\ ~op.comma -> SetMax({op.min, 1})
      [] op.t = "count" /\ op.comma /\ op.max = -1 -> SetMax({op.min, 1}) + 1
      [] OTHER -> SetMax({op.max, 1})
Capped(n) == IF n < MaxExpanded THEN n ELSE MaxExpanded

RECURSIVE Expanded(_), SumExpanded(_, _)
Expanded(a) ==
    CASE a.k \in {"empty", "flags", "atom", "class"} -> 1
      [] a.k \in {"group", "compl", "look"} -> Capped(Expanded(a.body) + 1)
      [] a.k = "rep" -> Capped(Expanded(a.body) * Factor(a.op))
      [] OTHER -> SumExpanded(a.asts, 0)
SumExpanded(asts, total) ==
    IF total >= MaxExpanded THEN MaxExpanded
    ELSE IF asts = <<>> THEN total
    ELSE SumExpanded(Tail(asts), total + Expanded(asts[1]))

(***************************************************************************)
(* Outcomes of a turn.                                                     *)
(***************************************************************************)
Running == result.k = "none"
Fail(e) ==
    /\ result' = [k |-> "error", e |-> e]
    /\ UNCHANGED <<input, pos, stack, concat, classes, union, ws, caps, names>>

\* go on at p with the stack st and the concatenation c
GoOn(p, st, c) ==
    IF Len(st) > MaxDepth THEN Fail("TooDeep")
    ELSE /\ pos' = p /\ stack' = st /\ concat' = c
         /\ UNCHANGED <<input, classes, union, result>>

(***************************************************************************)
(* Groups.                                                                 *)
(***************************************************************************)
InBody == Running /\ classes = <<>> /\ ~Eof(At)
Frame(group) == [k |-> "group", concat |-> concat, group |-> group, ws |-> ws]
Enter(p, group) == GoOn(p, Append(stack, Frame(group)), <<>>)

OpenPlain ==
    /\ InBody /\ Is(At, "(")
    /\ Enter(At + 1, TheGroup("plain", <<>>, "", IF ImplicitCaptures THEN caps + 1 ELSE 0))
    /\ caps' = IF ImplicitCaptures THEN caps + 1 ELSE caps
    /\ UNCHANGED <<ws, names>>

Opens(kinds) == InBody /\ input[At].t = "open" /\ input[At].kind \in kinds

OpenLookaround ==
    /\ Opens(Lookarounds)
    /\ Enter(At + 1, TheGroup(input[At].kind, <<>>, "", 0))
    /\ UNCHANGED <<ws, caps, names>>

OpenCapture ==
    /\ Opens({"named", "anon"})
    /\ LET name == input[At].name
       IN IF input[At].kind = "named" /\ name \in DOMAIN names
          THEN Fail("GroupNameDuplicate")
          ELSE /\ Enter(At + 1, TheGroup(input[At].kind, <<>>, name, caps + 1))
               /\ caps' = caps + 1
               /\ names' = IF input[At].kind = "named"
                           THEN [n \in DOMAIN names \cup {name} |->
                                    IF n = name THEN caps + 1 ELSE names[n]]
                           ELSE names
               /\ UNCHANGED ws

OpenFlags ==
    /\ Opens({"flags"})
    /\ LET items == input[At].flags
       IN IF FlagError(items) # "none" THEN Fail(FlagError(items))
          ELSE /\ Enter(At + 1, TheGroup("flags", items, "", 0))
               /\ ws' = Updated(ws, items, "x")
               /\ UNCHANGED <<caps, names>>

ApplyFlags ==
    /\ InBody /\ input[At].t = "set"
    /\ LET items == input[At].flags
       IN IF FlagError(items) # "none" THEN Fail(FlagError(items))
          ELSE IF items = <<>> THEN Fail("RepetitionMissing")
          ELSE /\ GoOn(At + 1, stack, Append(concat, Flags(items)))
               /\ ws' = Updated(ws, items, "x")
               /\ UNCHANGED <<caps, names>>

\* "~" has to be followed by "("; of "(?i:" it takes the "(" and meets a "?"
OpenComplement ==
    /\ InBody /\ Is(At, "~")
    /\ IF ~Eof(At + 1) /\ input[At + 1].t \in {"open", "set"} THEN Fail("RepetitionMissing")
       ELSE IF ~Is(At + 1, "(") THEN Fail("ComplementGroupExpected")
       ELSE /\ Enter(At + 2, TheGroup("compl", <<>>, "", 0))
            /\ UNCHANGED <<ws, caps, names>>

CloseGroup ==
    /\ InBody /\ Is(At, ")")
    /\ LET closed == CloseOps(stack, IntoAst("concat", concat))
           frame == closed.stack[Len(closed.stack)]
       IN IF closed.stack = <<>> THEN Fail("GroupUnopened")
          ELSE /\ GoOn(At + 1, Pop(closed.stack), Append(frame.concat, GroupAst(frame.group, closed.ast)))
               /\ ws' = frame.ws
               /\ UNCHANGED <<caps, names>>

Alternate ==
    /\ InBody /\ Is(At, "|")
    /\ LET arm == CloseIntersection(stack, concat)
       IN GoOn(At + 1, PushOrAdd(arm.stack, "alt", arm.ast), <<>>)
    /\ UNCHANGED <<ws, caps, names>>

Intersect ==
    /\ InBody /\ Is(At, "&")
    /\ GoOn(At + 1, PushOrAdd(stack, "inter", IntoAst("concat", concat)), <<>>)
    /\ UNCHANGED <<ws, caps, names>>

(***************************************************************************)
(* Repetitions.                                                            *)
(***************************************************************************)
\* a mutant: a flag group can be repeated
OperandOrFlags == concat # <<>> /\ concat[Len(concat)].k # "empty"
Operand == concat # <<>> /\ concat[Len(concat)].k \notin {"empty", "flags"}
Repeat(p) ==
    /\ GoOn(p, stack, Append(Pop(concat), Repetition(input[At], concat[Len(concat)])))
    /\ UNCHANGED <<ws, caps, names>>

Quantify ==
    /\ InBody /\ input[At] \in Quantifiers
    /\ IF ~Operand THEN Fail("RepetitionMissing")
       ELSE IF Is(At + 1, "?") THEN Fail("UnsupportedLazyQuantifier")
       ELSE Repeat(At + 1)

\* what is wrong with {min,max}, in the order the code finds out
CountError(op, p) ==
    IF ~op.closed THEN "RepetitionCountUnclosed"
    ELSE IF op.min = -1 THEN "RepetitionCountDecimalEmpty"
    ELSE IF Is(p, "?") THEN "UnsupportedLazyQuantifier"
    ELSE IF op.max # -1 /\ op.min > op.max THEN "RepetitionCountInvalid"
    ELSE IF op.min > MaxRepeat \/ op.max > MaxRepeat THEN "TooManyRepeats"
    ELSE "none"

CountedQuantify ==
    /\ InBody /\ input[At].t = "count"
    /\ IF ~Operand THEN Fail("RepetitionMissing")
       ELSE IF CountError(input[At], Space(At + 1)) # "none" THEN Fail(CountError(input[At], Space(At + 1)))
       ELSE Repeat(Space(At + 1))

(***************************************************************************)
(* Everything else is one character or escape that stands for itself.      *)
(***************************************************************************)
EscapeError(tok) ==
    CASE tok.t # "esc" -> "none"
      [] tok.c = "1" -> "UnsupportedBackreference"
      [] tok.c = "q" -> "EscapeUnrecognized"
      [] OTHER -> "none"

Primitive ==
    /\ InBody /\ input[At].t \in {"ch", "esc"} /\ input[At] \notin Quantifiers
    /\ input[At].t = "ch" => input[At].c \notin Specials
    /\ IF EscapeError(input[At]) # "none" THEN Fail(EscapeError(input[At]))
       ELSE /\ GoOn(At + 1, stack, Append(concat, Atom(At)))
            /\ UNCHANGED <<ws, caps, names>>

(***************************************************************************)
(* Character classes.                                                      *)
(***************************************************************************)
Literal(c) == [k |-> "lit", c |-> c]
Perl(c) == [k |-> "perl", c |-> c]
ClassRange(a, b) == [k |-> "range", from |-> a, to |-> b]
Bracketed(neg, set, at) == [k |-> "class", neg |-> neg, set |-> set, at |-> at]
IntoItem(items) ==
    CASE Len(items) = 0 -> [k |-> "none"]
      [] Len(items) = 1 -> items[1]
      [] OTHER -> [k |-> "union", items |-> items]

CharOrder == <<"nl", " ", "#", "&", "-", "A", "[", "]", "^", "_", "a", "b", "~">>
Ord(c) == CHOOSE i \in 1 .. Len(CharOrder) : CharOrder[i] = c

\* the "-" at the start of a class, from p on: literals
RECURSIVE Dashes(_, _)
Dashes(p, items) == IF Is(p, "-") THEN Dashes(Space(p + 1), Append(items, Literal("-"))) ELSE [at |-> p, items |-> items]

\* parse_set_class_open, for the "[" at p
ClassStart(p) ==
    LET neg == Is(Space(p + 1), "^")
        first == IF neg THEN Space(Space(p + 1) + 1) ELSE Space(p + 1)
        dashes == Dashes(first, <<>>)
        bracket == dashes.items = <<>> /\ Is(dashes.at, "]")
    IN [neg |-> neg,
        items |-> IF bracket THEN <<Literal("]")>> ELSE dashes.items,
        at |-> IF bracket THEN Space(dashes.at + 1) ELSE dashes.at]

PopClassOp(cls, rhs) ==
    LET top == cls[Len(cls)]
    IN IF top.k = "op"
       THEN [set |-> [k |-> "op", op |-> top.op, lhs |-> top.lhs, rhs |-> rhs], classes |-> Pop(cls)]
       ELSE [set |-> rhs, classes |-> cls]

ClassGoOn(p, cls, items) ==
    /\ pos' = p /\ classes' = cls /\ union' = items
    /\ UNCHANGED <<input, stack, concat, ws, caps, names, result>>

OpenClass ==
    /\ Running /\ ~Eof(At) /\ Is(At, "[")
    /\ LET start == ClassStart(At)
       IN IF Eof(start.at) THEN Fail("ClassUnclosed")
          ELSE ClassGoOn(start.at,
                         Append(classes, [k |-> "open", union |-> union, neg |-> start.neg, at |-> At]),
                         start.items)

InClass == Running /\ classes # <<>> /\ ~Eof(At)

CloseClass ==
    /\ InClass /\ Is(At, "]")
    /\ LET popped == PopClassOp(classes, IntoItem(union))
           open == popped.classes[Len(popped.classes)]
           class == Bracketed(open.neg, popped.set, open.at)
           below == Pop(popped.classes)
       IN IF below = <<>>
          THEN /\ pos' = At + 1 /\ classes' = <<>> /\ union' = <<>>
               /\ concat' = Append(concat, class)
               /\ UNCHANGED <<input, stack, ws, caps, names, result>>
          ELSE ClassGoOn(At + 1, below, Append(open.union, class))

DoubleAt(p, c) == Is(p, c) /\ Is(p + 1, c)
ClassOps == {"&", "-", "~"}

ClassOp ==
    /\ InClass
    /\ \E c \in ClassOps :
          /\ DoubleAt(At, c)
          /\ LET popped == PopClassOp(classes, IntoItem(union))
             IN ClassGoOn(At + 2, Append(popped.classes, [k |-> "op", op |-> c, lhs |-> popped.set]), <<>>)

ClassPrim(p) == IF input[p].t = "esc" THEN Perl(input[p].c) ELSE Literal(input[p].c)
PrimError(prim) ==
    CASE prim.k = "perl" /\ prim.c \in {"b", "B", "A", "z"} -> "ClassEscapeInvalid"
      [] prim.k = "perl" /\ EscapeError(Esc(prim.c)) # "none" -> EscapeError(Esc(prim.c))
      [] OTHER -> "none"

ClassItem ==
    /\ InClass /\ ~Is(At, "[") /\ ~Is(At, "]") /\ \A c \in ClassOps : ~DoubleAt(At, c)
    /\ LET first == ClassPrim(At)
           dash == Space(At + 1)
           single == ~Is(dash, "-") \/ Is(PeekSpace(dash), "]") \/ Is(PeekSpace(dash), "-")
           next == Space(dash + 1)
           second == ClassPrim(next)
       IN IF first.k = "perl" /\ EscapeError(input[At]) # "none" THEN Fail(EscapeError(input[At]))
          ELSE IF Eof(dash) THEN Fail("ClassUnclosed")
          ELSE IF single
          THEN IF PrimError(first) # "none" THEN Fail(PrimError(first))
               ELSE ClassGoOn(dash, classes, Append(union, first))
          ELSE IF Eof(next) THEN Fail("ClassUnclosed")
          ELSE IF EscapeError(input[next]) # "none" THEN Fail(EscapeError(input[next]))
          ELSE IF first.k # "lit" \/ second.k # "lit" THEN Fail("ClassRangeLiteral")
          ELSE IF Ord(first.c) > Ord(second.c) THEN Fail("ClassRangeInvalid")
          ELSE ClassGoOn(next + 1, classes, Append(union, ClassRange(first.c, second.c)))

ClassAtEnd ==
    /\ Running /\ classes # <<>> /\ Eof(At)
    /\ Fail("ClassUnclosed")

(***************************************************************************)
(* The end of the pattern.                                                 *)
(***************************************************************************)
End ==
    /\ Running /\ classes = <<>> /\ Eof(At)
    /\ LET closed == CloseOps(stack, IntoAst("concat", concat))
       IN IF closed.stack # <<>> THEN Fail("GroupUnclosed")
          ELSE IF Expanded(closed.ast) >= MaxExpanded \/ MaxConcat(closed.ast) >= MaxList THEN Fail("TooLarge")
          ELSE /\ result' = [k |-> "ast", ast |-> closed.ast]
               /\ stack' = <<>> /\ concat' = <<>>
               /\ UNCHANGED <<input, pos, classes, union, ws, caps, names>>

Init ==
    /\ input \in Inputs
    /\ pos = 1 /\ stack = <<>> /\ concat = <<>>
    /\ classes = <<>> /\ union = <<>>
    /\ ws = Extended /\ caps = 0 /\ names = [n \in {} |-> 0]
    /\ result = [k |-> "none"]

Next ==
    \/ OpenPlain \/ OpenLookaround \/ OpenCapture \/ OpenFlags \/ ApplyFlags
    \/ OpenComplement \/ CloseGroup \/ Alternate \/ Intersect
    \/ Quantify \/ CountedQuantify \/ Primitive
    \/ OpenClass \/ CloseClass \/ ClassOp \/ ClassItem \/ ClassAtEnd
    \/ End

Spec == Init /\ [][Next]_vars
=============================================================================
