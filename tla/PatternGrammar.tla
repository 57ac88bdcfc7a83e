---------------------------- MODULE PatternGrammar ----------------------------
(***************************************************************************)
(* The syntax that the parser implements, said without a parser: which     *)
(* tokens of a pattern count, which flags hold where, which patterns are   *)
(* well formed, and which trees are in the shape the precedence of the     *)
(* operators asks for.  A tree stands for one text; a parser is right when *)
(* the tree it returns is well shaped and stands for the pattern's text.   *)
(***************************************************************************)
EXTENDS Parser

CONSTANTS StartFlags \* the flags of the whole pattern: [x, i, s, m -> BOOLEAN]

ASSUME StartFlagsAssumption == StartFlags.x = Extended

(***************************************************************************)
(* One reading of the pattern from left to right: a token belongs to the   *)
(* text unless x is on and it is blank or in a comment; flags hold from    *)
(* the point where they appear to the end of the enclosing group.          *)
(***************************************************************************)
IsOpen(tok) == tok.t = "open" \/ tok = Ch("(")
With(env, items) == [f \in DOMAIN env |-> Updated(env[f], items, f)]

RECURSIVE Read(_, _, _, _)
Read(p, env, outer, comment) ==
    LET tok == input[p]
        ignored == comment \/ (env.x /\ (tok \in Blank \/ tok = Ch("#")))
        env2 == CASE ignored -> env
                  [] tok.t = "set" \/ (tok.t = "open" /\ tok.kind = "flags") -> With(env, tok.flags)
                  [] tok = Ch(")") /\ outer # <<>> -> outer[Len(outer)]
                  [] OTHER -> env
        outer2 == CASE ignored -> outer
                    [] IsOpen(tok) -> Append(outer, env)
                    [] tok = Ch(")") /\ outer # <<>> -> Pop(outer)
                    [] OTHER -> outer
        comment2 == (comment /\ tok # Ch("nl")) \/ (~comment /\ env.x /\ tok = Ch("#"))
    IN IF Eof(p) THEN <<>>
       ELSE <<[solid |-> ~ignored, env |-> env]>> \o Read(p + 1, env2, outer2, comment2)

Reading == Read(1, StartFlags, <<>>, FALSE)
\* the positions that count, in order, and their tokens
SolidAt(reading) == SelectSeq([p \in 1 .. Len(input) |-> p], LAMBDA p : reading[p].solid)
Text(reading) == [n \in 1 .. Len(SolidAt(reading)) |-> input[SolidAt(reading)[n]]]

(***************************************************************************)
(* The text a tree stands for.                                             *)
(***************************************************************************)
Close == <<Ch(")")>>
OpenText(group) ==
    IF group.kind = "plain" THEN Ch("(") ELSE Open(group.kind, group.flags, group.name)

RECURSIVE ItemText(_), ItemTexts(_)
ItemText(x) ==
    CASE x.k = "none" -> <<>>
      [] x.k = "lit" -> <<Ch(x.c)>>
      [] x.k = "perl" -> <<Esc(x.c)>>
      [] x.k = "range" -> <<Ch(x.from), Ch("-"), Ch(x.to)>>
      [] x.k = "union" -> ItemTexts(x.items)
      [] x.k = "op" -> ItemText(x.lhs) \o <<Ch(x.op), Ch(x.op)>> \o ItemText(x.rhs)
      [] x.k = "class" ->
           <<Ch("[")>> \o (IF x.neg THEN <<Ch("^")>> ELSE <<>>) \o ItemText(x.set) \o <<Ch("]")>>
ItemTexts(items) == IF items = <<>> THEN <<>> ELSE ItemText(items[1]) \o ItemTexts(Tail(items))

RECURSIVE TextOf(_), TextsOf(_, _)
TextOf(a) ==
    CASE a.k = "empty" -> <<>>
      [] a.k = "atom" -> <<a.tok>>
      [] a.k = "flags" -> <<SetFlags(a.flags)>>
      [] a.k = "class" -> ItemText(a)
      [] a.k = "rep" -> TextOf(a.body) \o <<a.op>>
      [] a.k = "group" -> <<OpenText(a.group)>> \o TextOf(a.body) \o Close
      [] a.k = "look" -> <<Open(a.kind, <<>>, "")>> \o TextOf(a.body) \o Close
      [] a.k = "compl" -> <<Ch("~"), Ch("(")>> \o TextOf(a.body) \o Close
      [] a.k = "concat" -> TextsOf(a.asts, <<>>)
      [] a.k = "alt" -> TextsOf(a.asts, <<Ch("|")>>)
      [] a.k = "inter" -> TextsOf(a.asts, <<Ch("&")>>)
TextsOf(asts, between) ==
    TextOf(asts[1]) \o IF Len(asts) = 1 THEN <<>> ELSE between \o TextsOf(Tail(asts), between)

(***************************************************************************)
(* The shape of a tree: alternation binds weaker than intersection, which  *)
(* binds weaker than concatenation, which binds weaker than repetition;    *)
(* the set operators of a class associate to the left.                     *)
(***************************************************************************)
Weak == {"alt", "inter", "concat", "empty"}
Below(kind) ==
    CASE kind = "alt" -> {"alt"}
      [] kind = "inter" -> {"alt", "inter"}
      [] kind = "concat" -> Weak
      [] kind = "rep" -> Weak \cup {"flags"}
      [] OTHER -> {}

RECURSIVE ItemShape(_)
ItemShape(x) ==
    CASE x.k = "union" -> Len(x.items) >= 2 /\ \A i \in 1 .. Len(x.items) :
                              x.items[i].k \notin {"union", "op", "none"} /\ ItemShape(x.items[i])
      [] x.k = "op" -> x.rhs.k # "op" /\ ItemShape(x.lhs) /\ ItemShape(x.rhs)
      [] x.k = "class" -> ItemShape(x.set)
      [] x.k = "range" -> Ord(x.from) <= Ord(x.to)
      [] OTHER -> TRUE

RECURSIVE WellShaped(_)
WellShaped(a) ==
    /\ a.k \in {"alt", "inter", "concat"} => Len(a.asts) >= 2
    /\ a.k = "class" => ItemShape(a)
    /\ \A i \in 1 .. Len(Children(a)) : Children(a)[i].k \notin Below(a.k) /\ WellShaped(Children(a)[i])

\* the atoms of a tree in the order of the text, by position; its groups likewise
RECURSIVE AtomsAt(_), GroupsOf(_), Flat(_)
Flat(seqs) == IF seqs = <<>> THEN <<>> ELSE seqs[1] \o Flat(Tail(seqs))
AtomsAt(a) ==
    IF a.k \in {"atom", "class"} THEN <<a.at>>
    ELSE Flat([i \in 1 .. Len(Children(a)) |-> AtomsAt(Children(a)[i])])
GroupsOf(a) ==
    (IF a.k = "group" /\ a.group.index # 0 THEN <<a.group>> ELSE <<>>)
        \o Flat([i \in 1 .. Len(Children(a)) |-> GroupsOf(Children(a)[i])])
Ascending(s) == \A i \in 1 .. Len(s) - 1 : s[i] < s[i + 1]

\* The tree the parser returns is the one the precedence of the operators
\* gives the pattern: it is well shaped and stands for the text without what
\* the x flag ignores, with every atom at its place; captures are numbered by
\* their opening parentheses, and a name leads to the index of its group.
ParsesAsGrammar ==
    result.k = "ast" =>
        LET reading == Reading
            groups == GroupsOf(result.ast)
        IN /\ TextOf(result.ast) = Text(reading)
           /\ WellShaped(result.ast)
           /\ LET at == AtomsAt(result.ast)
              IN Ascending(at) /\ \A i \in 1 .. Len(at) : reading[at[i]].solid
           /\ Len(groups) = caps /\ \A i \in 1 .. caps : groups[i].index = i
           /\ \A name \in DOMAIN names : groups[names[name]].name = name

(***************************************************************************)
(* Well-formed patterns, for patterns without classes.                     *)
(***************************************************************************)
HowMany(text, n, kinds(_)) == Cardinality({i \in 1 .. n : kinds(text[i])})
IsClose(tok) == tok = Ch(")")
Balanced(text) ==
    /\ \A n \in 1 .. Len(text) : HowMany(text, n, IsClose) <= HowMany(text, n, IsOpen)
    /\ HowMany(text, Len(text), IsClose) = HowMany(text, Len(text), IsOpen)

IsQuantifier(tok) == tok \in Quantifiers \/ tok.t = "count"
\* after these there is nothing to repeat
NoOperand(tok) == IsOpen(tok) \/ tok.t = "set" \/ tok \in {Ch("|"), Ch("&"), Ch("~")}
CountsRight(op) ==
    op.t = "count" => /\ op.closed /\ 0 <= op.min /\ op.min <= MaxRepeat
                      /\ op.max # -1 => op.min <= op.max /\ op.max <= MaxRepeat
FlagsRight(items) ==
    /\ \A i, j \in 1 .. Len(items) : items[i] = items[j] => i = j
    /\ items # <<>> => items[Len(items)] # "-"

WellFormed ==
    LET reading == Reading
        at == SolidAt(reading)
        text == Text(reading)
    IN /\ Balanced(text)
       /\ \A n \in 1 .. Len(text) :
            LET tok == text[n]
            IN /\ IsQuantifier(tok) =>
                    /\ n > 1 /\ ~NoOperand(text[n - 1])
                    /\ CountsRight(tok)
                    /\ ~(tok \in Quantifiers /\ at[n] < Len(input) /\ input[at[n] + 1] = Ch("?"))
                    /\ ~(tok.t = "count" /\ n < Len(text) /\ text[n + 1] = Ch("?"))
               /\ tok = Ch("~") => at[n] < Len(input) /\ input[at[n] + 1] = Ch("(")
               /\ tok.t \in {"set", "open"} => FlagsRight(tok.flags)
               /\ tok.t = "set" => tok.flags # <<>>
               /\ tok.t = "esc" => tok.c \notin {"1", "q"}
       /\ \A m, n \in 1 .. Len(text) :
            m < n /\ {text[m].t, text[n].t} = {"open"} /\ text[m].kind = "named" /\ text[n].kind = "named"
                => text[m].name # text[n].name

HasClass == \E p \in 1 .. Len(input) : input[p] = Ch("[")
Limits == {"TooDeep", "TooLarge"}
\* A pattern is rejected exactly when it is malformed, the limits on size and
\* depth aside: no malformed pattern gets a tree and no well-formed one an error.
RejectsExactly ==
    ~HasClass /\ ~Running =>
        /\ result.k = "ast" => WellFormed
        /\ result.k = "error" /\ result.e \notin Limits => ~WellFormed
=============================================================================
