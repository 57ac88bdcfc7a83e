------------------------------- MODULE Minterms -------------------------------
(***************************************************************************)
(* Classes of bytes (resharp-engine/src/minterms.rs): the sets a pattern   *)
(* tests cut the bytes into minterms, and a table gives each byte the      *)
(* number of its minterm, in a u8.  The sets come out of a hash set, in    *)
(* any order.                                                              *)
(***************************************************************************)
EXTENDS Integers, Sequences, FiniteSets

CONSTANTS
    Alphabet,       \* the bytes
    IndexLimit      \* 256, the values of a u8

ASSUME AlphabetAssumption ==
    /\ IsFiniteSet(Alphabet) /\ Alphabet # {}
    /\ IndexLimit \in Nat /\ Cardinality(Alphabet) <= IndexLimit

\* PartitionTree: its leaves, the one get_leaf_sets comes to first and the others
Uncut == [first |-> Alphabet, rest |-> {}]

Parts(X, S) == {X \cap S, X \ S} \ {{}}

\* a mutant: bytes that are cut already are left as they are
RefineOnce(t, S) ==
    IF t.rest # {} \/ t.first \subseteq S \/ t.first \cap S = {} THEN t
    ELSE [first |-> t.first \ S, rest |-> {t.first \cap S}]

\* refine: a leaf that lies on both sides of S is cut; of the parts the one outside S comes first
Refine(t, S) ==
    LET first == IF t.first \subseteq S THEN t.first ELSE t.first \ S
    IN [first |-> first, rest |-> (UNION {Parts(X, S) : X \in t.rest \cup {t.first}}) \ {first}]

\* generate_minterms: the first leaf stays first, the others are sorted by their ids, which were
\* given in the order in which the sets came up
Orders(sets) == {o \in [1 .. Cardinality(sets) -> sets] : \A X \in sets : \E i \in DOMAIN o : o[i] = X}
GenerateMinterms(t, order) == <<t.first>> \o order

\* minterms_lookup
MintermsLookup(minterms) ==
    [c \in Alphabet |->
        IF \E i \in 2 .. Len(minterms) : c \in minterms[i]
        THEN ((CHOOSE i \in 2 .. Len(minterms) : c \in minterms[i]) - 1) % IndexLimit
        ELSE 0]
=============================================================================
