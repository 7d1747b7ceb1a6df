------------------------------- MODULE Lists --------------------------------
(***************************************************************************)
(* Vectors of the code as sequences.  SelectSeq takes its test as an       *)
(* operator, so what it returns cannot be stated once for all tests; here  *)
(* the test is a set.  The rest are the few operators on sequences that    *)
(* the models use, written out to keep what the proofs carry along small.  *)
(***************************************************************************)
EXTENDS Integers, Sequences, Functions

\* Vec::retain, and filter with collect: the elements of s that are in S.
Retain(s, S) ==
    LET kept[i \in 0..Len(s)] ==
            IF i = 0 THEN <<>>
            ELSE IF s[i] \in S THEN Append(kept[i - 1], s[i]) ELSE kept[i - 1]
    IN  kept[Len(s)]

\* flat_map and extend: the sequences of ss, one after the other.
Flatten(ss) ==
    LET joined[i \in 0..Len(ss)] ==
            IF i = 0 THEN <<>> ELSE joined[i - 1] \o ss[i]
    IN  joined[Len(ss)]

\* last, and all but the last as pop leaves it.
Last(s) == s[Len(s)]
Front(s) == SubSeq(s, 1, Len(s) - 1)
=============================================================================
