------------------------------- MODULE Ledger -------------------------------
(***************************************************************************)
(* What the system promises: every replica holds a log of final blocks.    *)
(* A log only ever grows, by one block at a time, and a replica that is    *)
(* behind can only append the block the others have at that place.  There  *)
(* is no action that removes or replaces a block: finality is instant.     *)
(***************************************************************************)
EXTENDS Integers, Sequences

CONSTANT Replica

VARIABLE log

Init == log = [n \in Replica |-> <<>>]

\* Replica n appends one block, the one the longer logs have in its place.
Extend(n) ==
    /\ DOMAIN log' = Replica
    /\ \A m \in Replica \ {n} : log'[m] = log[m]
    /\ Len(log'[n]) = Len(log[n]) + 1
    /\ SubSeq(log'[n], 1, Len(log[n])) = log[n]
    /\ \A m \in Replica :
        Len(log[m]) > Len(log[n]) =>
            log'[n][Len(log[n]) + 1] = log[m][Len(log[n]) + 1]

Next == \E n \in Replica : Extend(n)

Spec == Init /\ [][Next]_log
=============================================================================
