---------------------------- MODULE MCGovernance ----------------------------
(***************************************************************************)
(* An instance of Governance for TLC: two validators, a third that joins.  *)
(***************************************************************************)
EXTENDS Governance, TLC

CONSTANTS v1, v2, v3

Change(adds, removes, activation, approvers) ==
    [adds |-> adds, removes |-> removes,
     activation |-> activation, approvers |-> approvers]

\* v3 joins at 3, unless the change that bars it is recorded after that.
Join == Change({v3}, {}, 3, {v1, v2})
Bar == Change({}, {v3}, 3, {v1, v2})
\* v1 leaves at 4, approved by too few once v3 has joined.
Leave == Change({}, {v1}, 4, {v1, v2})
\* v1 comes back at 5, approved by the set without it.
Return == Change({v1}, {}, 5, {v2, v3})
Changes == {Bar, Join, Leave, Return}

Gossiped == {<<v1, Leave>>, <<v2, Join>>, <<v3, Return>>}

\* Also a block that has v3 join once more after it was barred.
Stray == {<<Leave>>, <<Bar>>, <<Bar, Join>>}
=============================================================================
