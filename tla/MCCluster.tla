----------------------------- MODULE MCCluster ------------------------------
(***************************************************************************)
(* Instances of Cluster for TLC.                                           *)
(***************************************************************************)
EXTENDS Cluster, TLC

CONSTANTS v1, v2, v3, v4

\* Of four validators v2 proposes first at height 1, v3 in round 1, v4 in 2.
MCRank == v1 :> 1 @@ v2 :> 2 @@ v3 :> 3 @@ v4 :> 4

AllFour == [h \in Height |-> {v1, v2, v3, v4}]
PairOf == [h \in Height |-> {v1, v2}]

\* v3 joins at height 2 and v1 leaves: each follows the chain at the height it
\* does not belong to.

Rotating == [h \in Height |-> IF h = 1 THEN {v1, v2} ELSE {v2, v3}]

EveryArrival == Correct \X Item
EveryLink == [r \in Round |-> {l \in Node \X MsgType \X Node : l[1] # l[3]}]

\* v3 misses the prevotes of the validators v1 and v2 and has nothing to say.
ListenOnly ==
    [r \in Round |-> ({v1} \X MsgType \X {v2}) \cup ({v2} \X MsgType \X {v1})
                    \cup ({v1, v2} \X {"Proposal", "Precommit"} \X {v3})]

\* v1 and v3, which are never validators together, do not hear each other's votes.
NeighbourLinks ==
    [r \in Round |-> EveryLink[r] \ ({v1, v3} \X {"Prevote", "Precommit"} \X {v1, v3})]

-----------------------------------------------------------------------------
(* The clients of one node, or of both validators of PairOf.               *)

AtV1 == {<<v1, "a">>}
BothAtV2 == {<<v2, "a">>, <<v2, "b">>}
AtBoth == {<<v1, "a">>, <<v2, "a">>}
=============================================================================
