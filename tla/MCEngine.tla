------------------------------ MODULE MCEngine ------------------------------
(***************************************************************************)
(* Instances of Engine for TLC: four keys, of which one may be faulty.     *)
(***************************************************************************)
EXTENDS EngineInvariants, TLC

CONSTANTS v1, v2, v3, v4

\* Of four validators v2 proposes first at height 1, and v3 in round 1.
MCRank == v1 :> 1 @@ v2 :> 2 @@ v3 :> 3 @@ v4 :> 4

AllFour == [h \in Height |-> {v1, v2, v3, v4}]

EveryArrival == Correct \X Item
EveryLink == [r \in Round |-> {l \in Node \X MsgType \X Node : l[1] # l[3]}]

BlockOf(a) == <<[items |-> {a}, time |-> 0, wf |-> TRUE]>>

Votes(types, rounds, ids, voters) ==
    [type : types, height : {1}, round : rounds, id : ids, voter : voters]

BothTypes == {"Prevote", "Precommit"}

\* v1 and v2 are the validators, v3 follows the chain.
OneFollower == [h \in Height |-> {v1, v2}]

-----------------------------------------------------------------------------
(* v4 crashes after its first prevote, which reaches v2 and v3.  Of        *)
(* round 1 only v2 hears votes.                                            *)

LastVote == Votes({"Prevote"}, {0}, {BlockOf("a")}, {v4})

EarlyArrivals == {<<v1, "a">>, <<v2, "a">>}

OneListener ==
    [r \in Round |->
        IF r = 0 THEN (Correct \X MsgType \X Correct)
                      \cup ({v4} \X MsgType \X {v2, v3})
        ELSE (Node \X {"Proposal"} \X Node) \cup (Node \X BothTypes \X {v2})]

-----------------------------------------------------------------------------
(* v3 is faulty: it backs the block of v2 in round 0, and in round 1, of   *)
(* which it is the proposer, it proposes that block again or another one   *)
(* and backs what it has proposed.  v4 hears nothing of round 0 and v2 no  *)
(* precommit of v3 in it, so that only v1 can commit then; v1 hears        *)
(* nothing of round 1.  The precommit of v1 for the first block is passed  *)
(* on as a precommit of round 1 as well.                                   *)

ProposalOf(a) ==
    [height |-> 1, round |-> 1, validRound |-> -1, value |-> BlockOf(a),
     proposer |-> v3]

TwoProposals == {ProposalOf("a"), ProposalOf("b")}

TurncoatVotes ==
    Votes(BothTypes, {0}, {BlockOf("a")}, {v3}) \cup
    Votes(BothTypes, {1}, {BlockOf("a"), BlockOf("b")}, {v3}) \cup
    Votes({"Precommit"}, {1}, {BlockOf("a")}, {v1})

\* A certificate whose shares v1 and v4 can only have given in two rounds.
MixedBlock == {[value |-> BlockOf("a"), qc |-> {v1, v3, v4}]}

AtV2 == {<<v2, "a">>}

SplitLinks ==
    [r \in Round |->
        IF r = 0
        THEN ({v2} \X MsgType \X {v1})
             \cup ({v3} \X BothTypes \X {v1})
             \cup ({v1} \X BothTypes \X {v2})
             \cup ({v3} \X {"Prevote"} \X {v2})
        ELSE ({v3} \X MsgType \X {v4})
             \cup ({v3} \X {"Proposal", "Prevote"} \X {v2})
             \cup {<<v4, "Prevote", v2>>, <<v2, "Prevote", v4>>}
             \cup ({v1, v2} \X {"Precommit"} \X {v4})]
=============================================================================
