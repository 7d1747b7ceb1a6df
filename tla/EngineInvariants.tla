-------------------------- MODULE EngineInvariants --------------------------
(***************************************************************************)
(* The inductive invariant behind Engine's safety properties: why an       *)
(* engine that obeys its lock can never finalize against one that already  *)
(* has.                                                                    *)
(***************************************************************************)
EXTENDS Engine

\* Among the votes is this one, cast by p.
Cast(votes, p, type, h, r, id) ==
    [type |-> type, height |-> h, round |-> r, id |-> id, voter |-> p]
        \in votes

\* A quorum of the validators of height h stands behind id in round r, as far
\* as the correct ones among them are concerned.
Backed(votes, type, h, r, id) ==
    \E Q \in SUBSET ActiveSet[h] :
        /\ Cardinality(Q) >= Quorum(h)
        /\ \A p \in Q \ Faulty : Cast(votes, p, type, h, r, id)

\* A vote n has stored for its current height: cast by a validator in force or
\* by n itself, and if by a correct node then broadcast by it, though maybe in
\* another round when it is a precommit for a block.
Authentic(n, type, vm) ==
    /\ vm.type = type
    /\ vm.height = height[n]
    /\ vm.voter \in ActiveSet[height[n]] \cup {n}
    /\ VerifySig(vm)

StoresAuthentic ==
    \A n \in Correct :
        /\ \A vm \in prevotes[n] : Authentic(n, "Prevote", vm)
        /\ \A vm \in precommits[n] : Authentic(n, "Precommit", vm)

\* No node has voted beyond the step of the round of the height it is in.
VoteBehind(vm, n) ==
    /\ vm.height <= height[n]
    /\ vm.height = height[n] =>
        /\ vm.round <= round[n]
        /\ vm.round = round[n] =>
            /\ step[n] # "Propose"
            /\ vm.type = "Precommit" => step[n] = "Precommit"

VotesInOrder ==
    \A vm \in sentVotes : vm.voter \in Correct /\ VoteBehind(vm, vm.voter)

\* A node is locked on a value only in a round it has completed, and a
\* validator only on a value that a quorum prevoted in that round.
LockBacked ==
    \A n \in Correct : lockedRound[n] # -1 =>
        /\ lockedRound[n] <= round[n]
        /\ lockedRound[n] = round[n] => step[n] = "Precommit"
        /\ n \in ActiveSet[height[n]] =>
              Backed(sentVotes, "Prevote", height[n], lockedRound[n],
                     lockedValue[n])

\* A precommit for a block was backed by a quorum of prevotes, and at the
\* current height its caster is still locked, on it or on a later one.
PrecommitsLocked ==
    \A vm \in sentVotes :
        vm.type = "Precommit" /\ vm.id # Nil =>
            /\ vm.voter \in ActiveSet[vm.height] =>
                  Backed(sentVotes, "Prevote", vm.height, vm.round, vm.id)
            /\ vm.height = height[vm.voter] =>
                  /\ vm.round <= lockedRound[vm.voter]
                  /\ vm.round = lockedRound[vm.voter] =>
                        vm.id = lockedValue[vm.voter]

\* A validator that has precommitted a block prevotes another one in a later
\* round only after a quorum has prevoted that other one in between.
LockRespected ==
    \A c, v \in sentVotes :
        /\ c.type = "Precommit" /\ v.type = "Prevote"
        /\ c.voter = v.voter /\ c.height = v.height
        /\ c.voter \in ActiveSet[c.height]
        /\ c.round < v.round
        /\ c.id # Nil /\ v.id # Nil /\ c.id # v.id
        => \E r \in Round :
              /\ c.round <= r /\ r < v.round
              /\ Backed(sentVotes, "Prevote", v.height, r, v.id)

\* An id says of which height its block is, so a precommit for a block cannot
\* serve at any other height than the one it was cast at.
SharesOfHeight ==
    \A vm \in sentVotes :
        vm.type = "Precommit" /\ vm.id # Nil => Len(vm.id) = vm.height

\* The signers of a certificate have signed its block, a block of that height,
\* and a validator's own certificates are complete.
BlockBacked(n, h, block) ==
    /\ h \in Height
    /\ Len(block.value) = h
    /\ n \in ActiveSet[h] => Certifies(block.qc, ActiveSet[h])
    /\ \A p \in block.qc : SignedId(p, block.value)

BlocksBacked ==
    \A n \in Correct :
        /\ height[n] = Len(blocks[n]) + 1
        /\ \A h \in DOMAIN blocks[n] : BlockBacked(n, h, blocks[n][h])

\* Nobody alters what correct nodes have signed: the faulty send votes under
\* their own keys only, and a sync is answered by correct nodes.
Unaltered ==
    /\ \A vm \in FaultyVotes : vm.voter \in Faulty
    /\ FaultyBlocks = {}

\* Every certificate is of precommits of one round ...
OneRound ==
    \A n \in Correct : \A h \in DOMAIN blocks[n] : OfOneRound(h, blocks[n][h])

\* ... and so are those to come: every precommit of a correct node is stored
\* as it was cast.
SharesHeard ==
    \A n \in Correct : \A vm \in precommits[n] :
        vm.voter \in Correct => vm \in sentVotes

OneRoundInv == SharesHeard /\ OneRound

\* Between the blocks of a sync batch the node stands at the start of a height.
SyncAtStart ==
    \A n \in Correct : phase[n] = "sync" => round[n] = 0 /\ step[n] = "Propose"

\* The inductive invariant: the votes of the correct nodes, their locks and
\* their certificates stay consistent with one another through every handler.
IndInv ==
    /\ TypeOK
    /\ StoresAuthentic
    /\ VotesInOrder
    /\ VoteOnce
    /\ LockBacked
    /\ PrecommitsLocked
    /\ LockRespected
    /\ SharesOfHeight
    /\ BlocksBacked
    /\ SyncAtStart
=============================================================================
