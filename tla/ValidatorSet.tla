---------------------------- MODULE ValidatorSet ----------------------------
(***************************************************************************)
(* The set of validators in force at one height (crates/ledger/src/        *)
(* validators.rs) and the two thresholds the engine derives from it.  A    *)
(* validator key is any value; a validator set is a finite set of keys.    *)
(***************************************************************************)
EXTENDS Integers, FiniteSets

\* ValidatorSet::bft: n - floor((n - 1) / 3), the count a block must gather.
Bft(S) == Cardinality(S) - ((Cardinality(S) - 1) \div 3)

\* Engine::f: the number of validators a quorum can do without.
MaxFaulty(S) == Cardinality(S) - Bft(S)

\* QuorumCertificate::verify: enough distinct signers belong to the set.
Certifies(signers, S) == Cardinality(signers \cap S) >= Bft(S)

\* The validator at index k of the set sorted by key id.
AtIndex(S, k, rank) ==
    CHOOSE p \in S : Cardinality({q \in S : rank[q] < rank[p]}) = k

\* Engine::proposer: sorted_by_id[(height + round) % n].
ProposerOf(S, height, round, rank) ==
    AtIndex(S, (height + round) % Cardinality(S), rank)
=============================================================================
