----------------------------- MODULE Governance -----------------------------
(***************************************************************************)
(* How the validator set changes (crates/ledger/src/governance.rs and the  *)
(* governance parts of engine.rs, messages.rs and node.rs).  The consensus *)
(* of module Engine is reduced to its outcome, one chain of blocks; what   *)
(* each node derives from that chain, and when, is the subject here:       *)
(* nodes are at different heights, hold different pools of pending         *)
(* changes, catch up by sync and reboot.                                   *)
(*                                                                         *)
(* A signed change is a record; two changes with the same commitment (the  *)
(* change and the ids of its approvers) are the same record.               *)
(***************************************************************************)
EXTENDS ValidatorSet, Lists

CONSTANTS
    Node,         \* the running nodes, each with the key of that name
    Genesis,      \* the validators of the genesis configuration
    Signed,       \* the signed changes in circulation
    Arrivals,     \* <<n, c>>: change c may be submitted or gossiped to n
    StrayValues,  \* governance a proposer may put forward of its own making
    MaxBlocks     \* bound: the length of the chain

VARIABLES
    chain,        \* the final blocks, one per height
    height,       \* height[n]: the height n works on
    registry,     \* registry[n]: the changes n has recorded, in order
    currentSet,   \* currentSet[n]: the validators in force, as n sees it
    govMempool    \* govMempool[n]: the changes n holds for a future block

vars == <<chain, height, registry, currentSet, govMempool>>

Height == 1..MaxBlocks + 1

ASSUME GovernanceAssumption ==
    /\ MaxBlocks \in Nat
    /\ Genesis # {} /\ IsFiniteSet(Genesis)
    /\ \A c \in Signed :
        /\ DOMAIN c = {"adds", "removes", "activation", "approvers"}
        /\ IsFiniteSet(c.adds) /\ IsFiniteSet(c.approvers)
        /\ c.activation \in Nat
    /\ Arrivals \subseteq Node \X Signed
    /\ StrayValues \subseteq Seq(Signed)

-----------------------------------------------------------------------------
(* The registry.                                                           *)

\* One change of active_keys: the removals, then the additions.
Applied(keys, change) == (keys \ change.removes) \cup change.adds

\* The loop the other way round: the change that was recorded first prevails.
AllAppliedReversed(keys, changes) ==
    LET after[i \in 0..Len(changes)] ==
            IF i = 0 THEN keys
            ELSE Applied(after[i - 1], changes[Len(changes) + 1 - i])
    IN  after[Len(changes)]

\* The loop of active_keys: one change after the other.
AllApplied(keys, changes) ==
    LET after[i \in 0..Len(changes)] ==
            IF i = 0 THEN keys ELSE Applied(after[i - 1], changes[i])
    IN  after[Len(changes)]

\* The changes that take effect at height a, in the order of recording.
ActivatedAt(changes, a) == Retain(changes, {c \in Signed : c.activation = a})

\* ValidatorRegistry::active_keys and active_set.  The sort by activation_height
\* is stable: the changes of one height after those of the heights before.
ActiveSet(changes, h) ==
    LET keys[a \in 0..h] ==
            AllApplied(IF a = 0 THEN Genesis ELSE keys[a - 1], ActivatedAt(changes, a))
    IN  keys[h]

\* Node::new: the changes recorded in a sequence of stored blocks.
Recorded(blocks) == Flatten([h \in DOMAIN blocks |-> blocks[h].governance])

\* SignedValidatorChange::is_authorized.
IsAuthorized(c, S) ==
    /\ c.adds \cup c.removes # {}
    /\ Certifies(c.approvers, S)

-----------------------------------------------------------------------------
(* Blocks.                                                                 *)

\* Everything that is pending, whether or not it is still authorized.
GovernanceUnfiltered(n) == govMempool[n]

\* Engine::get_value: the pending changes still authorized and in the future.
GovernanceOf(n) ==
    Retain(govMempool[n], {c \in Signed :
        IsAuthorized(c, currentSet[n]) /\ c.activation > height[n]})

\* Lets a change take effect at the height of the block that carries it.
IsValidAtOnce(governance, h, S) ==
    \A i \in DOMAIN governance :
        IsAuthorized(governance[i], S) /\ governance[i].activation >= h

\* Proposed::is_valid, what it asks of a block's governance.  A block without
\* any notarizes attestations instead.
IsValid(governance, h, S) ==
    \A i \in DOMAIN governance :
        IsAuthorized(governance[i], S) /\ governance[i].activation > h

\* What a proposer at height h may put forward, from its pool, from the time
\* before a change came in, or of its own making.
Values(h) ==
    {GovernanceOf(p) : p \in {q \in Node : height[q] = h}}
    \cup {<<>>} \cup StrayValues

\* The validators at height h whose checks the value passes: they sign it.
Backers(governance, h) ==
    {m \in Node : height[m] = h /\ IsValid(governance, h, currentSet[m])}

\* client::verify_proof and verify_anchored_proof, what they ask of the
\* certificate in a proof: the client has the genesis configuration and no blocks.
VerifyProof(block) == Certifies(block.signers, Genesis)

-----------------------------------------------------------------------------
Init ==
    /\ chain = <<>>
    /\ height = [n \in Node |-> 1]
    /\ registry = [n \in Node |-> <<>>]
    /\ currentSet = [n \in Node |-> Genesis]
    /\ govMempool = [n \in Node |-> <<>>]

\* Takes a change though the pool already holds it.
AddGovernanceAgain(n, c) ==
    /\ <<n, c>> \in Arrivals
    /\ IsAuthorized(c, currentSet[n])
    /\ c.activation > height[n]
    /\ govMempool' = [govMempool EXCEPT ![n] = Append(@, c)]
    /\ UNCHANGED <<chain, height, registry, currentSet>>

\* Engine::add_governance, for a client's submission and for gossip alike.
AddGovernance(n, c) ==
    /\ <<n, c>> \in Arrivals
    /\ IsAuthorized(c, currentSet[n])
    /\ c.activation > height[n]
    /\ c \notin Range(govMempool[n])
    /\ govMempool' = [govMempool EXCEPT ![n] = Append(@, c)]
    /\ UNCHANGED <<chain, height, registry, currentSet>>

\* Moves to the next height under the set of the height before.
RollForwardStale(n, block) ==
    /\ registry' = [registry EXCEPT ![n] = @ \o block.governance]
    /\ height' = [height EXCEPT ![n] = @ + 1]
    /\ currentSet' = [currentSet EXCEPT ![n] = ActiveSet(registry'[n], height[n])]

\* The part commit and apply_synced_block share: record the block's changes,
\* move to the next height, reload_set.
RollForward(n, block) ==
    /\ registry' = [registry EXCEPT ![n] = @ \o block.governance]
    /\ height' = [height EXCEPT ![n] = @ + 1]
    /\ currentSet' = [currentSet EXCEPT ![n] = ActiveSet(registry'[n], height'[n])]

\* A quorum certificate for the block at n's height, checked by n.
Accepts(n, block) ==
    /\ IsValid(block.governance, height[n], currentSet[n])
    /\ Certifies(block.signers, currentSet[n])

\* Engine::commit: enact the block and drop its changes from the pool.
Enact(n, block) ==
    /\ Accepts(n, block)
    /\ RollForward(n, block)
    /\ govMempool' = [govMempool EXCEPT ![n] =
            Retain(@, Signed \ Range(block.governance))]

\* The first commit at a height: a proposed value gathered a quorum.
Finalize(n) ==
    /\ height[n] = Len(chain) + 1
    /\ Len(chain) < MaxBlocks
    /\ \E governance \in Values(height[n]) :
        LET block == [governance |-> governance,
                      signers |-> Backers(governance, height[n])]
        IN  /\ Enact(n, block)
            /\ chain' = Append(chain, block)

\* A later commit of the same block, from the same votes.
Commit(n) ==
    /\ height[n] <= Len(chain)
    /\ Enact(n, chain[height[n]])
    /\ UNCHANGED chain

\* Engine::apply_synced_block.  Unlike commit it leaves the pool alone.
ApplySyncedBlock(n) ==
    /\ height[n] <= Len(chain)
    /\ Accepts(n, chain[height[n]])
    /\ RollForward(n, chain[height[n]])
    /\ UNCHANGED <<chain, govMempool>>

\* Rebuilds the registry from the genesis configuration alone.
RebuildNothing(n) == registry' = [registry EXCEPT ![n] = <<>>]

\* Node::new: replay the governance of every stored block.
Rebuild(n) ==
    registry' = [registry EXCEPT ![n] = Recorded(SubSeq(chain, 1, height[n] - 1))]

\* Node::new and Engine::with_registry after a restart.
Reboot(n) ==
    /\ Rebuild(n)
    /\ currentSet' = [currentSet EXCEPT ![n] = ActiveSet(registry'[n], height[n])]
    /\ govMempool' = [govMempool EXCEPT ![n] = <<>>]
    /\ UNCHANGED <<chain, height>>

Next ==
    \E n \in Node :
        \/ \E c \in Signed : AddGovernance(n, c)
        \/ Finalize(n)
        \/ Commit(n)
        \/ ApplySyncedBlock(n)
        \/ Reboot(n)

Spec == Init /\ [][Next]_vars

-----------------------------------------------------------------------------
(* Properties.                                                             *)

\* The types, and that a pool holds a change at most once.
TypeOK ==
    /\ chain \in Seq([governance : Seq(Signed), signers : SUBSET Node])
    /\ height \in [Node -> Height]
    /\ registry \in [Node -> Seq(Signed)]
    /\ DOMAIN currentSet = Node
    /\ \A n \in Node : IsFiniteSet(currentSet[n])
    /\ govMempool \in [Node -> Seq(Signed)]
    /\ \A n \in Node : IsInjective(govMempool[n])

\* The set in force at h, from the whole chain.
SetAt(h) == ActiveSet(Recorded(chain), h)

\* Whether it committed its way to a height, synced there or rebooted in
\* between, a node works with the validator set that the chain as a whole gives
\* for that height, though it has seen only the blocks below it.
SetFromChain == \A n \in Node : currentSet[n] = SetAt(height[n])

\* A block never changes who the validators are at a height that is already
\* being decided: a change activates strictly after the block that records it.
SetSettled ==
    [][LET recorded == Recorded(chain')
       IN  \A h \in 1..Len(chain) + 1 : ActiveSet(recorded, h) = SetAt(h)]_chain

\* Whoever replays the chain from genesis finds every block valid and certified
\* under the set in force at its height, however the set changes afterwards.
ChainVerifies ==
    \A h \in DOMAIN chain :
        /\ IsValid(chain[h].governance, h, SetAt(h))
        /\ Certifies(chain[h].signers, SetAt(h))

\* Catching up never gets stuck: whatever the others finalized passes the
\* checks of apply_synced_block at a node that comes to its height later.
NeverRefused ==
    \A n \in Node : height[n] <= Len(chain) => Accepts(n, chain[height[n]])

\* A pool may hold changes that were authorized by an earlier set, that have
\* been enacted meanwhile or whose time has passed; what a proposer makes of
\* its pool is still valid for every node at its height.
HonestValueValid ==
    \A p, n \in Node :
        height[p] = height[n] =>
            IsValid(GovernanceOf(p), height[n], currentSet[n])

\* The sequence without its element at i.
Without(changes, i) ==
    SubSeq(changes, 1, i - 1) \o SubSeq(changes, i + 1, Len(changes))

\* A node that has synced a block keeps its changes in the pool and may have
\* them sealed again, after others that undo them.  A change then counts from
\* where it was recorded last: without an earlier record of it the validators
\* would be the same at every height.
LastRecordingCounts ==
    LET recorded == Recorded(chain)
    IN  \A i, j \in DOMAIN recorded :
            i < j /\ recorded[i] = recorded[j] =>
                \A h \in Height : ActiveSet(Without(recorded, i), h) = SetAt(h)

\* SPEC.md: the proof's certificate is checked against "the set in force at
\* `header.height` (from genesis + governance, if any)", so what a node finds
\* final a client can verify.
ProofsVerifyOffline == \A h \in DOMAIN chain : VerifyProof(chain[h])
=============================================================================
