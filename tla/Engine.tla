------------------------------- MODULE Engine -------------------------------
(***************************************************************************)
(* The consensus engine of crates/consensus/src/engine.rs, one instance on *)
(* every correct node, joined by a network that may delay, reorder,        *)
(* duplicate and lose messages.                                            *)
(*                                                                         *)
(* A handler (add_attestation, on_message, on_timeout, resume) ends with   *)
(* `advance`, a loop that fires the first enabled rule until none is.  The *)
(* loop is modelled one rule per step: a handler leaves its node in phase  *)
(* "advance", and while a node is in that phase no other step of the       *)
(* system is possible until the loop has reached its fixpoint.  A handler  *)
(* call is thus an unbroken run of steps of one node.                      *)
(*                                                                         *)
(* A block id is the hash of a header that contains the id of the previous *)
(* block, so an id determines the whole lineage of its block.  It is       *)
(* modelled by that lineage: a sequence of headers, <<>> being genesis.    *)
(***************************************************************************)
EXTENDS ValidatorSet, Sequences

CONSTANTS
    Node,            \* every key that runs an engine or votes
    Faulty,          \* the keys whose messages obey no rule (or never come)
    Rank,            \* Node -> Nat, the order of the key ids
    ActiveSet,       \* height -> set of validators in force at that height
    Item,            \* what a block may notarize
    Arrivals,        \* <<n, a>>: the attestation a may be handed to node n
    Links,           \* round -> {<<p, type, n>>: p's messages can reach n}
    Time,            \* the clock readings a proposer may stamp on a block
    MaxTxs,          \* MAX_TXS, the most items one block holds
    FaultyVotes,     \* the votes that faulty nodes may send or pass on altered
    FaultyProposals, \* the proposals the faulty keys may ever send
    FaultyBlocks,    \* the blocks a faulty peer may answer a sync with
    MaxHeight,       \* bound: no handler runs above this height
    MaxRound         \* bound: no round above this one is started

VARIABLES
    height, round, step, tip,
    lockedValue, lockedRound, validValue, validRound,
    mempool,
    proposals, prevotes, precommits,      \* what the node has ingested
    prevoteTimeoutStarted, precommitTimeoutStarted, polkaApplied,
    parked,
    phase,          \* "idle", "advance" (in the loop) or "sync" (in Blocks)
    timers,         \* every timeout the driver has been asked to schedule
    sentProposals,  \* every proposal broadcast so far
    sentVotes,      \* every vote broadcast so far
    blocks          \* per node, the sequence of finalized blocks

lockVars == <<lockedValue, lockedRound, validValue, validRound>>
chainVars == <<height, tip, blocks>>
onceVars == <<prevoteTimeoutStarted, precommitTimeoutStarted, polkaApplied>>
voteVars == <<prevotes, precommits, sentVotes>>
proposeVars == <<proposals, sentProposals, timers>>
vars == <<lockVars, chainVars, onceVars, voteVars, proposeVars,
          round, step, mempool, parked, phase>>

Correct == Node \ Faulty
Height == 1..(MaxHeight + 1)
Round == 0..MaxRound

Header == [items : SUBSET Item, time : Time, wf : BOOLEAN]
Value == Seq(Header)

\* No block: the nil of a vote, and the None of locked_value and valid_value.
Nil == <<>>

MsgType == {"Proposal", "Prevote", "Precommit"}
Vote == [type : {"Prevote", "Precommit"}, height : Height, round : Round,
         id : Value, voter : Node]
Proposal == [height : Height, round : Round, validRound : Round \cup {-1},
             value : Value, proposer : Node]
Timer == [node : Correct, height : Height, round : Round,
          kind : {"Propose", "Prevote", "Precommit"}]

\* In a certificate only the keys whose signature is valid count.
Block == [value : Value, qc : SUBSET Node]

ASSUME BoundsAssumption == MaxHeight \in Nat /\ MaxRound \in Nat /\ MaxTxs \in Nat

ASSUME SetsAssumption ==
    /\ IsFiniteSet(Node)
    /\ Faulty \subseteq Node
    /\ ActiveSet \in [Height -> (SUBSET Node) \ {{}}]
    /\ Links \in [Round -> SUBSET (Node \X MsgType \X Node)]

\* A faulty node may send any vote, under any name: VerifySig says which ones
\* pass.  The signature of a proposal covers all of it, so that a proposal
\* which passes and was not sent by its proposer is signed with a faulty key.
ASSUME FaultyAssumption ==
    /\ FaultyVotes \subseteq Vote
    /\ FaultyBlocks \subseteq Block
    /\ FaultyProposals \subseteq Proposal
    /\ \A pm \in FaultyProposals : pm.proposer \in Faulty /\ pm.value # Nil

\* At every height the faulty validators are at most the f of the set.
ASSUME FaultBound ==
    \A h \in Height :
        Cardinality(ActiveSet[h] \cap Faulty) <= MaxFaulty(ActiveSet[h])

-----------------------------------------------------------------------------
(* Pure helpers.                                                           *)

Quorum(h) == Bft(ActiveSet[h])

Proposer(h, r) == ProposerOf(ActiveSet[h], h, r, Rank)

LastHeader(v) == v[Len(v)]
Parent(v) == SubSeq(v, 1, Len(v) - 1)

\* Proposed::is_valid: not empty, at this height, on this tip, and (wf) the
\* count, the roots and the signatures inside the block check out.
IsValid(v, parent, h) ==
    /\ v # Nil
    /\ Len(v) = h
    /\ Parent(v) = parent
    /\ LastHeader(v).items # {}
    /\ LastHeader(v).wf

\* What take(MAX_TXS) may yield; the order of arrival is abstracted away.
Batches(pool) ==
    {b \in SUBSET pool :
        Cardinality(b) = IF Cardinality(pool) <= MaxTxs
                         THEN Cardinality(pool) ELSE MaxTxs}

\* The voters whose vote of round r in the store is for id (count_prevotes
\* and count_precommits with Match::Id, or Match::Nil when id = Nil).
VotersFor(store, r, id) ==
    {p \in Node : \E m \in store : m.voter = p /\ m.round = r /\ m.id = id}

\* The voters with any vote of round r in the store (Match::Any).
VotersIn(store, r) ==
    {p \in Node : \E m \in store : m.voter = p /\ m.round = r}

\* HashMap::insert under (round, voter): a newer vote replaces the older.
Insert(store, vm) ==
    {m \in store : m.voter # vm.voter \/ m.round # vm.round} \cup {vm}

\* HashMap::entry(round).or_insert: the first proposal of a round stays.
OrInsert(props, pm) ==
    IF \E q \in props : q.round = pm.round THEN props ELSE props \cup {pm}

MakeVote(n, type, id) ==
    [type |-> type, height |-> height[n], round |-> round[n],
     id |-> id, voter |-> n]

-----------------------------------------------------------------------------
(* Init is the state after `start` on a fresh chain: the mempool is empty, *)
(* so start_round(0) parks.                                                *)

Init ==
    /\ height = [n \in Correct |-> 1]
    /\ round = [n \in Correct |-> 0]
    /\ step = [n \in Correct |-> "Propose"]
    /\ tip = [n \in Correct |-> Nil]
    /\ lockedValue = [n \in Correct |-> Nil]
    /\ lockedRound = [n \in Correct |-> -1]
    /\ validValue = [n \in Correct |-> Nil]
    /\ validRound = [n \in Correct |-> -1]
    /\ mempool = [n \in Correct |-> {}]
    /\ proposals = [n \in Correct |-> {}]
    /\ prevotes = [n \in Correct |-> {}]
    /\ precommits = [n \in Correct |-> {}]
    /\ prevoteTimeoutStarted = [n \in Correct |-> {}]
    /\ precommitTimeoutStarted = [n \in Correct |-> {}]
    /\ polkaApplied = [n \in Correct |-> {}]
    /\ parked = [n \in Correct |-> TRUE]
    /\ phase = [n \in Correct |-> "idle"]
    /\ timers = {}
    /\ sentProposals = {}
    /\ sentVotes = {}
    /\ blocks = [n \in Correct |-> <<>>]

-----------------------------------------------------------------------------
(* Parts of handlers.  Those that run after a reset take the state they    *)
(* run in as parameters: props the proposal store, pool the mempool,       *)
(* parent the tip, vv and vr the valid value and its round.                *)

Schedule(n, h, r, kind) ==
    timers' = timers \cup
        {[node |-> n, height |-> h, round |-> r, kind |-> kind]}

\* enter_propose: the proposer broadcasts its valid value, or a fresh block
\* unless that would be empty; everybody else arms the propose timeout.
EnterPropose(n, h, r, props, pool, parent, vv, vr) ==
    \E time \in Time, batch \in Batches(pool) :
        LET fresh == Append(parent, [items |-> batch, time |-> time, wf |-> TRUE])
            value == IF vv # Nil THEN vv ELSE fresh
            pm == [height |-> h, round |-> r, value |-> value, proposer |-> n,
                   validRound |-> IF vv # Nil THEN vr ELSE -1]
        IN  IF Proposer(h, r) = n /\ LastHeader(value).items # {}
            THEN /\ proposals' = [proposals EXCEPT ![n] = OrInsert(props, pm)]
                 /\ sentProposals' = sentProposals \cup {pm}
                 /\ UNCHANGED timers
            ELSE /\ proposals' = [proposals EXCEPT ![n] = props]
                 /\ Schedule(n, h, r, "Propose")
                 /\ UNCHANGED sentProposals

\* Parks in any round, whatever the node has already done at this height.
StartRoundParksLate(n, h, r, props, pool, parent, vv, vr) ==
    /\ round' = [round EXCEPT ![n] = r]
    /\ step' = [step EXCEPT ![n] = "Propose"]
    /\ IF vv = Nil /\ pool = {}
       THEN /\ parked' = [parked EXCEPT ![n] = TRUE]
            /\ proposals' = [proposals EXCEPT ![n] = props]
            /\ UNCHANGED <<sentProposals, timers>>
       ELSE /\ parked' = [parked EXCEPT ![n] = FALSE]
            /\ EnterPropose(n, h, r, props, pool, parent, vv, vr)

\* start_round: idle at round 0 of a height when there is nothing to notarize.
StartRound(n, h, r, props, pool, parent, vv, vr) ==
    /\ round' = [round EXCEPT ![n] = r]
    /\ step' = [step EXCEPT ![n] = "Propose"]
    /\ IF r = 0 /\ vv = Nil /\ pool = {}
       THEN /\ parked' = [parked EXCEPT ![n] = TRUE]
            /\ proposals' = [proposals EXCEPT ![n] = props]
            /\ UNCHANGED <<sentProposals, timers>>
       ELSE /\ parked' = [parked EXCEPT ![n] = FALSE]
            /\ EnterPropose(n, h, r, props, pool, parent, vv, vr)

\* start_round at the current height, nothing else having changed.
StartRoundHere(n, r) ==
    StartRound(n, height[n], r, proposals[n], mempool[n], tip[n],
               validValue[n], validRound[n])

\* unpark: leave the idle state and enter the current round.
Unpark(n, props, pool) ==
    /\ parked' = [parked EXCEPT ![n] = FALSE]
    /\ EnterPropose(n, height[n], round[n], props, pool, tip[n],
                    validValue[n], validRound[n])

EmitPrevote(n, id) ==
    LET vm == MakeVote(n, "Prevote", id)
    IN  /\ prevotes' = [prevotes EXCEPT ![n] = Insert(@, vm)]
        /\ sentVotes' = sentVotes \cup {vm}
        /\ step' = [step EXCEPT ![n] = "Prevote"]

EmitPrecommit(n, id) ==
    LET vm == MakeVote(n, "Precommit", id)
    IN  /\ precommits' = [precommits EXCEPT ![n] = Insert(@, vm)]
        /\ sentVotes' = sentVotes \cup {vm}
        /\ step' = [step EXCEPT ![n] = "Precommit"]

\* Counts the new height twice.
AppendBlockTwice(n, block) ==
    /\ blocks' = [blocks EXCEPT ![n] = Append(@, block)]
    /\ mempool' = [mempool EXCEPT ![n] = @ \ LastHeader(block.value).items]
    /\ height' = [height EXCEPT ![n] = @ + 2]
    /\ tip' = [tip EXCEPT ![n] = block.value]

\* Forgets to move the tip.
AppendBlockStaleTip(n, block) ==
    /\ blocks' = [blocks EXCEPT ![n] = Append(@, block)]
    /\ mempool' = [mempool EXCEPT ![n] = @ \ LastHeader(block.value).items]
    /\ height' = [height EXCEPT ![n] = @ + 1]
    /\ UNCHANGED tip

\* The block goes to the store and becomes the tip, its items leave the mempool.
AppendBlock(n, block) ==
    /\ blocks' = [blocks EXCEPT ![n] = Append(@, block)]
    /\ mempool' = [mempool EXCEPT ![n] = @ \ LastHeader(block.value).items]
    /\ height' = [height EXCEPT ![n] = @ + 1]
    /\ tip' = [tip EXCEPT ![n] = block.value]

\* Forgets to release the lock of the height that is over.
ReleaseLockNever(n) == UNCHANGED <<lockedValue, lockedRound>>

ReleaseLock(n) ==
    /\ lockedValue' = [lockedValue EXCEPT ![n] = Nil]
    /\ lockedRound' = [lockedRound EXCEPT ![n] = -1]

\* The roll forward shared by commit and apply_synced_block: the block is
\* appended and the next height starts from scratch.
RollForward(n, block) ==
    /\ AppendBlock(n, block)
    /\ ReleaseLock(n)
    /\ validValue' = [validValue EXCEPT ![n] = Nil]
    /\ validRound' = [validRound EXCEPT ![n] = -1]
    /\ prevotes' = [prevotes EXCEPT ![n] = {}]
    /\ precommits' = [precommits EXCEPT ![n] = {}]
    /\ prevoteTimeoutStarted' = [prevoteTimeoutStarted EXCEPT ![n] = {}]
    /\ precommitTimeoutStarted' = [precommitTimeoutStarted EXCEPT ![n] = {}]
    /\ polkaApplied' = [polkaApplied EXCEPT ![n] = {}]

SetPhase(n, p) == phase' = [phase EXCEPT ![n] = p]

-----------------------------------------------------------------------------
(* Handlers.  Each runs when no other handler is running.                  *)

Idle == \A n \in Correct : phase[n] = "idle"

\* A node whose next handler may start (MaxHeight bounds the run).
Ready(n) == Idle /\ height[n] <= MaxHeight

\* add_attestation: advance is only called when the push un-parks the node.
AddAttestation(n, a) ==
    /\ Ready(n)
    /\ <<n, a>> \in Arrivals
    /\ a \notin mempool[n]
    /\ mempool' = [mempool EXCEPT ![n] = @ \cup {a}]
    /\ IF parked[n]
       THEN /\ Unpark(n, proposals[n], mempool[n] \cup {a})
            /\ SetPhase(n, "advance")
       ELSE UNCHANGED <<parked, proposeVars, phase>>
    /\ UNCHANGED <<lockVars, chainVars, onceVars, voteVars, round, step>>

\* What ingest_proposal accepts: a proposal for this height by the proposer
\* of its round, the first for that round.
AcceptsProposal(n, pm) ==
    /\ <<pm.proposer, "Proposal", n>> \in Links[pm.round]
    /\ pm.height = height[n]
    /\ pm.proposer = Proposer(height[n], pm.round)
    /\ \A q \in proposals[n] : q.round # pm.round

\* on_message with a proposal.  One that is not accepted changes nothing.
OnProposal(n, pm) ==
    LET props == proposals[n] \cup {pm}
    IN  /\ Ready(n)
        /\ pm \in sentProposals \cup FaultyProposals
        /\ AcceptsProposal(n, pm)
        /\ IF parked[n] /\ \E q \in props : q.round = round[n]
           THEN Unpark(n, props, mempool[n])
           ELSE /\ proposals' = [proposals EXCEPT ![n] = props]
                /\ UNCHANGED <<parked, sentProposals, timers>>
        /\ SetPhase(n, "advance")
        /\ UNCHANGED <<lockVars, chainVars, onceVars, voteVars,
                       round, step, mempool>>

VoteStore(n, vm) == IF vm.type = "Prevote" THEN prevotes[n] ELSE precommits[n]

\* There is a signature of the bare id under p's key: p has precommitted id,
\* at whatever height and in whatever round.
SignedId(p, id) ==
    \/ p \in Faulty
    \/ \E w \in sentVotes : w.type = "Precommit" /\ w.voter = p /\ w.id = id

\* verify_vote: the signature of a prevote, and of a precommit for nil, covers
\* the height and the round; that of a precommit for a block is the share of
\* its certificate and covers the block id alone.
VerifySig(vm) ==
    \/ vm.voter \in Faulty
    \/ vm \in sentVotes
    \/ vm.type = "Precommit" /\ vm.id # Nil /\ SignedId(vm.voter, vm.id)

\* What ingest_vote accepts: a vote for this height by a validator in force,
\* the first of its type under that round and voter.
AcceptsVote(n, vm) ==
    /\ <<vm.voter, vm.type, n>> \in Links[vm.round]
    /\ vm.height = height[n]
    /\ vm.voter \in ActiveSet[height[n]]
    /\ VerifySig(vm)
    /\ vm.voter \notin VotersIn(VoteStore(n, vm), vm.round)

\* on_message with a vote.  One that is not accepted changes nothing, and no
\* vote un-parks the node by itself.
OnVote(n, vm) ==
    /\ Ready(n)
    /\ vm \in sentVotes \cup FaultyVotes
    /\ AcceptsVote(n, vm)
    /\ IF vm.type = "Prevote"
       THEN /\ prevotes' = [prevotes EXCEPT ![n] = @ \cup {vm}]
            /\ UNCHANGED precommits
       ELSE /\ precommits' = [precommits EXCEPT ![n] = @ \cup {vm}]
            /\ UNCHANGED prevotes
    /\ SetPhase(n, "advance")
    /\ UNCHANGED <<lockVars, chainVars, onceVars, proposeVars,
                   round, step, mempool, parked, sentVotes>>

\* A timer that still matches its node's height and round.  Any other one is
\* ignored by on_timeout, and a timer that has fired never matches again.
Due(n, kind) ==
    [node |-> n, height |-> height[n], round |-> round[n], kind |-> kind]
        \in timers

\* Prevotes nil even if the node has prevoted in the meantime.
OnTimeoutProposeUnguarded(n) ==
    /\ Ready(n)
    /\ Due(n, "Propose")
    /\ EmitPrevote(n, Nil)
    /\ SetPhase(n, "advance")
    /\ UNCHANGED <<lockVars, chainVars, onceVars, proposeVars,
                   round, mempool, parked, precommits>>

\* on_timeout(Propose): no acceptable proposal came in time, prevote nil.
OnTimeoutPropose(n) ==
    /\ Ready(n)
    /\ Due(n, "Propose")
    /\ step[n] = "Propose"
    /\ EmitPrevote(n, Nil)
    /\ SetPhase(n, "advance")
    /\ UNCHANGED <<lockVars, chainVars, onceVars, proposeVars,
                   round, mempool, parked, precommits>>

\* on_timeout(Prevote): the prevotes stayed split, precommit nil.
OnTimeoutPrevote(n) ==
    /\ Ready(n)
    /\ Due(n, "Prevote")
    /\ step[n] = "Prevote"
    /\ EmitPrecommit(n, Nil)
    /\ SetPhase(n, "advance")
    /\ UNCHANGED <<lockVars, chainVars, onceVars, proposeVars,
                   round, mempool, parked, prevotes>>

\* on_timeout(Precommit): in any step, give the round up.
OnTimeoutPrecommit(n) ==
    /\ Ready(n)
    /\ Due(n, "Precommit")
    /\ round[n] < MaxRound
    /\ StartRoundHere(n, round[n] + 1)
    /\ SetPhase(n, "advance")
    /\ UNCHANGED <<lockVars, chainVars, onceVars, voteVars, mempool>>

\* What a peer may answer with at height h: the block in its store if it is a
\* correct node, any block if it is not.
Offered(h) ==
    {blocks[m][h] : m \in {k \in Correct : h \in DOMAIN blocks[k]}}
        \cup FaultyBlocks

\* Counts the signers of a certificate without verifying their signatures.
ApplySyncedBlockUnverified(n, block) ==
    /\ Ready(n) \/ (phase[n] = "sync" /\ height[n] <= MaxHeight)
    /\ block \in Offered(height[n])
    /\ IsValid(block.value, tip[n], height[n])
    /\ Certifies(block.qc, ActiveSet[height[n]])
    /\ RollForward(n, block)
    /\ proposals' = [proposals EXCEPT ![n] = {}]
    /\ round' = [round EXCEPT ![n] = 0]
    /\ step' = [step EXCEPT ![n] = "Propose"]
    /\ parked' = [parked EXCEPT ![n] = FALSE]
    /\ SetPhase(n, "sync")
    /\ UNCHANGED <<sentProposals, sentVotes, timers>>

\* The Blocks handler of node.rs, one call of apply_synced_block: a block that
\* links to the tip, with a certificate of valid signatures of its id.
ApplySyncedBlock(n, block) ==
    /\ Ready(n) \/ (phase[n] = "sync" /\ height[n] <= MaxHeight)
    /\ block \in Offered(height[n])
    /\ IsValid(block.value, tip[n], height[n])
    /\ Certifies(block.qc, ActiveSet[height[n]])
    /\ \A p \in block.qc : SignedId(p, block.value)
    /\ RollForward(n, block)
    /\ proposals' = [proposals EXCEPT ![n] = {}]
    /\ round' = [round EXCEPT ![n] = 0]
    /\ step' = [step EXCEPT ![n] = "Propose"]
    /\ parked' = [parked EXCEPT ![n] = FALSE]
    /\ SetPhase(n, "sync")
    /\ UNCHANGED <<sentProposals, sentVotes, timers>>

\* resume, after the last block of the batch has been applied.
Resume(n) ==
    /\ phase[n] = "sync"
    /\ StartRoundHere(n, 0)
    /\ SetPhase(n, "advance")
    /\ UNCHANGED <<lockVars, chainVars, onceVars, voteVars, mempool>>

-----------------------------------------------------------------------------
(* The rules of advance.  A Can... predicate is a rule's condition; the    *)
(* loop tries the rules in the order below and fires the first that can.   *)

Count(store, r, id) == Cardinality(VotersFor(store, r, id))
CountAny(store, r) == Cardinality(VotersIn(store, r))

\* The proposal of the node's current round, if it has come: none or one.
CurrentProposals(n) == {pm \in proposals[n] : pm.round = round[n]}

\* Is satisfied with one precommit more than the faulty validators can cast.
CommittableEarly(n, pm) ==
    /\ height[n] <= MaxHeight
    /\ Count(precommits[n], pm.round, pm.value) > MaxFaulty(ActiveSet[height[n]])
    /\ IsValid(pm.value, tip[n], height[n])

Committable(n, pm) ==
    /\ height[n] <= MaxHeight
    /\ Count(precommits[n], pm.round, pm.value) >= Quorum(height[n])
    /\ IsValid(pm.value, tip[n], height[n])
CanCommit(n) == \E pm \in proposals[n] : Committable(n, pm)

\* The later rounds in which more than f validators have been heard.
SkipRounds(n) ==
    {r \in Round :
        /\ r > round[n]
        /\ Cardinality(VotersIn(prevotes[n] \cup precommits[n], r))
              > MaxFaulty(ActiveSet[height[n]])}
CanSkip(n) == SkipRounds(n) # {}

CanPrevote(n) ==
    /\ step[n] = "Propose"
    /\ \E pm \in CurrentProposals(n) : pm.validRound = -1

\* A re-proposal, with the polka of its valid round at hand.
Justified(n, pm) ==
    /\ pm.validRound >= 0
    /\ pm.validRound < round[n]
    /\ Count(prevotes[n], pm.validRound, pm.value) >= Quorum(height[n])
CanPrevoteAgain(n) ==
    /\ step[n] = "Propose"
    /\ \E pm \in CurrentProposals(n) : Justified(n, pm)

CanSchedulePrevote(n) ==
    /\ step[n] = "Prevote"
    /\ round[n] \notin prevoteTimeoutStarted[n]
    /\ CountAny(prevotes[n], round[n]) >= Quorum(height[n])

Polka(n, pm) ==
    /\ Count(prevotes[n], round[n], pm.value) >= Quorum(height[n])
    /\ IsValid(pm.value, tip[n], height[n])
CanPrecommit(n) ==
    /\ step[n] # "Propose"
    /\ round[n] \notin polkaApplied[n]
    /\ \E pm \in CurrentProposals(n) : Polka(n, pm)

CanPrecommitNil(n) ==
    /\ step[n] = "Prevote"
    /\ Count(prevotes[n], round[n], Nil) >= Quorum(height[n])

\* Waits for one precommit more than a quorum.
CanSchedulePrecommitLate(n) ==
    /\ round[n] \notin precommitTimeoutStarted[n]
    /\ CountAny(precommits[n], round[n]) > Quorum(height[n])

CanSchedulePrecommit(n) ==
    /\ round[n] \notin precommitTimeoutStarted[n]
    /\ CountAny(precommits[n], round[n]) >= Quorum(height[n])

\* Turn2(n)..Turn9(n): the loop has found the first 1..8 rules not enabled.
Turn1(n) == phase[n] = "advance"
Turn2(n) == Turn1(n) /\ ~CanCommit(n)
Turn3(n) == Turn2(n) /\ ~CanSkip(n)
Turn4(n) == Turn3(n) /\ ~CanPrevote(n)
Turn5(n) == Turn4(n) /\ ~CanPrevoteAgain(n)
Turn6(n) == Turn5(n) /\ ~CanSchedulePrevote(n)
Turn7(n) == Turn6(n) /\ ~CanPrecommit(n)
Turn8(n) == Turn7(n) /\ ~CanPrecommitNil(n)
Turn9(n) == Turn8(n) /\ ~CanSchedulePrecommit(n)

\* try_commit and commit: a proposal of any round with a precommit quorum.
\* The certificate holds the matching precommits; start_round(0) follows.
TryCommit(n) ==
    /\ Turn1(n)
    /\ \E pm \in proposals[n] :
        /\ Committable(n, pm)
        /\ RollForward(n, [value |-> pm.value,
              qc |-> VotersFor(precommits[n], pm.round, pm.value)])
        /\ StartRound(n, height[n] + 1, 0, {},
              mempool[n] \ LastHeader(pm.value).items, pm.value, Nil, -1)
    /\ UNCHANGED <<sentVotes, phase>>

\* try_skip: jump to the lowest such round.
TrySkip(n) ==
    /\ Turn2(n)
    /\ \E r \in SkipRounds(n) :
        /\ \A s \in SkipRounds(n) : r <= s
        /\ StartRoundHere(n, r)
    /\ UNCHANGED <<lockVars, chainVars, onceVars, voteVars, mempool, phase>>

\* Accepts a fresh proposal without a look at the lock.
TryPrevoteIgnoringLock(n) ==
    /\ Turn3(n)
    /\ step[n] = "Propose"
    /\ \E pm \in CurrentProposals(n) :
        /\ pm.validRound = -1
        /\ EmitPrevote(n, IF IsValid(pm.value, tip[n], height[n])
                          THEN pm.value ELSE Nil)
    /\ UNCHANGED <<lockVars, chainVars, onceVars, proposeVars, round,
                   mempool, parked, phase, precommits>>

\* try_prevote_on_proposal: a fresh value is acceptable to a node that is not
\* locked, or is locked on it.
TryPrevoteOnProposal(n) ==
    /\ Turn3(n)
    /\ step[n] = "Propose"
    /\ \E pm \in CurrentProposals(n) :
        /\ pm.validRound = -1
        /\ LET ok == /\ IsValid(pm.value, tip[n], height[n])
                     /\ lockedRound[n] = -1 \/ lockedValue[n] = pm.value
           IN  EmitPrevote(n, IF ok THEN pm.value ELSE Nil)
    /\ UNCHANGED <<lockVars, chainVars, onceVars, proposeVars, round,
                   mempool, parked, phase, precommits>>

\* try_prevote_on_reproposal: a polka at least as recent as the lock frees it.
TryPrevoteOnReproposal(n) ==
    /\ Turn4(n)
    /\ step[n] = "Propose"
    /\ \E pm \in CurrentProposals(n) :
        /\ Justified(n, pm)
        /\ LET ok == /\ IsValid(pm.value, tip[n], height[n])
                     /\ \/ lockedRound[n] <= pm.validRound
                        \/ lockedValue[n] = pm.value
           IN  EmitPrevote(n, IF ok THEN pm.value ELSE Nil)
    /\ UNCHANGED <<lockVars, chainVars, onceVars, proposeVars, round,
                   mempool, parked, phase, precommits>>

TrySchedulePrevoteTimeout(n) ==
    /\ Turn5(n)
    /\ CanSchedulePrevote(n)
    /\ prevoteTimeoutStarted' =
        [prevoteTimeoutStarted EXCEPT ![n] = @ \cup {round[n]}]
    /\ Schedule(n, height[n], round[n], "Prevote")
    /\ UNCHANGED <<lockVars, chainVars, voteVars, proposals, sentProposals,
                   precommitTimeoutStarted, polkaApplied,
                   round, step, mempool, parked, phase>>

\* try_precommit_on_polka: lock and precommit if still in the prevote step;
\* in either case the value becomes the valid one.
TryPrecommitOnPolka(n) ==
    /\ Turn6(n)
    /\ step[n] # "Propose"
    /\ round[n] \notin polkaApplied[n]
    /\ \E pm \in CurrentProposals(n) :
        /\ Polka(n, pm)
        /\ IF step[n] = "Prevote"
           THEN /\ lockedValue' = [lockedValue EXCEPT ![n] = pm.value]
                /\ lockedRound' = [lockedRound EXCEPT ![n] = round[n]]
                /\ EmitPrecommit(n, pm.value)
           ELSE UNCHANGED <<lockedValue, lockedRound,
                            precommits, sentVotes, step>>
        /\ validValue' = [validValue EXCEPT ![n] = pm.value]
        /\ validRound' = [validRound EXCEPT ![n] = round[n]]
    /\ polkaApplied' = [polkaApplied EXCEPT ![n] = @ \cup {round[n]}]
    /\ UNCHANGED <<chainVars, proposeVars, round, mempool, parked, phase,
                   prevotes, prevoteTimeoutStarted, precommitTimeoutStarted>>

TryPrecommitNil(n) ==
    /\ Turn7(n)
    /\ CanPrecommitNil(n)
    /\ EmitPrecommit(n, Nil)
    /\ UNCHANGED <<lockVars, chainVars, onceVars, proposeVars, round,
                   mempool, parked, phase, prevotes>>

TrySchedulePrecommitTimeout(n) ==
    /\ Turn8(n)
    /\ CanSchedulePrecommit(n)
    /\ precommitTimeoutStarted' =
        [precommitTimeoutStarted EXCEPT ![n] = @ \cup {round[n]}]
    /\ Schedule(n, height[n], round[n], "Precommit")
    /\ UNCHANGED <<lockVars, chainVars, voteVars, proposals, sentProposals,
                   prevoteTimeoutStarted, polkaApplied,
                   round, step, mempool, parked, phase>>

\* No rule is enabled: the loop breaks and the handler returns.
AdvanceDone(n) ==
    /\ Turn9(n)
    /\ SetPhase(n, "idle")
    /\ UNCHANGED <<lockVars, chainVars, onceVars, voteVars, proposeVars,
                   round, step, mempool, parked>>

-----------------------------------------------------------------------------
Advance(n) ==
    \/ TryCommit(n)
    \/ TrySkip(n)
    \/ TryPrevoteOnProposal(n)
    \/ TryPrevoteOnReproposal(n)
    \/ TrySchedulePrevoteTimeout(n)
    \/ TryPrecommitOnPolka(n)
    \/ TryPrecommitNil(n)
    \/ TrySchedulePrecommitTimeout(n)
    \/ AdvanceDone(n)

OnTimeout(n) == OnTimeoutPropose(n) \/ OnTimeoutPrevote(n) \/ OnTimeoutPrecommit(n)

OnMessage(n) ==
    \/ \E pm \in sentProposals \cup FaultyProposals : OnProposal(n, pm)
    \/ \E vm \in sentVotes \cup FaultyVotes : OnVote(n, vm)

Next ==
    \E n \in Correct :
        \/ \E a \in Item : AddAttestation(n, a)
        \/ OnMessage(n)
        \/ OnTimeout(n)
        \/ \E block \in Offered(height[n]) : ApplySyncedBlock(n, block)
        \/ Resume(n)
        \/ Advance(n)

Spec == Init /\ [][Next]_vars

-----------------------------------------------------------------------------
(* Properties.                                                             *)

\* Every variable of the engine stays in the range its Rust type gives it.
TypeOK ==
    /\ height \in [Correct -> Height]
    /\ round \in [Correct -> Round]
    /\ step \in [Correct -> {"Propose", "Prevote", "Precommit"}]
    /\ tip \in [Correct -> Value]
    /\ lockedValue \in [Correct -> Value]
    /\ lockedRound \in [Correct -> Round \cup {-1}]
    /\ validValue \in [Correct -> Value]
    /\ validRound \in [Correct -> Round \cup {-1}]
    /\ mempool \in [Correct -> SUBSET Item]
    /\ proposals \in [Correct -> SUBSET Proposal]
    /\ prevotes \in [Correct -> SUBSET Vote]
    /\ precommits \in [Correct -> SUBSET Vote]
    /\ prevoteTimeoutStarted \in [Correct -> SUBSET Round]
    /\ precommitTimeoutStarted \in [Correct -> SUBSET Round]
    /\ polkaApplied \in [Correct -> SUBSET Round]
    /\ parked \in [Correct -> BOOLEAN]
    /\ phase \in [Correct -> {"idle", "advance", "sync"}]
    /\ timers \subseteq Timer
    /\ sentProposals \subseteq Proposal
    /\ sentVotes \subseteq Vote
    /\ blocks \in [Correct -> Seq(Block)]

CastPrecommit(p, h, r, id) ==
    [type |-> "Precommit", height |-> h, round |-> r, id |-> id, voter |-> p]
        \in sentVotes

\* The correct signers of the certificate precommitted its block in one and
\* the same round (their shares do not say so: no round is signed).
OfOneRound(h, block) ==
    \E r \in Round : \A p \in block.qc \ Faulty :
        CastPrecommit(p, h, r, block.value)

\* Finality: of the blocks of one height that correct nodes have finalized,
\* by their own commit or by a sync, no two different ones carry complete
\* certificates whose precommits were each cast in one round.
Agreement ==
    \A n, m \in Correct :
        \A h \in DOMAIN blocks[n] \cap DOMAIN blocks[m] :
            LET b == blocks[n][h]
                c == blocks[m][h]
            IN  /\ Certifies(b.qc, ActiveSet[h]) /\ OfOneRound(h, b)
                /\ Certifies(c.qc, ActiveSet[h]) /\ OfOneRound(h, c)
                => b.value = c.value

\* Whatever rounds the shares of two certificates come from: if they finalize
\* different blocks of one height, then a correct validator has signed both.
ConflictSignedTwice ==
    \A n, m \in Correct :
        \A h \in DOMAIN blocks[n] \cap DOMAIN blocks[m] :
            LET b == blocks[n][h]
                c == blocks[m][h]
            IN  /\ Certifies(b.qc, ActiveSet[h])
                /\ Certifies(c.qc, ActiveSet[h])
                /\ b.value # c.value
                => \E p \in (b.qc \cap c.qc \cap ActiveSet[h]) \ Faulty :
                      /\ \E r \in Round : CastPrecommit(p, h, r, b.value)
                      /\ \E r \in Round : CastPrecommit(p, h, r, c.value)

\* A validator only finalizes a block of its height with a certificate that
\* the verifier (QuorumCertificate::verify) accepts.
MembersCommitCertified ==
    \A n \in Correct : \A h \in DOMAIN blocks[n] :
        n \in ActiveSet[h] => Certifies(blocks[n][h].qc, ActiveSet[h])

\* No correct node casts two votes of one type in one round of a height, in
\* spite of timeouts racing with the proposal, round skips and catching up.
VoteOnce ==
    \A v, w \in sentVotes :
        /\ v.voter = w.voter /\ v.type = w.type
        /\ v.height = w.height /\ v.round = w.round
        => v.id = w.id

\* The value a proposer would propose again is at least as recent as its lock,
\* and the same value when equally recent: otherwise it could not even vote
\* for its own proposal.
ValidCoversLock ==
    \A n \in Correct :
        /\ lockedRound[n] <= validRound[n]
        /\ lockedRound[n] = validRound[n] => lockedValue[n] = validValue[n]

\* An idle node has nothing to notarize and has taken no part in its height.
ParkedMeansIdle ==
    \A n \in Correct : parked[n] =>
        /\ mempool[n] = {}
        /\ lockedRound[n] = -1
        /\ \A v \in sentVotes : v.voter # n \/ v.height # height[n]

\* Blocks form one chain: each is valid on top of the one before it.
ChainLinked ==
    \A n \in Correct :
        /\ height[n] = Len(blocks[n]) + 1
        /\ Len(tip[n]) = Len(blocks[n])
        /\ \A h \in DOMAIN blocks[n] :
              blocks[n][h].value = SubSeq(tip[n], 1, h)

\* The blocks of n up to the first one whose certificate does not verify.
CertifiedHeight(n) ==
    CHOOSE k \in 0..Len(blocks[n]) :
        /\ \A h \in 1..k : Certifies(blocks[n][h].qc, ActiveSet[h])
        /\ k < Len(blocks[n]) =>
              ~Certifies(blocks[n][k + 1].qc, ActiveSet[k + 1])
CertifiedLog ==
    [n \in Correct |->
        [h \in 1..CertifiedHeight(n) |-> blocks[n][h].value]]

Promise == INSTANCE Ledger WITH Replica <- Correct, log <- CertifiedLog

\* The engines implement the abstract ledger: what a node has finalized never
\* changes, grows one block at a time, and is the same on every node.
ImplementsLedger == Promise!Spec

\* The end-to-end test's words: a finalized block carries a valid certificate.
CommittedCertified ==
    \A n \in Correct : \A h \in DOMAIN blocks[n] :
        Certifies(blocks[n][h].qc, ActiveSet[h])
=============================================================================
