---------------------------- MODULE EngineSafety ----------------------------
(***************************************************************************)
(* Safety of Engine for every number of validators, of rounds, of heights  *)
(* and of messages, as long as at most f of the validators in force at a   *)
(* height are faulty (FaultBound).                                         *)
(*                                                                         *)
(* The types come first.  Most of the state is of no concern to the rest   *)
(* of the argument: a step is reduced to what it does to the votes, the    *)
(* locks and the chain, one of the six kinds below, and each part of       *)
(* IndInv is shown to survive the six kinds.                               *)
(***************************************************************************)
EXTENDS EngineInvariants, TLAPS

\* Zenon proves a step that names no other prover.
USE Zenon

-----------------------------------------------------------------------------
(* The types.                                                              *)

\* Basic typing of constants and of the values the handlers build.
LEMMA ConstantTypes ==
    /\ 0 \in Round /\ 1 \in Height
    /\ Correct \subseteq Node
    /\ Nil \in Value
    /\ \A h \in Height : h \in Nat /\ (h <= MaxHeight => h + 1 \in Height)
    /\ \A r \in Round : r \in Nat /\ (r < MaxRound => r + 1 \in Round)
BY BoundsAssumption, SMT DEF Round, Height, Correct, Nil, Value

\* get_value yields a block on top of the tip.
LEMMA FreshValue ==
    ASSUME NEW parent \in Value, NEW pool \in SUBSET Item,
           NEW time \in Time, NEW batch \in Batches(pool)
    PROVE  Append(parent, [items |-> batch, time |-> time, wf |-> TRUE]) \in Value
<1>1. [items |-> batch, time |-> time, wf |-> TRUE] \in Header
  BY DEF Header, Batches
<1>2. QED
  BY <1>1, SMT DEF Value

\* enter_propose keeps proposals, broadcasts and timers well typed.
LEMMA EnterProposeType ==
    ASSUME TypeOK, NEW n \in Correct, NEW h \in Height, NEW r \in Round,
           NEW props \in SUBSET Proposal, NEW pool \in SUBSET Item,
           NEW parent \in Value, NEW vv \in Value, NEW vr \in Round \cup {-1},
           EnterPropose(n, h, r, props, pool, parent, vv, vr)
    PROVE  /\ proposals' \in [Correct -> SUBSET Proposal]
           /\ sentProposals' \subseteq Proposal
           /\ timers' \subseteq Timer
<1>1. PICK time \in Time, batch \in Batches(pool) :
        LET fresh == Append(parent, [items |-> batch, time |-> time, wf |-> TRUE])
            value == IF vv # Nil THEN vv ELSE fresh
            pm == [height |-> h, round |-> r, value |-> value, proposer |-> n,
                   validRound |-> IF vv # Nil THEN vr ELSE -1]
        IN  \/ /\ proposals' = [proposals EXCEPT ![n] = OrInsert(props, pm)]
               /\ sentProposals' = sentProposals \cup {pm}
               /\ UNCHANGED timers
            \/ /\ proposals' = [proposals EXCEPT ![n] = props]
               /\ Schedule(n, h, r, "Propose")
               /\ UNCHANGED sentProposals
  BY DEF EnterPropose
<1> DEFINE value == IF vv # Nil THEN vv
                    ELSE Append(parent, [items |-> batch, time |-> time, wf |-> TRUE])
           pm == [height |-> h, round |-> r, value |-> value, proposer |-> n,
                  validRound |-> IF vv # Nil THEN vr ELSE -1]
<1>2. pm \in Proposal
  <2>1. value \in Value
    BY FreshValue
  <2>2. QED
    BY <2>1, ConstantTypes DEF Proposal
<1>3. OrInsert(props, pm) \in SUBSET Proposal
  BY <1>2 DEF OrInsert
<1>4. [node |-> n, height |-> h, round |-> r, kind |-> "Propose"] \in Timer
  BY DEF Timer
<1> HIDE DEF pm
<1>5. \/ /\ proposals' = [proposals EXCEPT ![n] = OrInsert(props, pm)]
         /\ sentProposals' = sentProposals \cup {pm}
         /\ UNCHANGED timers
      \/ /\ proposals' = [proposals EXCEPT ![n] = props]
         /\ Schedule(n, h, r, "Propose")
         /\ UNCHANGED sentProposals
  BY <1>1 DEF pm
<1>6. /\ proposals \in [Correct -> SUBSET Proposal]
      /\ sentProposals \subseteq Proposal /\ timers \subseteq Timer
  BY DEF TypeOK
<1>7. CASE /\ proposals' = [proposals EXCEPT ![n] = OrInsert(props, pm)]
           /\ sentProposals' = sentProposals \cup {pm}
           /\ UNCHANGED timers
  BY <1>2, <1>3, <1>6, <1>7
<1>8. CASE /\ proposals' = [proposals EXCEPT ![n] = props]
           /\ Schedule(n, h, r, "Propose")
           /\ UNCHANGED sentProposals
  BY <1>4, <1>6, <1>8 DEF Schedule
<1>9. QED
  BY <1>5, <1>7, <1>8

\* The variables start_round assigns stay well typed.
RoundTypes ==
    /\ round' \in [Correct -> Round]
    /\ step' \in [Correct -> {"Propose", "Prevote", "Precommit"}]
    /\ parked' \in [Correct -> BOOLEAN]
    /\ proposals' \in [Correct -> SUBSET Proposal]
    /\ sentProposals' \subseteq Proposal
    /\ timers' \subseteq Timer

\* start_round, in whatever state it is entered.
LEMMA StartRoundType ==
    ASSUME TypeOK, NEW n \in Correct, NEW h \in Height, NEW r \in Round,
           NEW props \in SUBSET Proposal, NEW pool \in SUBSET Item,
           NEW parent \in Value, NEW vv \in Value, NEW vr \in Round \cup {-1},
           StartRound(n, h, r, props, pool, parent, vv, vr)
    PROVE  RoundTypes
<1>1. /\ round' \in [Correct -> Round]
      /\ step' \in [Correct -> {"Propose", "Prevote", "Precommit"}]
      /\ parked' \in [Correct -> BOOLEAN]
  BY DEF StartRound, TypeOK
<1>2. CASE r = 0 /\ vv = Nil /\ pool = {}
  <2>1. /\ proposals' = [proposals EXCEPT ![n] = props]
        /\ UNCHANGED <<sentProposals, timers>>
    BY <1>2 DEF StartRound
  <2>2. QED
    BY <1>1, <2>1 DEF TypeOK, RoundTypes
<1>3. CASE ~(r = 0 /\ vv = Nil /\ pool = {})
  <2>1. EnterPropose(n, h, r, props, pool, parent, vv, vr)
    BY <1>3 DEF StartRound
  <2>2. QED
    BY <1>1, <2>1, EnterProposeType DEF RoundTypes
<1>4. QED
  BY <1>2, <1>3

\* start_round in the state the node is in.
LEMMA StartRoundHereType ==
    ASSUME TypeOK, NEW n \in Correct, NEW r \in Round, StartRoundHere(n, r)
    PROVE  RoundTypes
<1>1. /\ height[n] \in Height /\ proposals[n] \in SUBSET Proposal
      /\ mempool[n] \in SUBSET Item /\ tip[n] \in Value
      /\ validValue[n] \in Value /\ validRound[n] \in Round \cup {-1}
  BY DEF TypeOK
<1>2. QED
  BY <1>1, StartRoundType DEF StartRoundHere

\* unpark.
LEMMA UnparkType ==
    ASSUME TypeOK, NEW n \in Correct, NEW props \in SUBSET Proposal,
           NEW pool \in SUBSET Item, Unpark(n, props, pool)
    PROVE  /\ parked' \in [Correct -> BOOLEAN]
           /\ proposals' \in [Correct -> SUBSET Proposal]
           /\ sentProposals' \subseteq Proposal
           /\ timers' \subseteq Timer
<1>1. /\ height[n] \in Height /\ round[n] \in Round /\ tip[n] \in Value
      /\ validValue[n] \in Value /\ validRound[n] \in Round \cup {-1}
  BY DEF TypeOK
<1>2. EnterPropose(n, height[n], round[n], props, pool, tip[n],
                   validValue[n], validRound[n])
  BY DEF Unpark
<1>3. QED
  BY <1>1, <1>2, EnterProposeType DEF Unpark, TypeOK

\* emit_prevote and emit_precommit store and broadcast a vote.
LEMMA VoteType ==
    ASSUME TypeOK, NEW n \in Correct, NEW id \in Value,
           NEW type \in {"Prevote", "Precommit"}
    PROVE  /\ MakeVote(n, type, id) \in Vote
           /\ Insert(prevotes[n], MakeVote(n, type, id)) \in SUBSET Vote
           /\ Insert(precommits[n], MakeVote(n, type, id)) \in SUBSET Vote
<1>1. MakeVote(n, type, id) \in Vote
  BY ConstantTypes DEF MakeVote, Vote, TypeOK
<1>2. QED
  BY <1>1 DEF Insert, TypeOK

\* Casting a prevote keeps the types (Engine::emit_prevote).
LEMMA EmitPrevoteType ==
    ASSUME TypeOK, NEW n \in Correct, NEW id \in Value, EmitPrevote(n, id)
    PROVE  /\ prevotes' \in [Correct -> SUBSET Vote]
           /\ sentVotes' \subseteq Vote
           /\ step' \in [Correct -> {"Propose", "Prevote", "Precommit"}]
<1>1. /\ prevotes' = [prevotes EXCEPT ![n] = Insert(@, MakeVote(n, "Prevote", id))]
      /\ sentVotes' = sentVotes \cup {MakeVote(n, "Prevote", id)}
      /\ step' = [step EXCEPT ![n] = "Prevote"]
  BY DEF EmitPrevote
<1>2. QED
  BY <1>1, VoteType DEF TypeOK

\* Casting a precommit keeps them (Engine::emit_precommit).
LEMMA EmitPrecommitType ==
    ASSUME TypeOK, NEW n \in Correct, NEW id \in Value, EmitPrecommit(n, id)
    PROVE  /\ precommits' \in [Correct -> SUBSET Vote]
           /\ sentVotes' \subseteq Vote
           /\ step' \in [Correct -> {"Propose", "Prevote", "Precommit"}]
<1>1. /\ precommits' = [precommits EXCEPT ![n] = Insert(@, MakeVote(n, "Precommit", id))]
      /\ sentVotes' = sentVotes \cup {MakeVote(n, "Precommit", id)}
      /\ step' = [step EXCEPT ![n] = "Precommit"]
  BY DEF EmitPrecommit
<1>2. QED
  BY <1>1, VoteType DEF TypeOK

\* The reset that commit and apply_synced_block share.
RollTypes ==
    /\ blocks' \in [Correct -> Seq(Block)]
    /\ mempool' \in [Correct -> SUBSET Item]
    /\ height' \in [Correct -> Height]
    /\ tip' \in [Correct -> Value]
    /\ lockedValue' \in [Correct -> Value]
    /\ lockedRound' \in [Correct -> Round \cup {-1}]
    /\ validValue' \in [Correct -> Value]
    /\ validRound' \in [Correct -> Round \cup {-1}]
    /\ prevotes' \in [Correct -> SUBSET Vote]
    /\ precommits' \in [Correct -> SUBSET Vote]
    /\ prevoteTimeoutStarted' \in [Correct -> SUBSET Round]
    /\ precommitTimeoutStarted' \in [Correct -> SUBSET Round]
    /\ polkaApplied' \in [Correct -> SUBSET Round]

\* So does moving to the next height (the end of Engine::try_commit).
LEMMA RollForwardType ==
    ASSUME TypeOK, NEW n \in Correct, NEW block \in Block,
           height[n] <= MaxHeight, RollForward(n, block)
    PROVE  RollTypes
<1>1. blocks' \in [Correct -> Seq(Block)]
  BY SMT DEF RollForward, AppendBlock, ReleaseLock, TypeOK
<1>2. height' \in [Correct -> Height]
  BY ConstantTypes DEF RollForward, AppendBlock, ReleaseLock, TypeOK
<1>3. tip' \in [Correct -> Value]
  BY DEF RollForward, AppendBlock, ReleaseLock, TypeOK, Block
<1>4. mempool' \in [Correct -> SUBSET Item]
  BY DEF RollForward, AppendBlock, ReleaseLock, TypeOK
<1>5. /\ lockedValue' \in [Correct -> Value]
      /\ lockedRound' \in [Correct -> Round \cup {-1}]
      /\ validValue' \in [Correct -> Value]
      /\ validRound' \in [Correct -> Round \cup {-1}]
  BY ConstantTypes DEF RollForward, AppendBlock, ReleaseLock, TypeOK
<1>6. /\ prevotes' \in [Correct -> SUBSET Vote]
      /\ precommits' \in [Correct -> SUBSET Vote]
      /\ prevoteTimeoutStarted' \in [Correct -> SUBSET Round]
      /\ precommitTimeoutStarted' \in [Correct -> SUBSET Round]
      /\ polkaApplied' \in [Correct -> SUBSET Round]
  BY DEF RollForward, AppendBlock, ReleaseLock, TypeOK
<1>7. QED
  BY <1>1, <1>2, <1>3, <1>4, <1>5, <1>6 DEF RollTypes

\* Every handler and every rule of the advance loop keeps the types.
LEMMA AddAttestationType ==
    ASSUME TypeOK, NEW n \in Correct, NEW a \in Item, AddAttestation(n, a)
    PROVE  TypeOK'
<1>1. mempool' \in [Correct -> SUBSET Item]
  BY DEF TypeOK, AddAttestation
<1>2. CASE parked[n]
  <2>1. Unpark(n, proposals[n], mempool[n] \cup {a})
    BY <1>2 DEF AddAttestation
  <2>2. /\ parked' \in [Correct -> BOOLEAN]
        /\ proposals' \in [Correct -> SUBSET Proposal]
        /\ sentProposals' \subseteq Proposal
        /\ timers' \subseteq Timer
    <3>1. proposals[n] \in SUBSET Proposal /\ mempool[n] \cup {a} \in SUBSET Item
      BY DEF TypeOK
    <3>2. QED
      BY <2>1, <3>1, UnparkType
  <2>3. phase' \in [Correct -> {"idle", "advance", "sync"}]
    BY <1>2 DEF TypeOK, AddAttestation, SetPhase
  <2>4. QED
    BY <1>1, <2>2, <2>3 DEF TypeOK, AddAttestation, lockVars, chainVars, onceVars, voteVars, proposeVars
<1>3. CASE ~parked[n]
  BY <1>1, <1>3 DEF TypeOK, AddAttestation, lockVars, chainVars, onceVars, voteVars, proposeVars
<1>4. QED
  BY <1>2, <1>3

\* So does a proposal that arrives.
LEMMA OnProposalType ==
    ASSUME TypeOK, NEW n \in Correct, NEW pm, OnProposal(n, pm)
    PROVE  TypeOK'
<1>1. pm \in Proposal
  BY FaultyAssumption DEF TypeOK, OnProposal
<1> DEFINE props == proposals[n] \cup {pm}
<1>2. props \in SUBSET Proposal /\ mempool[n] \in SUBSET Item
  BY <1>1 DEF TypeOK
<1>3. /\ parked' \in [Correct -> BOOLEAN]
      /\ proposals' \in [Correct -> SUBSET Proposal]
      /\ sentProposals' \subseteq Proposal
      /\ timers' \subseteq Timer
  <2>1. \/ Unpark(n, props, mempool[n])
        \/ /\ proposals' = [proposals EXCEPT ![n] = props]
           /\ UNCHANGED <<parked, sentProposals, timers>>
    BY DEF OnProposal
  <2>2. CASE Unpark(n, props, mempool[n])
    BY <1>2, <2>2, UnparkType
  <2>3. CASE /\ proposals' = [proposals EXCEPT ![n] = props]
             /\ UNCHANGED <<parked, sentProposals, timers>>
    BY <1>2, <2>3 DEF TypeOK
  <2>4. QED
    BY <2>1, <2>2, <2>3
<1>4. phase' \in [Correct -> {"idle", "advance", "sync"}]
  BY DEF TypeOK, OnProposal, SetPhase
<1>5. QED
  BY <1>3, <1>4 DEF TypeOK, OnProposal, lockVars, chainVars, onceVars, voteVars, proposeVars

\* So does a vote that arrives.
LEMMA OnVoteType ==
    ASSUME TypeOK, NEW n \in Correct, NEW vm, OnVote(n, vm)
    PROVE  TypeOK'
<1>1. vm \in Vote
  BY FaultyAssumption DEF TypeOK, OnVote
<1>2. /\ prevotes' \in [Correct -> SUBSET Vote]
      /\ precommits' \in [Correct -> SUBSET Vote]
  <2>1. CASE vm.type = "Prevote"
    <3>1. /\ prevotes' = [prevotes EXCEPT ![n] = @ \cup {vm}]
          /\ precommits' = precommits
      BY <2>1 DEF OnVote
    <3>2. QED
      BY <1>1, <3>1 DEF TypeOK
  <2>2. CASE vm.type # "Prevote"
    <3>1. /\ precommits' = [precommits EXCEPT ![n] = @ \cup {vm}]
          /\ prevotes' = prevotes
      BY <2>2 DEF OnVote
    <3>2. QED
      BY <1>1, <3>1 DEF TypeOK
  <2>3. QED
    BY <2>1, <2>2
<1>3. phase' \in [Correct -> {"idle", "advance", "sync"}]
  BY DEF TypeOK, OnVote, SetPhase
<1>4. QED
  BY <1>2, <1>3 DEF TypeOK, OnVote, lockVars, chainVars, onceVars, voteVars, proposeVars

\* So does a timer that fires (Engine::on_timeout).
LEMMA OnTimeoutType ==
    ASSUME TypeOK, NEW n \in Correct, OnTimeout(n)
    PROVE  TypeOK'
<1>1. phase' \in [Correct -> {"idle", "advance", "sync"}]
  BY DEF TypeOK, OnTimeout, OnTimeoutPropose, OnTimeoutPrevote,
         OnTimeoutPrecommit, SetPhase
<1>2. CASE OnTimeoutPropose(n)
  <2>1. EmitPrevote(n, Nil)
    BY <1>2 DEF OnTimeoutPropose
  <2>2. QED
    BY <1>1, <1>2, <2>1, EmitPrevoteType, ConstantTypes
       DEF TypeOK, OnTimeoutPropose, lockVars, chainVars, onceVars, voteVars, proposeVars
<1>3. CASE OnTimeoutPrevote(n)
  <2>1. EmitPrecommit(n, Nil)
    BY <1>3 DEF OnTimeoutPrevote
  <2>2. QED
    BY <1>1, <1>3, <2>1, EmitPrecommitType, ConstantTypes
       DEF TypeOK, OnTimeoutPrevote, lockVars, chainVars, onceVars, voteVars, proposeVars
<1>4. CASE OnTimeoutPrecommit(n)
  <2>1. round[n] + 1 \in Round /\ StartRoundHere(n, round[n] + 1)
    BY <1>4, ConstantTypes DEF OnTimeoutPrecommit, TypeOK
  <2>2. RoundTypes
    BY <2>1, StartRoundHereType
  <2>3. QED
    BY <1>1, <1>4, <2>2 DEF TypeOK, RoundTypes, OnTimeoutPrecommit, lockVars, chainVars, onceVars, voteVars, proposeVars
<1>5. QED
  BY <1>2, <1>3, <1>4 DEF OnTimeout

\* A peer answers a sync with blocks.
LEMMA OfferedType ==
    ASSUME TypeOK, NEW h, NEW block \in Offered(h)
    PROVE  block \in Block
BY FaultyAssumption, SMT DEF Offered, TypeOK

\* So does a block obtained by sync (Engine::apply_synced_block).
LEMMA SyncType ==
    ASSUME TypeOK, NEW n \in Correct, NEW block,
           ApplySyncedBlock(n, block) \/ Resume(n)
    PROVE  TypeOK'
<1>1. CASE ApplySyncedBlock(n, block)
  <2>1. block \in Block /\ RollForward(n, block)
    BY <1>1, OfferedType DEF ApplySyncedBlock
  <2>2. RollTypes
    BY <1>1, <2>1, RollForwardType DEF ApplySyncedBlock, Ready
  <2>3. /\ proposals' \in [Correct -> SUBSET Proposal]
        /\ round' \in [Correct -> Round]
        /\ step' \in [Correct -> {"Propose", "Prevote", "Precommit"}]
        /\ parked' \in [Correct -> BOOLEAN]
        /\ phase' \in [Correct -> {"idle", "advance", "sync"}]
    BY <1>1, ConstantTypes DEF ApplySyncedBlock, TypeOK, SetPhase
  <2>4. QED
    BY <1>1, <2>2, <2>3 DEF TypeOK, RollTypes, ApplySyncedBlock
<1>2. CASE Resume(n)
  <2>1. RoundTypes
    BY <1>2, StartRoundHereType, ConstantTypes DEF Resume
  <2>2. phase' \in [Correct -> {"idle", "advance", "sync"}]
    BY <1>2 DEF TypeOK, Resume, SetPhase
  <2>3. QED
    BY <1>2, <2>1, <2>2 DEF TypeOK, RoundTypes, Resume, lockVars, chainVars, onceVars, voteVars, proposeVars
<1>3. QED
  BY <1>1, <1>2

\* So does a commit (Engine::try_commit).
LEMMA TryCommitType ==
    ASSUME TypeOK, NEW n \in Correct, TryCommit(n)
    PROVE  TypeOK'
<1>1. PICK pm \in proposals[n] :
        /\ Committable(n, pm)
        /\ RollForward(n, [value |-> pm.value,
              qc |-> VotersFor(precommits[n], pm.round, pm.value)])
        /\ StartRound(n, height[n] + 1, 0, {},
              mempool[n] \ LastHeader(pm.value).items, pm.value, Nil, -1)
  BY DEF TryCommit
<1> DEFINE block == [value |-> pm.value,
                     qc |-> VotersFor(precommits[n], pm.round, pm.value)]
<1>2. pm.value \in Value /\ block \in Block
  BY SMT DEF TypeOK, Proposal, Block, VotersFor
<1>3. height[n] <= MaxHeight /\ height[n] + 1 \in Height
  BY <1>1, ConstantTypes DEF Committable, TypeOK
<1>4. RollTypes
  BY <1>1, <1>2, <1>3, RollForwardType
<1>5. RoundTypes
  <2>1. mempool[n] \ LastHeader(pm.value).items \in SUBSET Item
    BY DEF TypeOK
  <2>2. QED
    BY <1>1, <1>2, <1>3, <2>1, StartRoundType, ConstantTypes
<1>6. QED
  BY <1>4, <1>5 DEF TypeOK, RollTypes, RoundTypes, TryCommit

\* A proposal of the current round carries a value.
LEMMA CurrentValue ==
    ASSUME TypeOK, NEW n \in Correct, NEW pm \in CurrentProposals(n)
    PROVE  pm.value \in Value
<1>1. proposals[n] \subseteq Proposal
  BY DEF TypeOK
<1>2. pm \in Proposal
  BY <1>1 DEF CurrentProposals
<1>3. QED
  BY <1>2 DEF Proposal

\* So does answering a proposal.
LEMMA PrevoteType ==
    ASSUME TypeOK, NEW n \in Correct,
           TryPrevoteOnProposal(n) \/ TryPrevoteOnReproposal(n)
    PROVE  TypeOK'
<1>1. \A pm \in CurrentProposals(n) : pm.value \in Value
  BY CurrentValue
<1>2. PICK id \in Value : EmitPrevote(n, id)
  BY <1>1, ConstantTypes DEF TryPrevoteOnProposal, TryPrevoteOnReproposal
<1>3. QED
  BY <1>2, EmitPrevoteType
     DEF TypeOK, TryPrevoteOnProposal, TryPrevoteOnReproposal, lockVars, chainVars, onceVars, voteVars, proposeVars

\* So does answering a quorum of prevotes.
LEMMA PrecommitType ==
    ASSUME TypeOK, NEW n \in Correct,
           TryPrecommitOnPolka(n) \/ TryPrecommitNil(n)
    PROVE  TypeOK'
<1>1. CASE TryPrecommitOnPolka(n)
  <2>1. PICK pm \in CurrentProposals(n) :
          /\ \/ /\ lockedValue' = [lockedValue EXCEPT ![n] = pm.value]
                /\ lockedRound' = [lockedRound EXCEPT ![n] = round[n]]
                /\ EmitPrecommit(n, pm.value)
             \/ UNCHANGED <<lockedValue, lockedRound, precommits, sentVotes, step>>
          /\ validValue' = [validValue EXCEPT ![n] = pm.value]
          /\ validRound' = [validRound EXCEPT ![n] = round[n]]
    BY <1>1 DEF TryPrecommitOnPolka
  <2>2. pm.value \in Value
    BY CurrentValue
  <2>3. /\ validValue' \in [Correct -> Value]
        /\ validRound' \in [Correct -> Round \cup {-1}]
        /\ lockedValue' \in [Correct -> Value]
        /\ lockedRound' \in [Correct -> Round \cup {-1}]
    <3>1. /\ validValue \in [Correct -> Value]
          /\ validRound \in [Correct -> Round \cup {-1}]
          /\ lockedValue \in [Correct -> Value]
          /\ lockedRound \in [Correct -> Round \cup {-1}]
          /\ round[n] \in Round
      BY DEF TypeOK
    <3>2. /\ validValue' \in [Correct -> Value]
          /\ validRound' \in [Correct -> Round \cup {-1}]
      BY <2>1, <2>2, <3>1
    <3>3. /\ lockedValue' \in [Correct -> Value]
          /\ lockedRound' \in [Correct -> Round \cup {-1}]
      BY <2>1, <2>2, <3>1
    <3>4. QED
      BY <3>2, <3>3
  <2>4. /\ precommits' \in [Correct -> SUBSET Vote]
        /\ sentVotes' \subseteq Vote
        /\ step' \in [Correct -> {"Propose", "Prevote", "Precommit"}]
    BY <2>1, <2>2, EmitPrecommitType DEF TypeOK
  <2>5. polkaApplied' \in [Correct -> SUBSET Round]
    <3>1. polkaApplied' = [polkaApplied EXCEPT ![n] = @ \cup {round[n]}]
      BY <1>1 DEF TryPrecommitOnPolka
    <3>2. polkaApplied \in [Correct -> SUBSET Round] /\ round[n] \in Round
      BY DEF TypeOK
    <3>3. QED
      BY <3>1, <3>2
  <2>6. QED
    BY <1>1, <2>3, <2>4, <2>5
       DEF TypeOK, TryPrecommitOnPolka, chainVars, proposeVars
<1>2. CASE TryPrecommitNil(n)
  <2>1. EmitPrecommit(n, Nil)
    BY <1>2 DEF TryPrecommitNil
  <2>2. QED
    BY <1>2, <2>1, EmitPrecommitType, ConstantTypes
       DEF TypeOK, TryPrecommitNil, lockVars, chainVars, onceVars, voteVars, proposeVars
<1>3. QED
  BY <1>1, <1>2

\* So does skipping to a later round.
LEMMA SkipType ==
    ASSUME TypeOK, NEW n \in Correct, TrySkip(n)
    PROVE  TypeOK'
<1>1. PICK r \in Round : StartRoundHere(n, r)
  BY DEF TrySkip, SkipRounds
<1>2. RoundTypes
  BY <1>1, StartRoundHereType
<1>3. QED
  BY <1>2 DEF TypeOK, RoundTypes, TrySkip, lockVars, chainVars, onceVars, voteVars, proposeVars

\* So does setting a timer.
LEMMA ScheduleType ==
    ASSUME TypeOK, NEW n \in Correct,
           \/ TrySchedulePrevoteTimeout(n)
           \/ TrySchedulePrecommitTimeout(n)
           \/ AdvanceDone(n)
    PROVE  TypeOK'
<1>1. CASE TrySchedulePrevoteTimeout(n)
  <2>1. [node |-> n, height |-> height[n], round |-> round[n],
         kind |-> "Prevote"] \in Timer
    BY DEF Timer, TypeOK
  <2>2. /\ timers' \subseteq Timer
        /\ prevoteTimeoutStarted' \in [Correct -> SUBSET Round]
    <3>1. /\ timers \subseteq Timer /\ round[n] \in Round
          /\ prevoteTimeoutStarted \in [Correct -> SUBSET Round]
      BY DEF TypeOK
    <3>2. QED
      BY <1>1, <2>1, <3>1 DEF TrySchedulePrevoteTimeout, Schedule
  <2>3. QED
    BY <1>1, <2>2 DEF TypeOK, TrySchedulePrevoteTimeout, lockVars, chainVars, voteVars
<1>2. CASE TrySchedulePrecommitTimeout(n)
  <2>1. [node |-> n, height |-> height[n], round |-> round[n],
         kind |-> "Precommit"] \in Timer
    BY DEF Timer, TypeOK
  <2>2. /\ timers' \subseteq Timer
        /\ precommitTimeoutStarted' \in [Correct -> SUBSET Round]
    <3>1. /\ timers \subseteq Timer /\ round[n] \in Round
          /\ precommitTimeoutStarted \in [Correct -> SUBSET Round]
      BY DEF TypeOK
    <3>2. QED
      BY <1>2, <2>1, <3>1 DEF TrySchedulePrecommitTimeout, Schedule
  <2>3. QED
    BY <1>2, <2>2 DEF TypeOK, TrySchedulePrecommitTimeout, lockVars, chainVars, voteVars
<1>3. CASE AdvanceDone(n)
  BY <1>3 DEF TypeOK, AdvanceDone, SetPhase, lockVars, chainVars, onceVars, voteVars, proposeVars
<1>4. QED
  BY <1>1, <1>2, <1>3

\* One step of the system.
LEMMA TypeStep == TypeOK /\ [Next]_vars => TypeOK'
<1> SUFFICES ASSUME TypeOK, [Next]_vars PROVE TypeOK'
  OBVIOUS
<1>1. CASE UNCHANGED vars
  BY <1>1 DEF TypeOK, vars, lockVars, chainVars, onceVars, voteVars, proposeVars
<1>2. ASSUME NEW n \in Correct, NEW a \in Item, AddAttestation(n, a)
      PROVE  TypeOK'
  BY <1>2, AddAttestationType
<1>3. ASSUME NEW n \in Correct, OnMessage(n)
      PROVE  TypeOK'
  BY <1>3, OnProposalType, OnVoteType DEF OnMessage
<1>4. ASSUME NEW n \in Correct, NEW block,
             ApplySyncedBlock(n, block) \/ Resume(n)
      PROVE  TypeOK'
  BY <1>4, SyncType
<1>5. ASSUME NEW n \in Correct, Advance(n)
      PROVE  TypeOK'
  BY <1>5, TryCommitType, SkipType, PrevoteType, PrecommitType, ScheduleType
     DEF Advance
<1>6. QED
  BY <1>1, <1>2, <1>3, <1>4, <1>5, OnTimeoutType DEF Next

\* The types hold at the start (Engine::new).
LEMMA TypeInit == Init => TypeOK
BY ConstantTypes, SMT DEF Init, TypeOK

\* Type correctness: every variable of every engine keeps its type, whatever
\* the network delivers, loses or repeats.
THEOREM TypeCorrect == Spec => []TypeOK
BY TypeInit, TypeStep, PTL DEF Spec

-----------------------------------------------------------------------------
(* The kinds of steps.                                                     *)

\* No node is put into the middle of a sync batch.
NoSync == \A m \in Correct : phase'[m] = "sync" => phase[m] = "sync"

\* Nothing that matters changes.
Still ==
    /\ UNCHANGED <<height, round, step, lockedValue, lockedRound,
                   prevotes, precommits, sentVotes, blocks>>
    /\ NoSync

\* Node n stores the vote of another node.
Hear(n) ==
    /\ \E vm \in Vote :
        /\ vm.height = height[n]
        /\ vm.voter \in ActiveSet[height[n]]
        /\ VerifySig(vm)
        /\ Unaltered /\ vm.voter \in Correct => vm \in sentVotes
        /\ \/ /\ vm.type = "Prevote"
              /\ prevotes' = [prevotes EXCEPT ![n] = @ \cup {vm}]
              /\ precommits' = precommits
           \/ /\ vm.type = "Precommit"
              /\ precommits' = [precommits EXCEPT ![n] = @ \cup {vm}]
              /\ prevotes' = prevotes
    /\ UNCHANGED <<height, round, step, lockedValue, lockedRound,
                   sentVotes, blocks>>
    /\ NoSync

\* Node n enters a later round.
NewRound(n) ==
    /\ \E r \in Round :
        /\ r > round[n]
        /\ round' = [round EXCEPT ![n] = r]
    /\ step' = [step EXCEPT ![n] = "Propose"]
    /\ phase'[n] # "sync"
    /\ UNCHANGED <<height, lockedValue, lockedRound, prevotes, precommits,
                   sentVotes, blocks>>
    /\ NoSync

\* Node n prevotes: nil, or a value its lock allows.
Prevoted(n, id) ==
    /\ step[n] = "Propose"
    /\ EmitPrevote(n, id)
    /\ id # Nil =>
        \/ lockedRound[n] = -1
        \/ lockedValue[n] = id
        \/ \E r \in Round :
              /\ lockedRound[n] <= r /\ r < round[n]
              /\ Count(prevotes[n], r, id) >= Quorum(height[n])
    /\ phase'[n] # "sync"
    /\ UNCHANGED <<height, round, lockedValue, lockedRound, precommits, blocks>>
    /\ NoSync

\* Node n precommits: nil, or a value it has seen a polka for and locks.
Precommitted(n, id) ==
    /\ step[n] = "Prevote"
    /\ EmitPrecommit(n, id)
    /\ \/ id = Nil /\ UNCHANGED <<lockedValue, lockedRound>>
       \/ /\ id # Nil
          /\ Len(id) = height[n]
          /\ lockedValue' = [lockedValue EXCEPT ![n] = id]
          /\ lockedRound' = [lockedRound EXCEPT ![n] = round[n]]
          /\ Count(prevotes[n], round[n], id) >= Quorum(height[n])
    /\ phase'[n] # "sync"
    /\ UNCHANGED <<height, round, prevotes, blocks>>
    /\ NoSync

\* Node n appends a block and starts the next height.
Rolled(n, block) ==
    /\ BlockBacked(n, height[n], block)
    /\ Unaltered /\ OneRoundInv => OfOneRound(height[n], block)
    /\ blocks' = [blocks EXCEPT ![n] = Append(@, block)]
    /\ height' = [height EXCEPT ![n] = @ + 1]
    /\ lockedRound' = [lockedRound EXCEPT ![n] = -1]
    /\ lockedValue' = [lockedValue EXCEPT ![n] = Nil]
    /\ prevotes' = [prevotes EXCEPT ![n] = {}]
    /\ precommits' = [precommits EXCEPT ![n] = {}]
    /\ round' = [round EXCEPT ![n] = 0]
    /\ step' = [step EXCEPT ![n] = "Propose"]
    /\ sentVotes' = sentVotes
    /\ \A m \in Correct \ {n} : phase'[m] = phase[m]

StepKind ==
    \/ Still
    \/ \E n \in Correct :
        \/ Hear(n)
        \/ NewRound(n)
        \/ \E id \in Value : Prevoted(n, id) \/ Precommitted(n, id)
        \/ \E block \in Block : Rolled(n, block)

-----------------------------------------------------------------------------
(* Facts about votes and quorums.                                          *)

\* A vote is determined by its fields.
LEMMA VoteFields ==
    ASSUME NEW vm \in Vote
    PROVE  vm = [type |-> vm.type, height |-> vm.height, round |-> vm.round,
                 id |-> vm.id, voter |-> vm.voter]
BY DEF Vote

\* Votes are never withdrawn, so what is backed stays backed.
LEMMA BackedMonotone ==
    ASSUME NEW V, NEW W, V \subseteq W, NEW type, NEW h, NEW r, NEW id,
           Backed(V, type, h, r, id)
    PROVE  Backed(W, type, h, r, id)
BY DEF Backed, Cast

\* The voters a node counts for a value really cast those votes, or signed
\* that value at least when it is precommits that are counted.
LEMMA CountedVotersCast ==
    ASSUME TypeOK, StoresAuthentic, NEW n \in Correct, NEW r, NEW id
    PROVE  /\ \A p \in VotersFor(prevotes[n], r, id) \ Faulty :
                 Cast(sentVotes, p, "Prevote", height[n], r, id)
           /\ id # Nil => \A p \in VotersFor(precommits[n], r, id) : SignedId(p, id)
           /\ SharesHeard => \A p \in VotersFor(precommits[n], r, id) \ Faulty :
                 CastPrecommit(p, height[n], r, id)
           /\ VotersFor(prevotes[n], r, id) \subseteq ActiveSet[height[n]] \cup {n}
           /\ VotersFor(precommits[n], r, id) \subseteq ActiveSet[height[n]] \cup {n}
<1>1. ASSUME NEW p \in VotersFor(prevotes[n], r, id) \ Faulty
      PROVE  Cast(sentVotes, p, "Prevote", height[n], r, id)
  <2>1. PICK vm \in prevotes[n] : vm.voter = p /\ vm.round = r /\ vm.id = id
    BY <1>1 DEF VotersFor
  <2>2. vm \in Vote
    BY DEF TypeOK
  <2>3. vm.type = "Prevote" /\ vm.height = height[n] /\ VerifySig(vm)
    BY DEF StoresAuthentic, Authentic
  <2>4. vm \in sentVotes
    BY <1>1, <2>1, <2>3 DEF VerifySig
  <2>5. QED
    BY <2>1, <2>2, <2>3, <2>4, VoteFields DEF Cast
<1>2. ASSUME id # Nil, NEW p \in VotersFor(precommits[n], r, id)
      PROVE  SignedId(p, id)
  <2>1. PICK vm \in precommits[n] : vm.voter = p /\ vm.round = r /\ vm.id = id
    BY <1>2 DEF VotersFor
  <2>2. vm.type = "Precommit" /\ VerifySig(vm)
    BY DEF StoresAuthentic, Authentic
  <2>3. QED
    BY <2>1, <2>2 DEF VerifySig, SignedId
<1>3. ASSUME SharesHeard, NEW p \in VotersFor(precommits[n], r, id) \ Faulty
      PROVE  CastPrecommit(p, height[n], r, id)
  <2>1. PICK vm \in precommits[n] : vm.voter = p /\ vm.round = r /\ vm.id = id
    BY <1>3 DEF VotersFor
  <2>2. vm \in Vote /\ p \in Correct
    BY <1>3 DEF TypeOK, VotersFor, Correct
  <2>3. vm.type = "Precommit" /\ vm.height = height[n] /\ vm \in sentVotes
    BY <1>3, <2>1, <2>2 DEF StoresAuthentic, Authentic, SharesHeard
  <2>4. QED
    BY <2>1, <2>2, <2>3, VoteFields DEF CastPrecommit
<1>4. /\ VotersFor(prevotes[n], r, id) \subseteq ActiveSet[height[n]] \cup {n}
      /\ VotersFor(precommits[n], r, id) \subseteq ActiveSet[height[n]] \cup {n}
  BY SMT DEF VotersFor, StoresAuthentic, Authentic
<1>5. QED
  BY <1>1, <1>2, <1>3, <1>4

\* A validator that counts a quorum of prevotes has a backed value.
LEMMA PolkaIsBacked ==
    ASSUME TypeOK, StoresAuthentic, NEW n \in Correct,
           n \in ActiveSet[height[n]], NEW r, NEW id,
           Count(prevotes[n], r, id) >= Quorum(height[n])
    PROVE  Backed(sentVotes, "Prevote", height[n], r, id)
<1> DEFINE Q == VotersFor(prevotes[n], r, id)
<1>1. Q \in SUBSET ActiveSet[height[n]]
  <2>1. Q \subseteq ActiveSet[height[n]] \cup {n}
    BY CountedVotersCast
  <2>2. QED
    BY <2>1
<1>2. Cardinality(Q) >= Quorum(height[n])
  BY DEF Count
<1>3. \A p \in Q \ Faulty : Cast(sentVotes, p, "Prevote", height[n], r, id)
  BY CountedVotersCast
<1>4. QED
  BY <1>1, <1>2, <1>3 DEF Backed

-----------------------------------------------------------------------------
(* Every step of the engines is of one of the kinds.                       *)

\* A handler that sets its node's phase to something else starts no sync.
LEMMA PhaseNoSync ==
    ASSUME TypeOK, NEW n \in Correct, NEW p, p # "sync", SetPhase(n, p)
    PROVE  NoSync /\ phase'[n] # "sync"
BY DEF TypeOK, SetPhase, NoSync

\* Engine::add_attestation casts no vote and moves no height.
LEMMA AddAttestationKind ==
    ASSUME TypeOK, NEW n \in Correct, NEW a \in Item, AddAttestation(n, a)
    PROVE  Still
<1>1. NoSync
  <2>1. CASE parked[n]
    BY <2>1, PhaseNoSync DEF AddAttestation
  <2>2. CASE ~parked[n]
    BY <2>2 DEF AddAttestation, NoSync
  <2>3. QED
    BY <2>1, <2>2
<1>2. QED
  BY <1>1 DEF AddAttestation, Still, lockVars, chainVars, onceVars, voteVars, proposeVars

\* Nor does a proposal that arrives (Engine::on_message).
LEMMA OnProposalKind ==
    ASSUME TypeOK, NEW n \in Correct, NEW pm, OnProposal(n, pm)
    PROVE  Still
<1>1. NoSync
  BY PhaseNoSync DEF OnProposal
<1>2. QED
  BY <1>1 DEF OnProposal, Still, lockVars, chainVars, onceVars, voteVars, proposeVars

\* A vote that arrives only adds to what its receiver has heard.
LEMMA OnVoteKind ==
    ASSUME TypeOK, NEW n \in Correct, NEW vm, OnVote(n, vm)
    PROVE  Hear(n)
<1>1. NoSync
  BY PhaseNoSync DEF OnVote
<1>2. vm \in Vote /\ (Unaltered /\ vm.voter \in Correct => vm \in sentVotes)
  BY FaultyAssumption DEF TypeOK, OnVote, Correct, Unaltered
<1>3. vm.height = height[n] /\ vm.voter \in ActiveSet[height[n]] /\ VerifySig(vm)
  BY DEF OnVote, AcceptsVote
<1>4. \/ /\ vm.type = "Prevote"
         /\ prevotes' = [prevotes EXCEPT ![n] = @ \cup {vm}]
         /\ precommits' = precommits
      \/ /\ vm.type = "Precommit"
         /\ precommits' = [precommits EXCEPT ![n] = @ \cup {vm}]
         /\ prevotes' = prevotes
  <2>1. vm.type \in {"Prevote", "Precommit"}
    BY <1>2 DEF Vote
  <2>2. QED
    BY <2>1 DEF OnVote
<1>5. UNCHANGED <<height, round, step, lockedValue, lockedRound,
                  sentVotes, blocks>>
  BY DEF OnVote, lockVars, chainVars, onceVars, voteVars, proposeVars
<1>6. QED
  BY <1>1, <1>2, <1>3, <1>4, <1>5 DEF Hear

\* A timer that fires casts nil votes or starts a round
\* (Engine::on_timeout).
LEMMA OnTimeoutKind ==
    ASSUME TypeOK, NEW n \in Correct, OnTimeout(n)
    PROVE  StepKind
<1>1. NoSync /\ phase'[n] # "sync"
  BY PhaseNoSync DEF OnTimeout, OnTimeoutPropose, OnTimeoutPrevote,
     OnTimeoutPrecommit
<1>2. CASE OnTimeoutPropose(n)
  <2>1. Prevoted(n, Nil)
    BY <1>1, <1>2 DEF OnTimeoutPropose, Prevoted, lockVars, chainVars, onceVars, voteVars, proposeVars
  <2>2. QED
    BY <2>1, ConstantTypes DEF StepKind
<1>3. CASE OnTimeoutPrevote(n)
  <2>1. Precommitted(n, Nil)
    BY <1>1, <1>3 DEF OnTimeoutPrevote, Precommitted, lockVars, chainVars, onceVars, voteVars, proposeVars
  <2>2. QED
    BY <2>1, ConstantTypes DEF StepKind
<1>4. CASE OnTimeoutPrecommit(n)
  <2>1. /\ round[n] \in Nat /\ round[n] + 1 \in Round
        /\ round' = [round EXCEPT ![n] = round[n] + 1]
        /\ step' = [step EXCEPT ![n] = "Propose"]
    BY <1>4, ConstantTypes
       DEF OnTimeoutPrecommit, StartRoundHere, StartRound, TypeOK
  <2>2. round[n] + 1 > round[n]
    BY <2>1, SMT
  <2>3. NewRound(n)
    BY <1>1, <1>4, <2>1, <2>2 DEF OnTimeoutPrecommit, NewRound, lockVars, chainVars, onceVars, voteVars, proposeVars
  <2>4. QED
    BY <2>3 DEF StepKind
<1>5. QED
  BY <1>2, <1>3, <1>4 DEF OnTimeout

\* The first turn after a sync starts the round the node is in.
LEMMA ResumeKind ==
    ASSUME TypeOK, SyncAtStart, NEW n \in Correct, Resume(n)
    PROVE  Still
<1>1. NoSync
  BY PhaseNoSync DEF Resume
<1>2. /\ round' = [round EXCEPT ![n] = 0]
      /\ step' = [step EXCEPT ![n] = "Propose"]
  BY DEF Resume, StartRoundHere, StartRound
<1>3. round[n] = 0 /\ step[n] = "Propose"
  BY DEF SyncAtStart, Resume
<1>4. round' = round /\ step' = step
  BY <1>2, <1>3 DEF TypeOK
<1>5. QED
  BY <1>1, <1>4 DEF Resume, Still, lockVars, chainVars, onceVars, voteVars, proposeVars

\* A block obtained by sync moves its height as a commit does
\* (Engine::apply_synced_block).
LEMMA SyncKind ==
    ASSUME TypeOK, NEW n \in Correct, NEW block, ApplySyncedBlock(n, block)
    PROVE  block \in Block /\ Rolled(n, block)
<1>1. /\ block \in Offered(height[n])
      /\ IsValid(block.value, tip[n], height[n])
      /\ Certifies(block.qc, ActiveSet[height[n]])
      /\ \A p \in block.qc : SignedId(p, block.value)
      /\ RollForward(n, block)
  BY DEF ApplySyncedBlock
<1>2. block \in Block
  BY <1>1, OfferedType
<1>3. BlockBacked(n, height[n], block)
  BY <1>1 DEF BlockBacked, IsValid, TypeOK
<1>4. Unaltered /\ OneRoundInv => OfOneRound(height[n], block)
  BY <1>1 DEF Offered, Unaltered, OneRoundInv, OneRound
<1>5. \A k \in Correct \ {n} : phase'[k] = phase[k]
  BY DEF ApplySyncedBlock, SetPhase, TypeOK
<1>6. Rolled(n, block)
  BY <1>1, <1>3, <1>4, <1>5
     DEF ApplySyncedBlock, RollForward, AppendBlock, ReleaseLock, Rolled
<1>7. QED
  BY <1>2, <1>6

\* A commit ends the height with a block that a quorum precommitted.
LEMMA TryCommitKind ==
    ASSUME TypeOK, StoresAuthentic, NEW n \in Correct, TryCommit(n)
    PROVE  \E block \in Block : Rolled(n, block)
<1>1. PICK pm \in proposals[n] :
        /\ Committable(n, pm)
        /\ RollForward(n, [value |-> pm.value,
              qc |-> VotersFor(precommits[n], pm.round, pm.value)])
        /\ StartRound(n, height[n] + 1, 0, {},
              mempool[n] \ LastHeader(pm.value).items, pm.value, Nil, -1)
  BY DEF TryCommit
<1> DEFINE qc == VotersFor(precommits[n], pm.round, pm.value)
           block == [value |-> pm.value, qc |-> qc]
<1>2. pm.value \in Value /\ pm.round \in Round /\ block \in Block
  BY SMT DEF TypeOK, Proposal, Block, VotersFor
<1>3. BlockBacked(n, height[n], block)
  <2>1. height[n] \in Height
    BY DEF TypeOK
  <2>2. block.value # Nil /\ Len(block.value) = height[n]
    BY <1>1 DEF Committable, IsValid
  <2>3. n \in ActiveSet[height[n]] => Certifies(block.qc, ActiveSet[height[n]])
    <3>1. SUFFICES ASSUME n \in ActiveSet[height[n]]
                   PROVE  Certifies(qc, ActiveSet[height[n]])
      OBVIOUS
    <3>2. qc \subseteq ActiveSet[height[n]] \cup {n}
      BY CountedVotersCast
    <3>3. qc \cap ActiveSet[height[n]] = qc
      BY <3>1, <3>2
    <3>4. Cardinality(qc) >= Bft(ActiveSet[height[n]])
      BY <1>1 DEF Committable, Count, Quorum
    <3>5. QED
      BY <3>3, <3>4 DEF Certifies
  <2>4. \A p \in block.qc : SignedId(p, block.value)
    BY <2>2, CountedVotersCast
  <2>5. QED
    BY <2>1, <2>2, <2>3, <2>4 DEF BlockBacked
<1>4. RollForward(n, block)
  BY <1>1
<1>5. /\ round' = [round EXCEPT ![n] = 0]
      /\ step' = [step EXCEPT ![n] = "Propose"]
  BY <1>1 DEF StartRound
<1>6. sentVotes' = sentVotes /\ \A m \in Correct \ {n} : phase'[m] = phase[m]
  BY DEF TryCommit
<1>7. Unaltered /\ OneRoundInv => OfOneRound(height[n], block)
  BY <1>2, CountedVotersCast DEF OneRoundInv, OfOneRound
<1> HIDE DEF block
<1>8. Rolled(n, block)
  BY <1>3, <1>4, <1>5, <1>6, <1>7 DEF RollForward, AppendBlock, ReleaseLock, Rolled
<1>9. QED
  BY <1>2, <1>8

\* While the advance loop runs its node is not in a sync batch.
LEMMA LoopNoSync ==
    ASSUME NEW n \in Correct, Turn1(n), phase' = phase
    PROVE  NoSync /\ phase'[n] # "sync"
BY DEF Turn1, NoSync

\* Skipping ahead starts a round and casts no vote.
LEMMA TrySkipKind ==
    ASSUME TypeOK, NEW n \in Correct, TrySkip(n)
    PROVE  NewRound(n)
<1>1. PICK r \in SkipRounds(n) : StartRoundHere(n, r)
  BY DEF TrySkip
<1>2. r \in Round /\ r > round[n]
  BY DEF SkipRounds
<1>3. /\ round' = [round EXCEPT ![n] = r]
      /\ step' = [step EXCEPT ![n] = "Propose"]
  BY <1>1 DEF StartRoundHere, StartRound
<1>4. NoSync /\ phase'[n] # "sync"
  BY LoopNoSync DEF TrySkip, Turn2
<1>5. QED
  BY <1>2, <1>3, <1>4 DEF TrySkip, NewRound, lockVars, chainVars, onceVars, voteVars, proposeVars

\* A fresh proposal is answered with one prevote.
LEMMA TryPrevoteOnProposalKind ==
    ASSUME TypeOK, NEW n \in Correct, TryPrevoteOnProposal(n)
    PROVE  \E id \in Value : Prevoted(n, id)
<1>1. PICK pm \in CurrentProposals(n) :
        \/ EmitPrevote(n, Nil)
        \/ /\ lockedRound[n] = -1 \/ lockedValue[n] = pm.value
           /\ EmitPrevote(n, pm.value)
  BY DEF TryPrevoteOnProposal
<1>2. pm.value \in Value
  BY SMT DEF CurrentProposals, TypeOK, Proposal
<1>3. NoSync /\ phase'[n] # "sync"
  BY LoopNoSync DEF TryPrevoteOnProposal, Turn2, Turn3
<1>4. Prevoted(n, Nil) \/ Prevoted(n, pm.value)
  BY <1>1, <1>3 DEF TryPrevoteOnProposal, Prevoted, lockVars, chainVars, onceVars, voteVars, proposeVars
<1>5. QED
  BY <1>2, <1>4, ConstantTypes

\* So is one that names an earlier round's quorum.
LEMMA TryPrevoteOnReproposalKind ==
    ASSUME TypeOK, NEW n \in Correct, TryPrevoteOnReproposal(n)
    PROVE  \E id \in Value : Prevoted(n, id)
<1>1. PICK pm \in CurrentProposals(n) :
        /\ Justified(n, pm)
        /\ \/ EmitPrevote(n, Nil)
           \/ /\ lockedRound[n] <= pm.validRound \/ lockedValue[n] = pm.value
              /\ EmitPrevote(n, pm.value)
  BY DEF TryPrevoteOnReproposal
<1>2. pm.value \in Value /\ pm.validRound \in Round
  BY <1>1, SMT DEF CurrentProposals, TypeOK, Proposal, Justified
<1>3. /\ pm.validRound < round[n]
      /\ Count(prevotes[n], pm.validRound, pm.value) >= Quorum(height[n])
  BY <1>1 DEF Justified
<1>4. NoSync /\ phase'[n] # "sync"
  BY LoopNoSync DEF TryPrevoteOnReproposal, Turn2, Turn3, Turn4
<1>5. Prevoted(n, Nil) \/ Prevoted(n, pm.value)
  BY <1>1, <1>2, <1>3, <1>4 DEF TryPrevoteOnReproposal, Prevoted, lockVars, chainVars, onceVars, voteVars, proposeVars
<1>6. QED
  BY <1>2, <1>5, ConstantTypes

\* A quorum of prevotes is answered with one precommit, and a lock when it is
\* for a block.
LEMMA TryPrecommitKind ==
    ASSUME TypeOK, NEW n \in Correct,
           TryPrecommitOnPolka(n) \/ TryPrecommitNil(n)
    PROVE  StepKind
<1>1. NoSync /\ phase'[n] # "sync"
  BY LoopNoSync DEF TryPrecommitOnPolka, TryPrecommitNil, Turn2, Turn3, Turn4,
     Turn5, Turn6, Turn7
<1>2. CASE TryPrecommitNil(n)
  <2>1. Precommitted(n, Nil)
    BY <1>1, <1>2 DEF TryPrecommitNil, CanPrecommitNil, Precommitted, lockVars, chainVars, onceVars, voteVars, proposeVars
  <2>2. QED
    BY <2>1, ConstantTypes DEF StepKind
<1>3. CASE TryPrecommitOnPolka(n)
  <2>1. PICK pm \in CurrentProposals(n) :
          /\ Polka(n, pm)
          /\ IF step[n] = "Prevote"
             THEN /\ lockedValue' = [lockedValue EXCEPT ![n] = pm.value]
                  /\ lockedRound' = [lockedRound EXCEPT ![n] = round[n]]
                  /\ EmitPrecommit(n, pm.value)
             ELSE UNCHANGED <<lockedValue, lockedRound,
                              precommits, sentVotes, step>>
    BY <1>3 DEF TryPrecommitOnPolka
  <2>2. /\ pm.value \in Value /\ pm.value # Nil /\ Len(pm.value) = height[n]
        /\ Count(prevotes[n], round[n], pm.value) >= Quorum(height[n])
    <3>1. proposals[n] \subseteq Proposal
      BY DEF TypeOK
    <3>2. pm \in Proposal
      BY <3>1 DEF CurrentProposals
    <3>3. pm.value \in Value
      BY <3>2 DEF Proposal
    <3>4. QED
      BY <2>1, <3>3 DEF Polka, IsValid
  <2>3. UNCHANGED <<height, round, prevotes, blocks>>
    BY <1>3 DEF TryPrecommitOnPolka, chainVars
  <2>4. CASE step[n] = "Prevote"
    <3>1. Precommitted(n, pm.value)
      BY <1>1, <2>1, <2>2, <2>3, <2>4 DEF Precommitted
    <3>2. QED
      BY <2>2, <3>1 DEF StepKind
  <2>5. CASE step[n] # "Prevote"
    BY <1>1, <2>1, <2>3, <2>5 DEF Still, StepKind
  <2>6. QED
    BY <2>4, <2>5
<1>4. QED
  BY <1>2, <1>3

\* Setting a timer and ending a turn change no vote and no lock.
LEMMA ScheduleKind ==
    ASSUME TypeOK, NEW n \in Correct,
           \/ TrySchedulePrevoteTimeout(n)
           \/ TrySchedulePrecommitTimeout(n)
           \/ AdvanceDone(n)
    PROVE  Still
<1>1. CASE TrySchedulePrevoteTimeout(n)
  BY <1>1 DEF TrySchedulePrevoteTimeout, Still, NoSync, lockVars, chainVars, voteVars
<1>2. CASE TrySchedulePrecommitTimeout(n)
  BY <1>2 DEF TrySchedulePrecommitTimeout, Still, NoSync, lockVars, chainVars, voteVars
<1>3. CASE AdvanceDone(n)
  BY <1>3, PhaseNoSync DEF AdvanceDone, Still, lockVars, chainVars, onceVars, voteVars, proposeVars
<1>4. QED
  BY <1>1, <1>2, <1>3

\* The reduction of Next.
LEMMA Classify ==
    ASSUME TypeOK, StoresAuthentic, SyncAtStart, [Next]_vars
    PROVE  StepKind
<1>1. CASE UNCHANGED vars
  BY <1>1 DEF vars, StepKind, Still, NoSync, lockVars, chainVars, onceVars, voteVars, proposeVars
<1>2. ASSUME NEW n \in Correct, NEW a \in Item, AddAttestation(n, a)
      PROVE  StepKind
  BY <1>2, AddAttestationKind DEF StepKind
<1>3. ASSUME NEW n \in Correct, OnMessage(n)
      PROVE  StepKind
  BY <1>3, OnProposalKind, OnVoteKind DEF OnMessage, StepKind
<1>4. ASSUME NEW n \in Correct, NEW block, ApplySyncedBlock(n, block)
      PROVE  StepKind
  BY <1>4, SyncKind DEF StepKind
<1>5. ASSUME NEW n \in Correct, Resume(n)
      PROVE  StepKind
  BY <1>5, ResumeKind DEF StepKind
<1>6. ASSUME NEW n \in Correct, Advance(n)
      PROVE  StepKind
  <2>1. CASE TryCommit(n)
    BY <2>1, TryCommitKind DEF StepKind
  <2>2. CASE TrySkip(n)
    BY <2>2, TrySkipKind DEF StepKind
  <2>3. CASE TryPrevoteOnProposal(n) \/ TryPrevoteOnReproposal(n)
    BY <2>3, TryPrevoteOnProposalKind, TryPrevoteOnReproposalKind DEF StepKind
  <2>4. CASE TryPrecommitOnPolka(n) \/ TryPrecommitNil(n)
    BY <2>4, TryPrecommitKind
  <2>5. CASE \/ TrySchedulePrevoteTimeout(n)
             \/ TrySchedulePrecommitTimeout(n)
             \/ AdvanceDone(n)
    BY <2>5, ScheduleKind DEF StepKind
  <2>6. QED
    BY <1>6, <2>1, <2>2, <2>3, <2>4, <2>5 DEF Advance
<1>7. QED
  BY <1>1, <1>2, <1>3, <1>4, <1>5, <1>6, OnTimeoutKind DEF Next

-----------------------------------------------------------------------------
(* The parts of IndInv survive every kind of step.                         *)

\* The part of TypeOK the arguments about votes and locks use.
LEMMA CoreTypes ==
    ASSUME TypeOK
    PROVE  /\ height \in [Correct -> Height] /\ Height \subseteq Nat
           /\ round \in [Correct -> Round] /\ Round \subseteq Nat
           /\ step \in [Correct -> {"Propose", "Prevote", "Precommit"}]
           /\ lockedValue \in [Correct -> Value]
           /\ lockedRound \in [Correct -> Round \cup {-1}]
BY ConstantTypes DEF TypeOK

\* ... and the part about the vote stores.
LEMMA StoreTypes ==
    ASSUME TypeOK
    PROVE  /\ prevotes \in [Correct -> SUBSET Vote]
           /\ precommits \in [Correct -> SUBSET Vote]
BY DEF TypeOK

\* What a vote cast in this step looks like, and what it adds.
LEMMA CastVote ==
    ASSUME TypeOK, NEW n \in Correct, NEW id \in Value
    PROVE  /\ Prevoted(n, id) =>
                /\ sentVotes' = sentVotes \cup {MakeVote(n, "Prevote", id)}
                /\ step' = [step EXCEPT ![n] = "Prevote"]
           /\ Precommitted(n, id) =>
                /\ sentVotes' = sentVotes \cup {MakeVote(n, "Precommit", id)}
                /\ step' = [step EXCEPT ![n] = "Precommit"]
BY DEF Prevoted, Precommitted, EmitPrevote, EmitPrecommit

\* The other kinds of step cast no vote.
LEMMA QuietKinds ==
    /\ Still => sentVotes' = sentVotes
    /\ \A n \in Correct : Hear(n) \/ NewRound(n) => sentVotes' = sentVotes
    /\ \A n \in Correct, block \in Block : Rolled(n, block) => sentVotes' = sentVotes
BY DEF Still, Hear, NewRound, Rolled

\* Votes are never withdrawn.
LEMMA VotesGrow ==
    ASSUME TypeOK, StepKind
    PROVE  sentVotes \subseteq sentVotes'
BY CastVote, QuietKinds DEF StepKind

\* A vote not sent before is the one a node casts in this step.
LEMMA NewVote ==
    ASSUME TypeOK, StepKind, NEW vm \in sentVotes', vm \notin sentVotes
    PROVE  \E n \in Correct, id \in Value :
              \/ Prevoted(n, id) /\ vm = MakeVote(n, "Prevote", id)
              \/ Precommitted(n, id) /\ vm = MakeVote(n, "Precommit", id)
<1>1. PICK n \in Correct, id \in Value : Prevoted(n, id) \/ Precommitted(n, id)
  BY QuietKinds DEF StepKind
<1>2. \/ /\ Prevoted(n, id)
         /\ sentVotes' = sentVotes \cup {MakeVote(n, "Prevote", id)}
      \/ /\ Precommitted(n, id)
         /\ sentVotes' = sentVotes \cup {MakeVote(n, "Precommit", id)}
  BY <1>1, CastVote
<1>3. QED
  BY <1>2, SMT

\* A signature once given stays valid.
LEMMA SignaturesLast ==
    ASSUME sentVotes \subseteq sentVotes'
    PROVE  /\ \A p, id : SignedId(p, id) => SignedId(p, id)'
           /\ \A vm : VerifySig(vm) => VerifySig(vm)'
<1>1. \A p, id : SignedId(p, id) => SignedId(p, id)'
  BY DEF SignedId
<1>2. \A vm : VerifySig(vm) => VerifySig(vm)'
  BY <1>1 DEF VerifySig
<1>3. QED
  BY <1>1, <1>2

\* What a node has heard from a correct one was cast, after every step.
LEMMA StoresStep ==
    ASSUME TypeOK, StoresAuthentic, StepKind
    PROVE  StoresAuthentic'
<1>1. \A vm : VerifySig(vm) => VerifySig(vm)'
  BY VotesGrow, SignaturesLast
<1>2. CASE Still
  <2>1. UNCHANGED <<height, prevotes, precommits, sentVotes>>
    BY <1>2 DEF Still
  <2>2. QED
    BY <1>1, <2>1, SMT DEF StoresAuthentic, Authentic
<1>3. ASSUME NEW n \in Correct, Hear(n)
      PROVE  StoresAuthentic'
  <2>1. PICK vm \in Vote :
          /\ vm.height = height[n]
          /\ vm.voter \in ActiveSet[height[n]]
          /\ VerifySig(vm)
          /\ \/ /\ vm.type = "Prevote"
                /\ prevotes' = [prevotes EXCEPT ![n] = @ \cup {vm}]
                /\ precommits' = precommits
             \/ /\ vm.type = "Precommit"
                /\ precommits' = [precommits EXCEPT ![n] = @ \cup {vm}]
                /\ prevotes' = prevotes
    BY <1>3 DEF Hear
  <2>2. height' = height /\ sentVotes' = sentVotes
    BY <1>3 DEF Hear
  <2>3. /\ \A m \in Correct : \A w \in prevotes'[m] :
              \/ w \in prevotes[m]
              \/ m = n /\ w = vm /\ vm.type = "Prevote"
        /\ \A m \in Correct : \A w \in precommits'[m] :
              \/ w \in precommits[m]
              \/ m = n /\ w = vm /\ vm.type = "Precommit"
    BY <2>1, StoreTypes
  <2>4. QED
    BY <1>1, <2>1, <2>2, <2>3, SMT DEF StoresAuthentic, Authentic
<1>4. ASSUME NEW n \in Correct, NewRound(n)
      PROVE  StoresAuthentic'
  BY <1>1, <1>4, SMT DEF NewRound, StoresAuthentic, Authentic
<1>5. ASSUME NEW n \in Correct, NEW id \in Value, Prevoted(n, id)
      PROVE  StoresAuthentic'
  <2> DEFINE vm == MakeVote(n, "Prevote", id)
  <2>1. /\ prevotes' = [prevotes EXCEPT ![n] = Insert(@, vm)]
        /\ precommits' = precommits /\ height' = height
        /\ sentVotes' = sentVotes \cup {vm}
    BY <1>5 DEF Prevoted, EmitPrevote
  <2>2. vm.type = "Prevote" /\ vm.height = height[n] /\ vm.voter = n
    BY DEF MakeVote
  <2> HIDE DEF vm
  <2>3. ASSUME NEW m \in Correct, NEW w \in prevotes'[m]
        PROVE  w \in prevotes[m] \/ (m = n /\ w = vm)
    BY <2>1, <2>3, StoreTypes DEF Insert
  <2>4. ASSUME NEW m \in Correct, NEW w \in prevotes'[m]
        PROVE  Authentic(m, "Prevote", w)'
    <3>1. CASE w \in prevotes[m]
      BY <1>1, <2>1, <3>1 DEF StoresAuthentic, Authentic
    <3>2. CASE m = n /\ w = vm
      BY <2>1, <2>2, <3>2 DEF Authentic, VerifySig
    <3>3. QED
      BY <2>3, <3>1, <3>2
  <2>5. ASSUME NEW m \in Correct, NEW w \in precommits'[m]
        PROVE  Authentic(m, "Precommit", w)'
    BY <1>1, <2>1, <2>5 DEF StoresAuthentic, Authentic
  <2>6. QED
    BY <2>4, <2>5 DEF StoresAuthentic
<1>6. ASSUME NEW n \in Correct, NEW id \in Value, Precommitted(n, id)
      PROVE  StoresAuthentic'
  <2> DEFINE vm == MakeVote(n, "Precommit", id)
  <2>1. /\ precommits' = [precommits EXCEPT ![n] = Insert(@, vm)]
        /\ prevotes' = prevotes /\ height' = height
        /\ sentVotes' = sentVotes \cup {vm}
    BY <1>6 DEF Precommitted, EmitPrecommit
  <2>2. vm.type = "Precommit" /\ vm.height = height[n] /\ vm.voter = n
    BY DEF MakeVote
  <2> HIDE DEF vm
  <2>3. ASSUME NEW m \in Correct, NEW w \in precommits'[m]
        PROVE  w \in precommits[m] \/ (m = n /\ w = vm)
    BY <2>1, <2>3, StoreTypes DEF Insert
  <2>4. ASSUME NEW m \in Correct, NEW w \in precommits'[m]
        PROVE  Authentic(m, "Precommit", w)'
    <3>1. CASE w \in precommits[m]
      BY <1>1, <2>1, <3>1 DEF StoresAuthentic, Authentic
    <3>2. CASE m = n /\ w = vm
      BY <2>1, <2>2, <3>2 DEF Authentic, VerifySig
    <3>3. QED
      BY <2>3, <3>1, <3>2
  <2>5. ASSUME NEW m \in Correct, NEW w \in prevotes'[m]
        PROVE  Authentic(m, "Prevote", w)'
    BY <1>1, <2>1, <2>5 DEF StoresAuthentic, Authentic
  <2>6. QED
    BY <2>4, <2>5 DEF StoresAuthentic
<1>7. ASSUME NEW n \in Correct, NEW block \in Block, Rolled(n, block)
      PROVE  StoresAuthentic'
  <2>1. /\ height' = [height EXCEPT ![n] = @ + 1] /\ sentVotes' = sentVotes
        /\ prevotes' = [prevotes EXCEPT ![n] = {}]
        /\ precommits' = [precommits EXCEPT ![n] = {}]
    BY <1>7 DEF Rolled
  <2>2. ASSUME NEW m \in Correct
        PROVE  \/ prevotes'[m] = {} /\ precommits'[m] = {}
               \/ /\ height'[m] = height[m]
                  /\ prevotes'[m] = prevotes[m] /\ precommits'[m] = precommits[m]
    BY <2>1, CoreTypes, StoreTypes
  <2>3. ASSUME NEW m \in Correct, NEW w \in prevotes'[m]
        PROVE  Authentic(m, "Prevote", w)'
    <3>1. w \in prevotes[m] /\ height'[m] = height[m]
      BY <2>2, <2>3
    <3>2. Authentic(m, "Prevote", w)
      BY <3>1 DEF StoresAuthentic
    <3>3. QED
      BY <1>1, <2>1, <3>1, <3>2 DEF Authentic
  <2>4. ASSUME NEW m \in Correct, NEW w \in precommits'[m]
        PROVE  Authentic(m, "Precommit", w)'
    <3>1. w \in precommits[m] /\ height'[m] = height[m]
      BY <2>2, <2>4
    <3>2. Authentic(m, "Precommit", w)
      BY <3>1 DEF StoresAuthentic
    <3>3. QED
      BY <1>1, <2>1, <3>1, <3>2 DEF Authentic
  <2>5. QED
    BY <2>3, <2>4 DEF StoresAuthentic
<1>8. QED
  BY <1>2, <1>3, <1>4, <1>5, <1>6, <1>7 DEF StepKind

\* Nobody votes ahead of their own height, round and step, after every step.
LEMMA OrderStep ==
    ASSUME TypeOK, VotesInOrder, StepKind
    PROVE  VotesInOrder'
<1>1. CASE Still
  BY <1>1 DEF Still, VotesInOrder, VoteBehind
<1>2. ASSUME NEW n \in Correct, Hear(n)
      PROVE  VotesInOrder'
  BY <1>2 DEF Hear, VotesInOrder, VoteBehind
<1>3. ASSUME NEW n \in Correct, NewRound(n)
      PROVE  VotesInOrder'
  <2>1. PICK r \in Round : r > round[n] /\ round' = [round EXCEPT ![n] = r]
    BY <1>3 DEF NewRound
  <2>2. /\ height' = height /\ sentVotes' = sentVotes
        /\ step' = [step EXCEPT ![n] = "Propose"]
    BY <1>3 DEF NewRound
  <2>3. ASSUME NEW vm \in sentVotes PROVE VoteBehind(vm, vm.voter)'
    <3>1. vm.round \in Nat /\ vm.voter \in Correct /\ round[n] \in Nat /\ r \in Nat
      BY ConstantTypes DEF VotesInOrder, TypeOK, Vote
    <3>2. VoteBehind(vm, vm.voter)
      BY DEF VotesInOrder
    <3>3. QED
      <4>1. CASE vm.voter = n
        <5>1. round'[vm.voter] = r /\ vm.voter = n
          BY <2>1, <4>1, CoreTypes
        <5>2. vm.height = height[vm.voter] => vm.round < round'[vm.voter]
          BY <2>1, <3>1, <3>2, <5>1, SMT DEF VoteBehind
        <5>3. QED
          BY <2>2, <3>1, <3>2, <5>1, <5>2, SMT DEF VoteBehind
      <4>2. CASE vm.voter # n
        <5>1. /\ round'[vm.voter] = round[vm.voter]
              /\ step'[vm.voter] = step[vm.voter]
          BY <2>1, <2>2, <3>1, <4>2, CoreTypes
        <5>2. QED
          BY <2>2, <3>2, <5>1 DEF VoteBehind
      <4>3. QED
        BY <4>1, <4>2
  <2>4. QED
    BY <2>2, <2>3 DEF VotesInOrder
<1>4. ASSUME NEW n \in Correct, NEW id \in Value, NEW type, NEW new,
             new = MakeVote(n, type, id), sentVotes' = sentVotes \cup {new},
             \/ /\ step[n] = "Propose" /\ type = "Prevote"
                /\ step' = [step EXCEPT ![n] = "Prevote"]
             \/ /\ step[n] = "Prevote" /\ type = "Precommit"
                /\ step' = [step EXCEPT ![n] = "Precommit"],
             height' = height, round' = round
      PROVE  VotesInOrder'
  <2>1. /\ new.voter = n /\ new.height = height[n] /\ new.round = round[n]
        /\ new.type = type
    BY <1>4 DEF MakeVote
  <2>2. VoteBehind(new, n)'
    <3>1. /\ height'[n] = height[n] /\ height[n] \in Nat
          /\ round'[n] = round[n] /\ round[n] \in Nat
      BY <1>4, CoreTypes
    <3>2. step'[n] # "Propose" /\ (type = "Precommit" => step'[n] = "Precommit")
      BY <1>4, CoreTypes
    <3>3. QED
      BY <2>1, <3>1, <3>2, SMT DEF VoteBehind
  <2>3. ASSUME NEW vm \in sentVotes PROVE VoteBehind(vm, vm.voter)'
    BY <1>4 DEF VotesInOrder, VoteBehind, TypeOK
  <2>4. \A vm \in sentVotes' : vm \in sentVotes \/ vm = new
    BY <1>4
  <2>5. QED
    BY <2>1, <2>2, <2>3, <2>4 DEF VotesInOrder
<1>5. ASSUME NEW n \in Correct, NEW id \in Value,
             Prevoted(n, id) \/ Precommitted(n, id)
      PROVE  VotesInOrder'
  <2>1. height' = height /\ round' = round
    BY <1>5 DEF Prevoted, Precommitted
  <2>2. CASE Prevoted(n, id)
    <3>1. /\ step[n] = "Propose" /\ step' = [step EXCEPT ![n] = "Prevote"]
          /\ sentVotes' = sentVotes \cup {MakeVote(n, "Prevote", id)}
      BY <2>2, CastVote DEF Prevoted
    <3>2. QED
      BY <1>4, <2>1, <3>1
  <2>3. CASE Precommitted(n, id)
    <3>1. /\ step[n] = "Prevote" /\ step' = [step EXCEPT ![n] = "Precommit"]
          /\ sentVotes' = sentVotes \cup {MakeVote(n, "Precommit", id)}
      BY <2>3, CastVote DEF Precommitted
    <3>2. QED
      BY <1>4, <2>1, <3>1
  <2>4. QED
    BY <1>5, <2>2, <2>3
<1>6. ASSUME NEW n \in Correct, NEW block \in Block, Rolled(n, block)
      PROVE  VotesInOrder'
  <2>1. /\ height' = [height EXCEPT ![n] = @ + 1] /\ sentVotes' = sentVotes
        /\ round' = [round EXCEPT ![n] = 0]
        /\ step' = [step EXCEPT ![n] = "Propose"]
    BY <1>6 DEF Rolled
  <2>2. ASSUME NEW vm \in sentVotes PROVE VoteBehind(vm, vm.voter)'
    <3>1. vm.height \in Nat /\ vm.voter \in Correct /\ height[n] \in Nat
      BY ConstantTypes DEF VotesInOrder, TypeOK, Vote
    <3>2. VoteBehind(vm, vm.voter)
      BY DEF VotesInOrder
    <3>3. QED
      <4>1. CASE vm.voter = n
        <5>1. height'[n] = height[n] + 1
          BY <2>1, CoreTypes
        <5>2. QED
          <6>1. vm.height <= height[n]
            BY <3>2, <4>1 DEF VoteBehind
          <6>2. vm.height < height'[vm.voter]
            BY <3>1, <4>1, <5>1, <6>1, SMT
          <6>3. height'[vm.voter] \in Nat
            BY <3>1, <4>1, <5>1, SMT
          <6>4. QED
            BY <3>1, <6>2, <6>3, SMT DEF VoteBehind
      <4>2. CASE vm.voter # n
        <5>1. /\ height'[vm.voter] = height[vm.voter]
              /\ round'[vm.voter] = round[vm.voter]
              /\ step'[vm.voter] = step[vm.voter]
          BY <2>1, <3>1, <4>2, CoreTypes
        <5>2. QED
          BY <3>2, <5>1 DEF VoteBehind
      <4>3. QED
        BY <4>1, <4>2
  <2>3. QED
    BY <2>1, <2>2 DEF VotesInOrder
<1>7. QED
  BY <1>1, <1>2, <1>3, <1>5, <1>6 DEF StepKind

\* No node votes twice for a round and type, after every step.
LEMMA OnceStep ==
    ASSUME TypeOK, VotesInOrder, VoteOnce, StepKind
    PROVE  VoteOnce'
<1>1. ASSUME sentVotes' = sentVotes PROVE VoteOnce'
  BY <1>1 DEF VoteOnce
<1>2. ASSUME NEW n \in Correct, NEW id \in Value, NEW type,
             sentVotes' = sentVotes \cup {MakeVote(n, type, id)},
             \/ step[n] = "Propose"
             \/ step[n] = "Prevote" /\ type = "Precommit"
      PROVE  VoteOnce'
  <2> DEFINE new == MakeVote(n, type, id)
  <2>1. /\ new.voter = n /\ new.height = height[n] /\ new.round = round[n]
        /\ new.type = type
    BY DEF MakeVote
  <2> HIDE DEF new
  <2>2. \A vm \in sentVotes' : vm \in sentVotes \/ vm = new
    BY <1>2 DEF new
  <2>3. ASSUME NEW vm \in sentVotes, vm.voter = n, vm.height = height[n],
               vm.round = round[n], vm.type = type
        PROVE  FALSE
    BY <1>2, <2>3 DEF VotesInOrder, VoteBehind
  <2>4. QED
    BY <2>1, <2>2, <2>3, SMT DEF VoteOnce
<1>3. ASSUME NEW n \in Correct, NEW id \in Value, Prevoted(n, id)
      PROVE  VoteOnce'
  <2>1. step[n] = "Propose"
    BY <1>3 DEF Prevoted
  <2>2. QED
    BY <1>2, <1>3, <2>1, CastVote, SMT
<1>4. ASSUME NEW n \in Correct, NEW id \in Value, Precommitted(n, id)
      PROVE  VoteOnce'
  <2>1. step[n] = "Prevote"
    BY <1>4 DEF Precommitted
  <2>2. QED
    BY <1>2, <1>4, <2>1, CastVote, SMT
<1>5. QED
  BY <1>1, <1>3, <1>4, QuietKinds DEF StepKind

\* A lock is backed by a quorum of prevotes, after every step.
LEMMA LockStep ==
    ASSUME TypeOK, StoresAuthentic, LockBacked, StepKind
    PROVE  LockBacked'
<1>1. sentVotes \subseteq sentVotes'
  BY VotesGrow
<1>2. \A h, r, id : Backed(sentVotes, "Prevote", h, r, id) =>
                       Backed(sentVotes', "Prevote", h, r, id)
  BY <1>1, BackedMonotone
<1>3. ASSUME UNCHANGED <<height, round, step, lockedValue, lockedRound>>
      PROVE  LockBacked'
  BY <1>2, <1>3 DEF LockBacked
<1>4. ASSUME NEW n \in Correct, NewRound(n)
      PROVE  LockBacked'
  <2>1. PICK r \in Round : r > round[n] /\ round' = [round EXCEPT ![n] = r]
    BY <1>4 DEF NewRound
  <2>2. /\ UNCHANGED <<height, lockedValue, lockedRound>>
        /\ step' = [step EXCEPT ![n] = "Propose"]
    BY <1>4 DEF NewRound
  <2>3. ASSUME NEW m \in Correct
        PROVE  \/ round'[m] = round[m] /\ step'[m] = step[m]
               \/ /\ step'[m] = "Propose"
                  /\ round[m] \in Nat /\ round'[m] \in Nat /\ round'[m] > round[m]
    BY <2>1, <2>2, CoreTypes
  <2>4. \A m \in Correct : lockedRound[m] \in Int
    BY CoreTypes, SMT
  <2>5. ASSUME NEW m \in Correct, lockedRound[m] # -1
        PROVE  /\ lockedRound[m] <= round'[m]
               /\ lockedRound[m] = round'[m] => step'[m] = "Precommit"
    <3>1. /\ lockedRound[m] <= round[m]
          /\ lockedRound[m] = round[m] => step[m] = "Precommit"
      BY <2>5 DEF LockBacked
    <3>2. QED
      BY <2>3, <2>4, <3>1, SMT
  <2>6. QED
    BY <1>2, <2>2, <2>5 DEF LockBacked
<1>5. ASSUME NEW n \in Correct, NEW id \in Value, Prevoted(n, id)
      PROVE  LockBacked'
  <2>1. /\ UNCHANGED <<height, round, lockedValue, lockedRound>>
        /\ step[n] = "Propose" /\ step' = [step EXCEPT ![n] = "Prevote"]
    BY <1>5, CastVote DEF Prevoted
  <2>2. ASSUME NEW m \in Correct
        PROVE  \/ step'[m] = step[m]
               \/ step[m] = "Propose" /\ step'[m] = "Prevote"
    BY <2>1, CoreTypes
  <2>3. QED
    BY <1>2, <2>1, <2>2 DEF LockBacked
<1>6. ASSUME NEW n \in Correct, NEW id \in Value, Precommitted(n, id)
      PROVE  LockBacked'
  <2>1. /\ step' = [step EXCEPT ![n] = "Precommit"]
        /\ height' = height /\ round' = round
    BY <1>6, CastVote DEF Precommitted
  <2>2. /\ round \in [Correct -> Round] /\ lockedRound \in [Correct -> Round \cup {-1}]
        /\ step \in [Correct -> {"Propose", "Prevote", "Precommit"}]
        /\ lockedValue \in [Correct -> Value]
        /\ Round \subseteq Nat
    BY ConstantTypes DEF TypeOK
  <2>3. CASE UNCHANGED <<lockedValue, lockedRound>>
    BY <1>2, <2>1, <2>2, <2>3 DEF LockBacked
  <2>4. CASE /\ lockedValue' = [lockedValue EXCEPT ![n] = id]
             /\ lockedRound' = [lockedRound EXCEPT ![n] = round[n]]
             /\ Count(prevotes[n], round[n], id) >= Quorum(height[n])
    <3>1. n \in ActiveSet[height[n]] =>
            Backed(sentVotes, "Prevote", height[n], round[n], id)
      BY <2>4, PolkaIsBacked
    <3>2. ASSUME NEW m \in Correct, m # n
          PROVE  /\ lockedRound'[m] = lockedRound[m]
                 /\ lockedValue'[m] = lockedValue[m]
                 /\ step'[m] = step[m]
      BY <2>1, <2>2, <2>4, <3>2
    <3>3. /\ lockedRound'[n] = round[n] /\ lockedValue'[n] = id
          /\ step'[n] = "Precommit" /\ round[n] \in Nat
      BY <2>1, <2>2, <2>4
    <3>4. ASSUME NEW m \in Correct, lockedRound'[m] # -1
          PROVE  /\ lockedRound'[m] <= round'[m]
                 /\ lockedRound'[m] = round'[m] => step'[m] = "Precommit"
                 /\ m \in ActiveSet[height'[m]] =>
                       Backed(sentVotes', "Prevote", height'[m], lockedRound'[m],
                              lockedValue'[m])
      <4>1. CASE m = n
        BY <1>2, <2>1, <3>1, <3>3, <4>1, SMT
      <4>2. CASE m # n
        <5>1. lockedRound[m] # -1
          BY <3>2, <3>4, <4>2
        <5>2. /\ lockedRound[m] <= round[m]
              /\ lockedRound[m] = round[m] => step[m] = "Precommit"
              /\ m \in ActiveSet[height[m]] =>
                    Backed(sentVotes, "Prevote", height[m], lockedRound[m],
                           lockedValue[m])
          BY <5>1 DEF LockBacked
        <5>3. QED
          BY <1>2, <2>1, <3>2, <4>2, <5>2
      <4>3. QED
        BY <4>1, <4>2
    <3>5. QED
      BY <3>4 DEF LockBacked
  <2>5. QED
    BY <1>6, <2>3, <2>4 DEF Precommitted
<1>7. ASSUME NEW n \in Correct, NEW block \in Block, Rolled(n, block)
      PROVE  LockBacked'
  BY <1>2, <1>7 DEF LockBacked, Rolled, TypeOK
<1>8. QED
  BY <1>3, <1>4, <1>5, <1>6, <1>7 DEF StepKind, Still, Hear

\* Who precommitted a block is locked, after every step.
LEMMA PrecommitStep ==
    ASSUME TypeOK, StoresAuthentic, VotesInOrder, PrecommitsLocked, StepKind
    PROVE  PrecommitsLocked'
<1> DEFINE Kept(vm) ==
      vm.height = height'[vm.voter] =>
         /\ vm.round <= lockedRound'[vm.voter]
         /\ vm.round = lockedRound'[vm.voter] => vm.id = lockedValue'[vm.voter]
<1>1. sentVotes \subseteq sentVotes'
  BY VotesGrow
<1>2. \A h, r, id : Backed(sentVotes, "Prevote", h, r, id) =>
                       Backed(sentVotes', "Prevote", h, r, id)
  BY <1>1, BackedMonotone
<1>3. ASSUME NEW vm \in sentVotes, vm.type = "Precommit", vm.id # Nil
      PROVE  Kept(vm)
  <2>1. /\ vm.voter \in Correct /\ VoteBehind(vm, vm.voter)
        /\ vm.height \in Nat /\ vm.round \in Nat
    BY ConstantTypes DEF VotesInOrder, TypeOK, Vote
  <2>2. vm.height = height[vm.voter] =>
          /\ vm.round <= lockedRound[vm.voter]
          /\ vm.round = lockedRound[vm.voter] => vm.id = lockedValue[vm.voter]
    BY <1>3 DEF PrecommitsLocked
  <2>3. ASSUME UNCHANGED <<height, lockedValue, lockedRound>> PROVE Kept(vm)
    BY <2>2, <2>3
  <2>4. ASSUME NEW n \in Correct, NEW id \in Value, Precommitted(n, id)
        PROVE  Kept(vm)
    <3>1. step[n] = "Prevote" /\ height' = height
      BY <2>4 DEF Precommitted
    <3>2. CASE /\ lockedValue' = [lockedValue EXCEPT ![n] = id]
               /\ lockedRound' = [lockedRound EXCEPT ![n] = round[n]]
      <4>1. CASE vm.voter = n /\ vm.height = height[n]
        <5>1. vm.round <= round[n] /\ vm.round # round[n]
          BY <1>3, <2>1, <3>1, <4>1 DEF VoteBehind
        <5>2. lockedRound'[n] = round[n]
          BY <3>2 DEF TypeOK
        <5>3. QED
          BY <4>1, <5>1, <5>2
      <4>2. CASE vm.voter # n
        BY <2>1, <2>2, <3>1, <3>2, <4>2 DEF TypeOK
      <4>3. QED
        BY <3>1, <4>1, <4>2
    <3>3. QED
      BY <2>3, <2>4, <3>1, <3>2 DEF Precommitted
  <2>5. ASSUME NEW n \in Correct, NEW block \in Block, Rolled(n, block)
        PROVE  Kept(vm)
    <3>1. /\ height' = [height EXCEPT ![n] = @ + 1]
          /\ lockedRound' = [lockedRound EXCEPT ![n] = -1]
          /\ lockedValue' = [lockedValue EXCEPT ![n] = Nil]
      BY <2>5 DEF Rolled
    <3>2. CASE vm.voter = n
      <4>1. height[n] \in Nat /\ height'[n] = height[n] + 1
        BY <3>1, ConstantTypes DEF TypeOK
      <4>2. QED
        BY <2>1, <3>2, <4>1, SMT DEF VoteBehind
    <3>3. CASE vm.voter # n
      BY <2>1, <2>2, <3>1, <3>3 DEF TypeOK
    <3>4. QED
      BY <3>2, <3>3
  <2>6. QED
    BY <2>3, <2>4, <2>5 DEF StepKind, Still, Hear, NewRound, Prevoted
<1>4. ASSUME NEW n \in Correct, NEW id \in Value, Precommitted(n, id), id # Nil
      PROVE  /\ n \in ActiveSet[height[n]] =>
                   Backed(sentVotes, "Prevote", height[n], round[n], id)
             /\ Kept(MakeVote(n, "Precommit", id))
  <2>1. /\ lockedValue'[n] = id /\ lockedRound'[n] = round[n] /\ round[n] \in Nat
        /\ Count(prevotes[n], round[n], id) >= Quorum(height[n])
    BY <1>4, ConstantTypes DEF Precommitted, TypeOK
  <2>2. QED
    <3>1. n \in ActiveSet[height[n]] =>
            Backed(sentVotes, "Prevote", height[n], round[n], id)
      BY <2>1, PolkaIsBacked
    <3> DEFINE new == MakeVote(n, "Precommit", id)
    <3>2. new.voter = n /\ new.round = round[n] /\ new.id = id
      BY DEF MakeVote
    <3> HIDE DEF new
    <3>3. lockedRound'[new.voter] = new.round /\ lockedValue'[new.voter] = new.id
      BY <2>1, <3>2
    <3>4. new.round \in Nat
      BY <2>1, <3>2
    <3>5. Kept(new)
      BY <3>3, <3>4, SMT
    <3>6. QED
      BY <3>1, <3>5 DEF new
<1>5. ASSUME NEW vm \in sentVotes', vm.type = "Precommit", vm.id # Nil
      PROVE  /\ vm.voter \in ActiveSet[vm.height] =>
                   Backed(sentVotes, "Prevote", vm.height, vm.round, vm.id)
             /\ Kept(vm)
  <2>1. CASE vm \in sentVotes
    BY <1>3, <1>5, <2>1 DEF PrecommitsLocked
  <2>2. CASE vm \notin sentVotes
    <3>1. PICK n \in Correct, id \in Value :
            \/ Prevoted(n, id) /\ vm = MakeVote(n, "Prevote", id)
            \/ Precommitted(n, id) /\ vm = MakeVote(n, "Precommit", id)
      BY <1>5, <2>2, NewVote
    <3>2. Precommitted(n, id) /\ vm = MakeVote(n, "Precommit", id)
      <4>1. MakeVote(n, "Prevote", id).type = "Prevote"
        BY DEF MakeVote
      <4>2. QED
        BY <1>5, <3>1, <4>1
    <3>3. /\ vm.id = id /\ vm.height = height[n] /\ vm.round = round[n]
          /\ vm.voter = n
      BY <3>2 DEF MakeVote
    <3>4. QED
      BY <1>4, <1>5, <3>2, <3>3
  <2>3. QED
    BY <2>1, <2>2
<1>6. QED
  BY <1>2, <1>5 DEF PrecommitsLocked

\* A prevote against an earlier precommit is justified, after every step.
LEMMA LockRespectedStep ==
    ASSUME TypeOK, StoresAuthentic, VotesInOrder, LockBacked, PrecommitsLocked,
           LockRespected, StepKind
    PROVE  LockRespected'
<1> DEFINE Between(c, v) ==
      \E r \in Round : /\ c.round <= r /\ r < v.round
                       /\ Backed(sentVotes, "Prevote", v.height, r, v.id)
<1> DEFINE Clash(c, v) ==
      /\ c.type = "Precommit" /\ v.type = "Prevote"
      /\ c.voter = v.voter /\ c.height = v.height
      /\ c.voter \in ActiveSet[c.height]
      /\ c.round < v.round
      /\ c.id # Nil /\ v.id # Nil /\ c.id # v.id
<1>1. sentVotes \subseteq sentVotes'
  BY VotesGrow
<1>2. \A h, r, id : Backed(sentVotes, "Prevote", h, r, id) =>
                       Backed(sentVotes', "Prevote", h, r, id)
  BY <1>1, BackedMonotone
<1>3. ASSUME NEW c \in sentVotes, NEW v \in sentVotes, Clash(c, v)
      PROVE  Between(c, v)
  BY <1>3 DEF LockRespected
<1>4. ASSUME NEW n \in Correct, NEW id \in Value, Prevoted(n, id),
             NEW v, v = MakeVote(n, "Prevote", id),
             NEW c \in sentVotes, Clash(c, v)
      PROVE  Between(c, v)
  <2>1. /\ v.voter = n /\ v.height = height[n] /\ v.round = round[n] /\ v.id = id
        /\ c.voter = n /\ c.height = height[n] /\ id # Nil
        /\ n \in ActiveSet[height[n]]
    BY <1>4 DEF MakeVote
  <2>2. /\ c.round \in Nat /\ round[n] \in Nat /\ Round \subseteq Nat
        /\ lockedRound[n] \in Round \cup {-1}
    BY ConstantTypes DEF TypeOK, Vote
  <2>3. c.round <= lockedRound[n]
    BY <1>4, <2>1 DEF PrecommitsLocked
  <2>4. lockedRound[n] # -1 /\ lockedRound[n] \in Round
    BY <2>2, <2>3, SMT
  <2>5. step[n] = "Propose"
    BY <1>4 DEF Prevoted
  <2>6. lockedRound[n] < round[n]
    <3>1. lockedRound[n] <= round[n] /\ lockedRound[n] # round[n]
      BY <2>4, <2>5 DEF LockBacked
    <3>2. lockedRound[n] \in Nat /\ round[n] \in Nat
      BY <2>2, <2>4
    <3>3. QED
      BY <3>1, <3>2, SMT
  <2>7. CASE lockedValue[n] = id
    <3>1. Backed(sentVotes, "Prevote", height[n], lockedRound[n], id)
      BY <2>1, <2>4, <2>7 DEF LockBacked
    <3>2. QED
      BY <2>1, <2>3, <2>4, <2>6, <3>1
  <2>8. CASE \E r \in Round :
                /\ lockedRound[n] <= r /\ r < round[n]
                /\ Count(prevotes[n], r, id) >= Quorum(height[n])
    <3>1. PICK r \in Round :
                /\ lockedRound[n] <= r /\ r < round[n]
                /\ Count(prevotes[n], r, id) >= Quorum(height[n])
      BY <2>8
    <3>2. Backed(sentVotes, "Prevote", height[n], r, id)
      BY <2>1, <3>1, PolkaIsBacked
    <3>3. c.round <= r /\ r < v.round
      <4>1. lockedRound[n] \in Nat /\ r \in Nat
        BY <2>2, <2>4
      <4>2. QED
        BY <2>1, <2>2, <2>3, <3>1, <4>1, SMT
    <3>4. QED
      BY <2>1, <3>2, <3>3
  <2>9. QED
    BY <1>4, <2>1, <2>4, <2>7, <2>8 DEF Prevoted
<1>5. ASSUME NEW n \in Correct, NEW id \in Value, Precommitted(n, id),
             NEW c, c = MakeVote(n, "Precommit", id),
             NEW v \in sentVotes, Clash(c, v)
      PROVE  FALSE
  <2>1. v.voter = n /\ v.height = height[n] /\ round[n] < v.round
    BY <1>5 DEF MakeVote
  <2>2. v.round <= round[n]
    BY <2>1 DEF VotesInOrder, VoteBehind
  <2>3. v.round \in Nat /\ round[n] \in Nat
    BY ConstantTypes DEF TypeOK, Vote
  <2>4. QED
    BY <2>1, <2>2, <2>3, SMT
<1>6. ASSUME NEW c \in sentVotes', NEW v \in sentVotes', Clash(c, v)
      PROVE  Between(c, v)
  <2>1. CASE c \in sentVotes /\ v \in sentVotes
    BY <1>3, <1>6, <2>1
  <2>2. CASE c \notin sentVotes \/ v \notin sentVotes
    <3>1. PICK n \in Correct, id \in Value :
            \/ /\ Prevoted(n, id)
               /\ sentVotes' = sentVotes \cup {MakeVote(n, "Prevote", id)}
            \/ /\ Precommitted(n, id)
               /\ sentVotes' = sentVotes \cup {MakeVote(n, "Precommit", id)}
      BY <2>2, NewVote, CastVote, SMT
    <3>2. CASE /\ Prevoted(n, id)
               /\ sentVotes' = sentVotes \cup {MakeVote(n, "Prevote", id)}
      <4>1. MakeVote(n, "Prevote", id).type = "Prevote"
        BY DEF MakeVote
      <4>2. c \in sentVotes /\ v = MakeVote(n, "Prevote", id)
        BY <1>6, <2>2, <3>2, <4>1
      <4>3. QED
        BY <1>4, <1>6, <3>2, <4>2
    <3>3. CASE /\ Precommitted(n, id)
               /\ sentVotes' = sentVotes \cup {MakeVote(n, "Precommit", id)}
      <4>1. MakeVote(n, "Precommit", id).type = "Precommit"
        BY DEF MakeVote
      <4>2. v \in sentVotes /\ c = MakeVote(n, "Precommit", id)
        BY <1>6, <2>2, <3>3, <4>1
      <4>3. QED
        BY <1>5, <1>6, <3>3, <4>2
    <3>4. QED
      BY <3>1, <3>2, <3>3
  <2>3. QED
    BY <2>1, <2>2
<1>7. QED
  BY <1>2, <1>6 DEF LockRespected

\* A precommit for a block is cast at the height of the block, after every
\* step.
LEMMA SharesStep ==
    ASSUME TypeOK, SharesOfHeight, StepKind
    PROVE  SharesOfHeight'
<1>1. ASSUME NEW vm \in sentVotes', vm.type = "Precommit", vm.id # Nil
      PROVE  Len(vm.id) = vm.height
  <2>1. CASE vm \in sentVotes
    BY <1>1, <2>1 DEF SharesOfHeight
  <2>2. CASE vm \notin sentVotes
    <3>1. PICK n \in Correct, id \in Value :
            \/ Prevoted(n, id) /\ vm = MakeVote(n, "Prevote", id)
            \/ Precommitted(n, id) /\ vm = MakeVote(n, "Precommit", id)
      BY <1>1, <2>2, NewVote
    <3>2. Precommitted(n, id) /\ vm = MakeVote(n, "Precommit", id)
      <4>1. MakeVote(n, "Prevote", id).type = "Prevote"
        BY DEF MakeVote
      <4>2. QED
        BY <1>1, <3>1, <4>1
    <3>3. vm.id = id /\ vm.height = height[n]
      BY <3>2 DEF MakeVote
    <3>4. QED
      BY <1>1, <3>2, <3>3 DEF Precommitted
  <2>3. QED
    BY <2>1, <2>2
<1>2. QED
  BY <1>1 DEF SharesOfHeight

\* The certificate of every block a node has is of precommits that were cast,
\* after every step.
LEMMA BlocksStep ==
    ASSUME TypeOK, BlocksBacked, StepKind
    PROVE  BlocksBacked'
<1> DEFINE Kept(n, h, block) ==
      /\ h \in Height
      /\ Len(block.value) = h
      /\ n \in ActiveSet[h] => Certifies(block.qc, ActiveSet[h])
      /\ \A p \in block.qc : p \in Faulty \/ \E w \in sentVotes' :
            w.type = "Precommit" /\ w.voter = p /\ w.id = block.value
<1>1. sentVotes \subseteq sentVotes'
  BY VotesGrow
<1>2. ASSUME NEW n, NEW h, NEW block, BlockBacked(n, h, block)
      PROVE  Kept(n, h, block)
  BY <1>1, <1>2 DEF BlockBacked, SignedId
<1> DEFINE AllKept ==
      \A n \in Correct :
          /\ height'[n] = Len(blocks'[n]) + 1
          /\ \A h \in DOMAIN blocks'[n] : Kept(n, h, blocks'[n][h])
<1>3. AllKept => BlocksBacked'
  BY DEF BlocksBacked, BlockBacked, SignedId
<1> HIDE DEF Kept
<1>4. ASSUME UNCHANGED <<height, blocks>> PROVE AllKept
  BY <1>2, <1>4 DEF BlocksBacked
<1> HIDE DEF AllKept
<1>5. ASSUME NEW n \in Correct, NEW block \in Block, Rolled(n, block)
      PROVE  AllKept
  <2>1. /\ BlockBacked(n, height[n], block)
        /\ blocks' = [blocks EXCEPT ![n] = Append(@, block)]
        /\ height' = [height EXCEPT ![n] = @ + 1]
    BY <1>5 DEF Rolled
  <2>2. blocks[n] \in Seq(Block) /\ height[n] = Len(blocks[n]) + 1
    BY DEF TypeOK, BlocksBacked
  <2>3. ASSUME NEW m \in Correct, m # n
        PROVE  /\ height'[m] = Len(blocks'[m]) + 1
               /\ \A h \in DOMAIN blocks'[m] : Kept(m, h, blocks'[m][h])
    <3>1. blocks'[m] = blocks[m] /\ height'[m] = height[m]
      BY <2>1, <2>3 DEF TypeOK
    <3>2. QED
      BY <1>2, <3>1 DEF BlocksBacked
  <2>4. /\ blocks'[n] = Append(blocks[n], block)
        /\ height'[n] = height[n] + 1
    BY <2>1 DEF TypeOK
  <2>5. height'[n] = Len(blocks'[n]) + 1
    BY <2>2, <2>4, SMT
  <2>6. ASSUME NEW h \in DOMAIN blocks'[n]
        PROVE  Kept(n, h, blocks'[n][h])
    <3>1. CASE h \in DOMAIN blocks[n]
      <4>1. blocks'[n][h] = blocks[n][h]
        BY <2>2, <2>4, <3>1, SMT
      <4>2. BlockBacked(n, h, blocks[n][h])
        BY <3>1 DEF BlocksBacked
      <4>3. QED
        BY <1>2, <4>1, <4>2
    <3>2. CASE h \notin DOMAIN blocks[n]
      <4>1. h = height[n] /\ blocks'[n][h] = block
        BY <2>2, <2>4, <2>6, <3>2, SMT
      <4>2. QED
        BY <1>2, <2>1, <4>1
    <3>3. QED
      BY <3>1, <3>2
  <2>7. QED
    BY <2>3, <2>5, <2>6 DEF AllKept
<1>6. QED
  BY <1>3, <1>4, <1>5 DEF StepKind, Still, Hear, NewRound, Prevoted, Precommitted

\* A node that syncs is at the start of a height, after every step.
LEMMA SyncStep ==
    ASSUME TypeOK, SyncAtStart, StepKind
    PROVE  SyncAtStart'
<1>1. CASE Still
  BY <1>1 DEF Still, NoSync, SyncAtStart
<1>2. ASSUME NEW n \in Correct, Hear(n) PROVE SyncAtStart'
  BY <1>2 DEF Hear, NoSync, SyncAtStart
<1>3. ASSUME NEW n \in Correct, NewRound(n) PROVE SyncAtStart'
  BY <1>3 DEF NewRound, NoSync, SyncAtStart, TypeOK
<1>4. ASSUME NEW n \in Correct, NEW id \in Value,
             Prevoted(n, id) \/ Precommitted(n, id)
      PROVE  SyncAtStart'
  <2>1. round' = round /\ phase'[n] # "sync" /\ NoSync
    BY <1>4 DEF Prevoted, Precommitted
  <2>2. \A m \in Correct \ {n} : step'[m] = step[m]
    BY <1>4, CastVote, SMT DEF TypeOK
  <2>3. QED
    BY <2>1, <2>2 DEF NoSync, SyncAtStart
<1>5. ASSUME NEW n \in Correct, NEW block \in Block, Rolled(n, block)
      PROVE  SyncAtStart'
  BY <1>5 DEF Rolled, SyncAtStart, TypeOK
<1>6. QED
  BY <1>1, <1>2, <1>3, <1>4, <1>5 DEF StepKind

\* Where nobody alters a vote the certificates stay of one round each: the
\* precommits a commit counts are those of one round (Engine::try_commit).
LEMMA OneRoundStep ==
    ASSUME Unaltered, TypeOK, BlocksBacked, OneRoundInv, StepKind
    PROVE  OneRoundInv'
<1>1. sentVotes \subseteq sentVotes'
  BY VotesGrow
<1>2. SharesHeard'
  <2>1. ASSUME NEW m \in Correct, NEW w \in precommits'[m]
        PROVE  w \in precommits[m] \/ w \in sentVotes' \/ w.voter \notin Correct
    <3>1. ASSUME precommits' = precommits
          PROVE  w \in precommits[m]
      BY <2>1, <3>1
    <3>2. ASSUME NEW n \in Correct, Hear(n)
          PROVE  w \in precommits[m] \/ w \in sentVotes' \/ w.voter \notin Correct
      <4>1. PICK vm \in Vote :
              /\ vm.voter \in Correct => vm \in sentVotes
              /\ \/ precommits' = [precommits EXCEPT ![n] = @ \cup {vm}]
                 \/ precommits' = precommits
        BY <3>2 DEF Hear
      <4>2. w \in precommits[m] \/ w = vm
        BY <2>1, <4>1, StoreTypes
      <4>3. QED
        BY <1>1, <4>1, <4>2
    <3>3. ASSUME NEW n \in Correct, NEW id \in Value, Precommitted(n, id)
          PROVE  w \in precommits[m] \/ w \in sentVotes'
      <4> DEFINE vm == MakeVote(n, "Precommit", id)
      <4>1. /\ precommits' = [precommits EXCEPT ![n] = Insert(@, vm)]
            /\ sentVotes' = sentVotes \cup {vm}
        BY <3>3 DEF Precommitted, EmitPrecommit
      <4> HIDE DEF vm
      <4>2. w \in precommits[m] \/ w = vm
        BY <2>1, <4>1, StoreTypes DEF Insert
      <4>3. QED
        BY <4>1, <4>2
    <3>4. ASSUME NEW n \in Correct, NEW block \in Block, Rolled(n, block)
          PROVE  w \in precommits[m]
      BY <2>1, <3>4, StoreTypes DEF Rolled
    <3>5. QED
      BY <3>1, <3>2, <3>3, <3>4 DEF StepKind, Still, NewRound, Prevoted
  <2>2. QED
    BY <1>1, <2>1 DEF SharesHeard, OneRoundInv
<1> DEFINE Kept(h, block) ==
      \E r \in Round : \A p \in block.qc \ Faulty :
          Cast(sentVotes', p, "Precommit", h, r, block.value)
<1>3. ASSUME NEW h, NEW block, OfOneRound(h, block)
      PROVE  Kept(h, block)
  BY <1>1, <1>3 DEF OfOneRound, CastPrecommit, Cast
<1> HIDE DEF Kept
<1>4. ASSUME NEW m \in Correct, NEW h \in DOMAIN blocks'[m]
      PROVE  Kept(h, blocks'[m][h])
  <2>1. ASSUME blocks'[m] = blocks[m]
        PROVE  Kept(h, blocks'[m][h])
    BY <1>3, <1>4, <2>1 DEF OneRoundInv, OneRound
  <2>2. ASSUME NEW n \in Correct, NEW block \in Block, Rolled(n, block), n = m
        PROVE  Kept(h, blocks'[m][h])
    <3>1. /\ OfOneRound(height[n], block)
          /\ blocks' = [blocks EXCEPT ![n] = Append(@, block)]
      BY <2>2 DEF Rolled
    <3>2. blocks[n] \in Seq(Block) /\ height[n] = Len(blocks[n]) + 1
      BY DEF TypeOK, BlocksBacked
    <3>3. blocks'[n] = Append(blocks[n], block)
      BY <3>1 DEF TypeOK
    <3>4. CASE h \in DOMAIN blocks[n]
      <4>1. blocks'[n][h] = blocks[n][h]
        BY <3>2, <3>3, <3>4, SMT
      <4>2. OfOneRound(h, blocks[n][h])
        BY <3>4 DEF OneRoundInv, OneRound
      <4>3. QED
        BY <1>3, <2>2, <4>1, <4>2
    <3>5. CASE h \notin DOMAIN blocks[n]
      <4>1. h = height[n] /\ blocks'[n][h] = block
        BY <1>4, <2>2, <3>2, <3>3, <3>5, SMT
      <4>2. QED
        BY <1>3, <2>2, <3>1, <4>1
    <3>6. QED
      BY <3>4, <3>5
  <2>3. ASSUME NEW n \in Correct, NEW block \in Block, Rolled(n, block), n # m
        PROVE  blocks'[m] = blocks[m]
    BY <2>3 DEF Rolled, TypeOK
  <2>4. QED
    BY <2>1, <2>2, <2>3 DEF StepKind, Still, Hear, NewRound, Prevoted, Precommitted
<1>5. OneRound'
  BY <1>4 DEF OneRound, OfOneRound, CastPrecommit, Cast, Kept
<1>6. QED
  BY <1>2, <1>5 DEF OneRoundInv

-----------------------------------------------------------------------------
(* The invariant.                                                          *)

\* The invariant holds at the start.
LEMMA InitInv == Init => IndInv
<1>1. ASSUME Init PROVE IndInv
  <2>1. TypeOK
    BY <1>1, TypeInit
  <2>2. StoresAuthentic
    BY <1>1 DEF Init, StoresAuthentic
  <2>3. VotesInOrder /\ VoteOnce /\ PrecommitsLocked /\ LockRespected
    BY <1>1 DEF Init, VotesInOrder, VoteOnce, PrecommitsLocked, LockRespected
  <2>4. LockBacked
    BY <1>1 DEF Init, LockBacked
  <2>5. BlocksBacked /\ SharesOfHeight
    BY <1>1, SMT DEF Init, BlocksBacked, SharesOfHeight
  <2>6. SyncAtStart
    BY <1>1 DEF Init, SyncAtStart
  <2>7. QED
    BY <2>1, <2>2, <2>3, <2>4, <2>5, <2>6 DEF IndInv
<1>2. QED
  BY <1>1

\* Every step preserves it.
LEMMA InvStep == IndInv /\ [Next]_vars => IndInv'
<1>1. ASSUME IndInv, [Next]_vars PROVE IndInv'
  <2>1. /\ TypeOK /\ StoresAuthentic /\ VotesInOrder /\ VoteOnce /\ LockBacked
        /\ PrecommitsLocked /\ LockRespected /\ SharesOfHeight
        /\ BlocksBacked /\ SyncAtStart
    BY <1>1 DEF IndInv
  <2>2. TypeOK'
    BY <1>1, <2>1, TypeStep
  <2>3. StepKind
    BY <1>1, <2>1, Classify
  <2>4. StoresAuthentic' /\ VotesInOrder' /\ VoteOnce'
    BY <2>1, <2>3, StoresStep, OrderStep, OnceStep
  <2>5. LockBacked' /\ PrecommitsLocked' /\ LockRespected'
    BY <2>1, <2>3, LockStep, PrecommitStep, LockRespectedStep
  <2>6. SharesOfHeight' /\ BlocksBacked' /\ SyncAtStart'
    BY <2>1, <2>3, SharesStep, BlocksStep, SyncStep
  <2>7. QED
    BY <2>2, <2>4, <2>5, <2>6 DEF IndInv
<1>2. QED
  BY <1>1

\* The votes, the locks and the certificates of the correct nodes stay
\* consistent with one another through every handler of the engine.
THEOREM InvariantHolds == Spec => []IndInv
BY InitInv, InvStep, PTL DEF Spec
=============================================================================
