---------------------------- MODULE EngineHeight ----------------------------
(***************************************************************************)
(* What a node of Engine keeps within a height, for every value of the     *)
(* constants: its valid value covers its lock, and it idles only while it  *)
(* has taken no part in the height.                                        *)
(***************************************************************************)
EXTENDS EngineSafety

\* Zenon proves a step that names no other prover.
USE Zenon

-----------------------------------------------------------------------------
(* The lock.                                                               *)

\* A node is never locked in a round to come, and one that has locked in its
\* current round has applied that round's polka, so that the one-shot guard of
\* try_precommit_on_polka keeps a second one out.
LockApplied ==
    \A n \in Correct :
        /\ lockedRound[n] <= round[n]
        /\ lockedRound[n] = round[n] => round[n] \in polkaApplied[n]

\* The steps that leave locks alone and rounds not lower.
LocksKept ==
    /\ UNCHANGED <<lockVars, polkaApplied>>
    /\ \A m \in Correct : round'[m] = round[m] \/ round'[m] > round[m]

\* The steps that change them.
LEMMA LockSteps ==
    ASSUME TypeOK, SyncAtStart, [Next]_vars
    PROVE  \/ LocksKept
           \/ \E n \in Correct : TryPrecommitOnPolka(n)
           \/ \E n \in Correct, block \in Block :
                RollForward(n, block) /\ round' = [round EXCEPT ![n] = 0]
<1>1. CASE UNCHANGED vars
  BY <1>1 DEF vars, lockVars, onceVars, LocksKept
<1>2. ASSUME NEW n \in Correct, NEW block, ApplySyncedBlock(n, block)
      PROVE  /\ block \in Block
             /\ RollForward(n, block) /\ round' = [round EXCEPT ![n] = 0]
  BY <1>2, OfferedType DEF ApplySyncedBlock
<1>3. ASSUME NEW n \in Correct, TryCommit(n)
      PROVE  \E block \in Block :
                RollForward(n, block) /\ round' = [round EXCEPT ![n] = 0]
  <2>1. PICK pm \in proposals[n] :
          /\ RollForward(n, [value |-> pm.value,
                qc |-> VotersFor(precommits[n], pm.round, pm.value)])
          /\ round' = [round EXCEPT ![n] = 0]
    BY <1>3 DEF TryCommit, StartRound
  <2>2. pm \in Proposal
    BY DEF TypeOK
  <2>3. [value |-> pm.value, qc |-> VotersFor(precommits[n], pm.round, pm.value)] \in Block
    BY <2>2 DEF Proposal, Block, VotersFor
  <2> QED BY <2>1, <2>3
<1>4. ASSUME NEW n \in Correct,
             \/ \E a \in Item : AddAttestation(n, a)
             \/ OnMessage(n)
             \/ OnTimeoutPropose(n) \/ OnTimeoutPrevote(n)
             \/ TryPrevoteOnProposal(n) \/ TryPrevoteOnReproposal(n)
             \/ TryPrecommitNil(n) \/ AdvanceDone(n)
             \/ TrySchedulePrevoteTimeout(n) \/ TrySchedulePrecommitTimeout(n)
      PROVE  LocksKept
  <2>1. UNCHANGED <<lockVars, polkaApplied, round>>
    BY <1>4 DEF AddAttestation, OnMessage, OnProposal, OnVote, OnTimeoutPropose,
                OnTimeoutPrevote, TryPrevoteOnProposal, TryPrevoteOnReproposal,
                TryPrecommitNil, AdvanceDone, TrySchedulePrevoteTimeout,
                TrySchedulePrecommitTimeout, onceVars
  <2> QED BY <2>1 DEF LocksKept
<1>5. ASSUME NEW n \in Correct, OnTimeoutPrecommit(n) \/ Resume(n) \/ TrySkip(n)
      PROVE  LocksKept
  <2>1. UNCHANGED <<lockVars, polkaApplied>>
    BY <1>5 DEF OnTimeoutPrecommit, Resume, TrySkip, onceVars
  <2>2. PICK r \in Round : /\ round' = [round EXCEPT ![n] = r]
                           /\ r = round[n] \/ r > round[n]
    <3>1. round[n] \in Round
      BY DEF TypeOK
    <3>2. CASE OnTimeoutPrecommit(n)
      <4>1. /\ round[n] < MaxRound
            /\ round' = [round EXCEPT ![n] = round[n] + 1]
        BY <3>2 DEF OnTimeoutPrecommit, StartRoundHere, StartRound
      <4>2. round[n] + 1 \in Round /\ round[n] + 1 > round[n]
        BY <3>1, <4>1, BoundsAssumption, SMT DEF Round
      <4> QED BY <4>1, <4>2
    <3>3. CASE Resume(n)
      BY <3>1, <3>3 DEF Resume, StartRoundHere, StartRound, SyncAtStart
    <3>4. CASE TrySkip(n)
      BY <3>1, <3>4 DEF TrySkip, StartRoundHere, StartRound, SkipRounds
    <3> QED BY <1>5, <3>2, <3>3, <3>4
  <2>3. round \in [Correct -> Round]
    BY DEF TypeOK
  <2>4. \A m \in Correct : round'[m] = round[m] \/ round'[m] > round[m]
    BY <2>2, <2>3
  <2> QED BY <2>1, <2>4 DEF LocksKept
<1> QED BY <1>1, <1>2, <1>3, <1>4, <1>5 DEF Next, OnTimeout, Advance

\* Every step keeps the valid value at or above the lock.
LEMMA CoverStep ==
    ASSUME TypeOK, SyncAtStart, LockApplied, ValidCoversLock, [Next]_vars
    PROVE  LockApplied' /\ ValidCoversLock'
<1>1. /\ round \in [Correct -> Round] /\ lockedRound \in [Correct -> Round \cup {-1}]
      /\ validRound \in [Correct -> Round \cup {-1}]
      /\ lockedValue \in [Correct -> Value] /\ validValue \in [Correct -> Value]
      /\ polkaApplied \in [Correct -> SUBSET Round]
      /\ \A r \in Round : r \in Nat
  BY ConstantTypes DEF TypeOK
<1>2. \A n \in Correct : lockedRound[n] <= round[n]
  BY DEF LockApplied
<1>3. CASE LocksKept
  <2>1. /\ lockedRound' = lockedRound /\ lockedValue' = lockedValue
        /\ validRound' = validRound /\ validValue' = validValue
        /\ polkaApplied' = polkaApplied
        /\ \A m \in Correct : round'[m] = round[m] \/ round'[m] > round[m]
    BY <1>3 DEF LocksKept, lockVars
  <2>2. LockApplied'
    <3> SUFFICES ASSUME NEW m \in Correct
                 PROVE  /\ lockedRound[m] <= round'[m]
                        /\ lockedRound[m] = round'[m] => round'[m] \in polkaApplied[m]
      BY <2>1 DEF LockApplied
    <3>1. round[m] \in Int /\ lockedRound[m] \in Int /\ lockedRound[m] <= round[m]
      BY <1>1, <1>2, SMT
    <3>2. CASE round'[m] = round[m]
      BY <3>1, <3>2 DEF LockApplied
    <3>3. CASE round'[m] > round[m]
      <4>1. round' \in [Correct -> Round]
        BY TypeStep DEF TypeOK
      <4>2. round'[m] \in Int
        BY <1>1, <4>1, SMT
      <4> QED BY <3>1, <3>3, <4>2, SMT
    <3> QED BY <2>1, <3>2, <3>3
  <2> QED BY <2>1, <2>2 DEF ValidCoversLock
<1>4. ASSUME NEW n \in Correct, TryPrecommitOnPolka(n)
      PROVE  LockApplied' /\ ValidCoversLock'
  <2>1. /\ round[n] \notin polkaApplied[n] /\ round' = round
        /\ polkaApplied' = [polkaApplied EXCEPT ![n] = @ \cup {round[n]}]
    BY <1>4 DEF TryPrecommitOnPolka
  <2>2. PICK v :
          /\ \/ /\ lockedValue' = [lockedValue EXCEPT ![n] = v]
                /\ lockedRound' = [lockedRound EXCEPT ![n] = round[n]]
             \/ lockedValue' = lockedValue /\ lockedRound' = lockedRound
          /\ validValue' = [validValue EXCEPT ![n] = v]
          /\ validRound' = [validRound EXCEPT ![n] = round[n]]
    BY <1>4, ZenonT(40) DEF TryPrecommitOnPolka
  <2>3. \A m \in Correct : lockedRound'[m] = round[m] => round[m] \in polkaApplied'[m]
    BY <1>1, <2>1, <2>2 DEF LockApplied
  <2>4. lockedRound[n] # round[n]
    BY <2>1 DEF LockApplied
  <2>5. /\ validValue'[n] = v /\ validRound'[n] = round[n]
        /\ \A m \in Correct \ {n} : /\ validValue'[m] = validValue[m]
                                    /\ validRound'[m] = validRound[m]
                                    /\ lockedValue'[m] = lockedValue[m]
                                    /\ lockedRound'[m] = lockedRound[m]
    BY <1>1, <2>2
  <2>6. lockedRound'[n] <= round[n] /\ (lockedRound'[n] = round[n] => lockedValue'[n] = v)
    <3>1. CASE /\ lockedValue' = [lockedValue EXCEPT ![n] = v]
               /\ lockedRound' = [lockedRound EXCEPT ![n] = round[n]]
      <4>1. lockedValue'[n] = v /\ lockedRound'[n] = round[n]
        BY <1>1, <3>1
      <4> QED BY <1>1, <4>1, SMT
    <3>2. CASE lockedValue' = lockedValue /\ lockedRound' = lockedRound
      BY <1>1, <1>2, <2>4, <3>2
    <3> QED BY <2>2, <3>1, <3>2
  <2>7. ValidCoversLock'
    BY <2>5, <2>6 DEF ValidCoversLock
  <2>8. LockApplied'
    BY <1>2, <2>1, <2>3, <2>5, <2>6 DEF LockApplied
  <2> QED BY <2>7, <2>8
<1>5. ASSUME NEW n \in Correct, NEW block \in Block, RollForward(n, block),
             round' = [round EXCEPT ![n] = 0]
      PROVE  LockApplied' /\ ValidCoversLock'
  <2>1. /\ lockedValue' = [lockedValue EXCEPT ![n] = Nil]
        /\ lockedRound' = [lockedRound EXCEPT ![n] = -1]
        /\ validValue' = [validValue EXCEPT ![n] = Nil]
        /\ validRound' = [validRound EXCEPT ![n] = -1]
        /\ polkaApplied' = [polkaApplied EXCEPT ![n] = {}]
    BY <1>5 DEF RollForward, ReleaseLock
  <2> QED BY <1>1, <1>5, <2>1, SMT DEF LockApplied, ValidCoversLock
<1> QED BY <1>3, <1>4, <1>5, LockSteps

\* The value a proposer would propose again is at least as recent as its lock,
\* although a polka may be met after the node has precommitted.
THEOREM ValidCoversLockHolds == Spec => []ValidCoversLock
<1>1. Init => LockApplied /\ ValidCoversLock
  BY ConstantTypes, SMT DEF Init, LockApplied, ValidCoversLock
<1>2. IndInv /\ LockApplied /\ ValidCoversLock /\ [Next]_vars
        => LockApplied' /\ ValidCoversLock'
  BY CoverStep DEF IndInv
<1> QED BY <1>1, <1>2, InvariantHolds, PTL DEF Spec

-----------------------------------------------------------------------------
(* The idle state.                                                         *)

\* No timer was armed for a height its node has not reached.
TimersPast == \A t \in timers : t.height <= height[t.node]

\* A parked node waits at the start of round 0: nothing to notarize, no proposal
\* of that round and no propose timeout, which would make it vote.
ParkedAtStart(n) ==
    parked[n] =>
        /\ round[n] = 0 /\ step[n] = "Propose" /\ mempool[n] = {}
        /\ \A pm \in proposals[n] : pm.round # 0
        /\ ~Due(n, "Propose")

\* Between the blocks of a sync batch the new height is untouched.
SyncUntouched(n) ==
    phase[n] = "sync" =>
        /\ ~parked[n] /\ proposals[n] = {}
        /\ \A t \in timers : t.node = n => t.height # height[n]

IdleInv ==
    /\ TimersPast
    /\ \A n \in Correct : ParkedAtStart(n) /\ SyncUntouched(n)

\* A step of n: the others' state stands, and a new timer is one of n's height.
StepOf(n) ==
    /\ \A m \in Correct \ {n} :
        /\ height'[m] = height[m] /\ round'[m] = round[m] /\ step'[m] = step[m]
        /\ mempool'[m] = mempool[m] /\ proposals'[m] = proposals[m]
        /\ parked'[m] = parked[m] /\ phase'[m] = phase[m]
    /\ height[n] <= height'[n]
    /\ \A t \in timers' : t \notin timers => t.node = n /\ t.height = height'[n]

\* It is enough to look at the node that takes the step.
LEMMA StepOfKeeps ==
    ASSUME TypeOK, TypeOK', IdleInv, NEW n \in Correct, StepOf(n),
           ParkedAtStart(n)', SyncUntouched(n)'
    PROVE  IdleInv'
<1>1. \A t \in timers : t.height \in Nat /\ t.node \in Correct
  BY ConstantTypes DEF TypeOK, Timer
<1>2. height[n] \in Nat /\ height'[n] \in Nat
  BY ConstantTypes DEF TypeOK
<1>3. TimersPast'
  <2>1. SUFFICES ASSUME NEW t \in timers' PROVE t.height <= height'[t.node]
    BY DEF TimersPast
  <2>2. CASE t \in timers /\ t.node # n
    BY <1>1, <2>2 DEF IdleInv, TimersPast, StepOf
  <2>3. CASE t \in timers /\ t.node = n
    BY <1>1, <1>2, <2>3, SMT DEF IdleInv, TimersPast, StepOf
  <2>4. CASE t \notin timers
    BY <1>2, <2>4, SMT DEF StepOf
  <2> QED BY <2>2, <2>3, <2>4
<1>4. ASSUME NEW m \in Correct, m # n
      PROVE  ParkedAtStart(m)' /\ SyncUntouched(m)'
  <2>1. /\ height'[m] = height[m] /\ round'[m] = round[m] /\ step'[m] = step[m]
        /\ mempool'[m] = mempool[m] /\ proposals'[m] = proposals[m]
        /\ parked'[m] = parked[m] /\ phase'[m] = phase[m]
        /\ \A t \in timers' : t.node = m => t \in timers
    BY <1>4 DEF StepOf
  <2>2. Due(m, "Propose")' => Due(m, "Propose")
    BY <2>1 DEF Due
  <2>3. ParkedAtStart(m) /\ SyncUntouched(m)
    BY DEF IdleInv
  <2>4. ParkedAtStart(m)'
    BY <2>1, <2>2, <2>3 DEF ParkedAtStart
  <2>5. SyncUntouched(m)'
    BY <2>1, <2>3 DEF SyncUntouched
  <2> QED BY <2>4, <2>5
<1> QED BY <1>3, <1>4 DEF IdleInv

\* What enter_propose and start_round leave behind.
LEMMA EnterProposeLocal ==
    ASSUME NEW n, NEW h, NEW r, NEW props, NEW pool, NEW parent, NEW vv, NEW vr,
           EnterPropose(n, h, r, props, pool, parent, vv, vr)
    PROVE  /\ \E ps : proposals' = [proposals EXCEPT ![n] = ps]
           /\ timers' = timers \/ Schedule(n, h, r, "Propose")
BY DEF EnterPropose

\* What Engine::start_round writes is its own node's.
LEMMA StartRoundLocal ==
    ASSUME NEW n, NEW h, NEW r, NEW props, NEW pool, NEW parent, NEW vv, NEW vr,
           StartRound(n, h, r, props, pool, parent, vv, vr)
    PROVE  /\ round' = [round EXCEPT ![n] = r]
           /\ step' = [step EXCEPT ![n] = "Propose"]
           /\ \E ps : proposals' = [proposals EXCEPT ![n] = ps]
           /\ timers' = timers \/ Schedule(n, h, r, "Propose")
           /\ \/ parked' = [parked EXCEPT ![n] = FALSE]
              \/ /\ r = 0 /\ pool = {} /\ UNCHANGED timers
                 /\ parked' = [parked EXCEPT ![n] = TRUE]
                 /\ proposals' = [proposals EXCEPT ![n] = props]
BY EnterProposeLocal DEF StartRound

\* The state has an entry for every correct node.
LEMMA Domains ==
    ASSUME TypeOK
    PROVE  /\ DOMAIN height = Correct /\ DOMAIN round = Correct
           /\ DOMAIN step = Correct /\ DOMAIN mempool = Correct
           /\ DOMAIN proposals = Correct /\ DOMAIN parked = Correct
           /\ DOMAIN phase = Correct
BY DEF TypeOK

\* Heights and rounds are natural numbers.
LEMMA Numbers ==
    ASSUME TypeOK
    PROVE  \A n \in Correct : height[n] \in Nat /\ round[n] \in Nat
BY ConstantTypes DEF TypeOK

\* A timer that is set is for the height it is set at (Effect::ScheduleTimeout).
LEMMA Armed ==
    ASSUME NEW n, NEW h, NEW r, NEW kind,
           timers' = timers \/ Schedule(n, h, r, kind)
    PROVE  \A t \in timers' : t \notin timers => t.node = n /\ t.height = h
BY SMT DEF Schedule

\* A node that takes a step within its height.
LEMMA StepWithin ==
    ASSUME TypeOK, NEW n \in Correct, height' = height,
           \A m \in Correct \ {n} :
              /\ round'[m] = round[m] /\ step'[m] = step[m]
              /\ mempool'[m] = mempool[m] /\ proposals'[m] = proposals[m]
              /\ parked'[m] = parked[m] /\ phase'[m] = phase[m],
           \A t \in timers' : t \notin timers => t.node = n /\ t.height = height[n]
    PROVE  StepOf(n)
<1>1. height[n] <= height'[n]
  BY Numbers, SMT
<1> QED BY <1>1 DEF StepOf

\* A node that is left awake, and not within a batch, needs no more than that.
LEMMA AwakeIsFine ==
    ASSUME NEW n, ~parked'[n], phase'[n] # "sync"
    PROVE  ParkedAtStart(n)' /\ SyncUntouched(n)'
BY DEF ParkedAtStart, SyncUntouched

\* The handlers and rules that neither start a round nor store a proposal.
WithinRound(n) ==
    /\ UNCHANGED <<height, round, mempool, proposals, parked>>
    /\ \/ UNCHANGED step
       \/ /\ ~parked[n]
          /\ \E s \in {"Prevote", "Precommit"} : step' = [step EXCEPT ![n] = s]
    /\ \/ UNCHANGED phase /\ phase[n] = "advance"
       \/ \E p \in {"idle", "advance"} : phase' = [phase EXCEPT ![n] = p]
    /\ \/ UNCHANGED timers
       \/ \E kind \in {"Prevote", "Precommit"} :
              Schedule(n, height[n], round[n], kind)

\* The handlers that neither start a round nor store a proposal.
LEMMA WithinRoundSteps ==
    ASSUME TypeOK, IdleInv, NEW n \in Correct,
           \/ \E vm \in sentVotes \cup FaultyVotes : OnVote(n, vm)
           \/ OnTimeoutPropose(n) \/ OnTimeoutPrevote(n)
           \/ TryPrevoteOnProposal(n) \/ TryPrevoteOnReproposal(n)
           \/ TryPrecommitOnPolka(n) \/ TryPrecommitNil(n) \/ AdvanceDone(n)
           \/ TrySchedulePrevoteTimeout(n) \/ TrySchedulePrecommitTimeout(n)
    PROVE  WithinRound(n)
<1>1. ParkedAtStart(n)
  BY DEF IdleInv
<1>2. CASE \E vm \in sentVotes \cup FaultyVotes : OnVote(n, vm)
  BY <1>2 DEF OnVote, SetPhase, WithinRound, chainVars, proposeVars
<1>3. CASE OnTimeoutPropose(n)
  <2>1. ~parked[n]
    BY <1>1, <1>3 DEF OnTimeoutPropose, ParkedAtStart
  <2> QED BY <1>3, <2>1 DEF OnTimeoutPropose, EmitPrevote, SetPhase, WithinRound, chainVars, proposeVars
<1>4. CASE OnTimeoutPrevote(n) \/ TryPrecommitNil(n)
  <2>1. ~parked[n]
    BY <1>1, <1>4 DEF OnTimeoutPrevote, TryPrecommitNil, CanPrecommitNil, ParkedAtStart
  <2>2. \/ UNCHANGED phase /\ phase[n] = "advance"
        \/ phase' = [phase EXCEPT ![n] = "advance"]
    BY <1>4 DEF OnTimeoutPrevote, TryPrecommitNil, SetPhase, Turn1, Turn2, Turn3,
                Turn4, Turn5, Turn6, Turn7
  <2>3. /\ UNCHANGED <<height, round, mempool, proposals, parked, timers>>
        /\ step' = [step EXCEPT ![n] = "Precommit"]
    BY <1>4 DEF OnTimeoutPrevote, TryPrecommitNil, EmitPrecommit, chainVars, proposeVars
  <2> QED BY <2>1, <2>2, <2>3 DEF WithinRound
<1>5. CASE TryPrevoteOnProposal(n) \/ TryPrevoteOnReproposal(n)
  <2>1. CurrentProposals(n) # {}
    BY <1>5 DEF TryPrevoteOnProposal, TryPrevoteOnReproposal
  <2>2. ~parked[n]
    BY <1>1, <2>1 DEF CurrentProposals, ParkedAtStart
  <2>3. phase[n] = "advance"
    BY <1>5 DEF TryPrevoteOnProposal, TryPrevoteOnReproposal, Turn1, Turn2, Turn3, Turn4
  <2>4. /\ UNCHANGED <<height, round, mempool, proposals, parked, timers, phase>>
        /\ step' = [step EXCEPT ![n] = "Prevote"]
    BY <1>5 DEF TryPrevoteOnProposal, TryPrevoteOnReproposal, EmitPrevote,
                chainVars, proposeVars
  <2> QED BY <2>2, <2>3, <2>4 DEF WithinRound
<1>6. CASE TryPrecommitOnPolka(n)
  <2>1. ~parked[n]
    BY <1>1, <1>6 DEF TryPrecommitOnPolka, ParkedAtStart
  <2>2. phase[n] = "advance"
    BY <1>6 DEF TryPrecommitOnPolka, Turn1, Turn2, Turn3, Turn4, Turn5, Turn6
  <2>3. /\ UNCHANGED <<height, round, mempool, proposals, parked, timers, phase>>
        /\ UNCHANGED step \/ step' = [step EXCEPT ![n] = "Precommit"]
    BY <1>6 DEF TryPrecommitOnPolka, EmitPrecommit, chainVars, proposeVars
  <2> QED BY <2>1, <2>2, <2>3 DEF WithinRound
<1>7. CASE AdvanceDone(n)
  BY <1>7 DEF AdvanceDone, SetPhase, WithinRound, chainVars, proposeVars
<1>8. CASE TrySchedulePrevoteTimeout(n) \/ TrySchedulePrecommitTimeout(n)
  <2>1. phase[n] = "advance"
    BY <1>8 DEF TrySchedulePrevoteTimeout, TrySchedulePrecommitTimeout,
                Turn1, Turn2, Turn3, Turn4, Turn5, Turn6, Turn7, Turn8
  <2>2. /\ UNCHANGED <<height, round, mempool, proposals, parked, step, phase>>
        /\ \E kind \in {"Prevote", "Precommit"} : Schedule(n, height[n], round[n], kind)
    BY <1>8 DEF TrySchedulePrevoteTimeout, TrySchedulePrecommitTimeout, chainVars
  <2> QED BY <2>1, <2>2 DEF WithinRound
<1> QED BY <1>2, <1>3, <1>4, <1>5, <1>6, <1>7, <1>8

\* Such a step keeps what is said of an idle node.
LEMMA WithinRoundKeeps ==
    ASSUME TypeOK, IdleInv, NEW n \in Correct, WithinRound(n)
    PROVE  StepOf(n) /\ ParkedAtStart(n)' /\ SyncUntouched(n)'
<1>1. StepOf(n)
  <2>1. \A m \in Correct \ {n} : step'[m] = step[m] /\ phase'[m] = phase[m]
    BY Domains DEF WithinRound
  <2>2. UNCHANGED <<height, round, mempool, proposals, parked>>
    BY DEF WithinRound
  <2>3. \A t \in timers' : t \notin timers => t.node = n /\ t.height = height[n]
    BY SMT DEF WithinRound, Schedule
  <2> QED BY <2>1, <2>2, <2>3, StepWithin
<1>2. phase'[n] # "sync"
  BY Domains DEF WithinRound
<1>3. parked[n] => step'[n] = step[n]
  BY DEF WithinRound
<1>4. Due(n, "Propose")' => Due(n, "Propose")
  BY DEF WithinRound, Due, Schedule
<1>5. ParkedAtStart(n)'
  BY <1>3, <1>4 DEF IdleInv, ParkedAtStart, WithinRound
<1> QED BY <1>1, <1>2, <1>5 DEF SyncUntouched

\* add_attestation and a proposal: they wake the node, or find it awake, or
\* the proposal is for a later round.
LEMMA ArrivalKeeps ==
    ASSUME TypeOK, IdleInv, NEW n \in Correct,
           \/ \E a \in Item : AddAttestation(n, a)
           \/ \E pm \in sentProposals \cup FaultyProposals : OnProposal(n, pm)
    PROVE  StepOf(n) /\ ParkedAtStart(n)' /\ SyncUntouched(n)'
<1>1. ParkedAtStart(n) /\ phase[n] = "idle"
  BY DEF IdleInv, AddAttestation, OnProposal, Ready, Idle
<1>2. /\ UNCHANGED <<height, round, step>>
      /\ \E pool : mempool' = mempool \/ mempool' = [mempool EXCEPT ![n] = pool]
      /\ phase' = phase \/ phase' = [phase EXCEPT ![n] = "advance"]
  BY DEF AddAttestation, OnProposal, SetPhase, chainVars
<1>3. /\ \E ps : proposals' = proposals \/ proposals' = [proposals EXCEPT ![n] = ps]
      /\ timers' = timers \/ Schedule(n, height[n], round[n], "Propose")
      /\ parked' = parked \/ parked' = [parked EXCEPT ![n] = FALSE]
  BY EnterProposeLocal, ZenonT(40) DEF AddAttestation, OnProposal, Unpark, proposeVars
<1>4. StepOf(n)
  <2>1. \A m \in Correct \ {n} :
          /\ mempool'[m] = mempool[m] /\ proposals'[m] = proposals[m]
          /\ parked'[m] = parked[m] /\ phase'[m] = phase[m]
    BY <1>2, <1>3, Domains
  <2>2. \A t \in timers' : t \notin timers => t.node = n /\ t.height = height[n]
    BY <1>3, Armed
  <2> QED BY <1>2, <2>1, <2>2, StepWithin
<1>5. phase'[n] # "sync"
  BY <1>1, <1>2, Domains
<1>6. CASE ~parked'[n]
  BY <1>4, <1>5, <1>6, AwakeIsFine
<1>7. CASE parked'[n]
  <2>1. parked[n]
    BY <1>3, <1>7, Domains
  <2>2. PICK pm \in sentProposals \cup FaultyProposals : OnProposal(n, pm)
    BY <1>7, <2>1, Domains, ZenonT(40) DEF AddAttestation, Unpark
  <2>3. /\ proposals' = [proposals EXCEPT ![n] = proposals[n] \cup {pm}]
        /\ UNCHANGED <<timers, mempool>>
        /\ \A q \in proposals[n] \cup {pm} : q.round # round[n]
    BY <1>7, <2>1, <2>2, Domains DEF OnProposal, Unpark
  <2>4. ParkedAtStart(n)'
    BY <1>1, <1>2, <2>1, <2>3, Domains DEF ParkedAtStart, Due
  <2> QED BY <1>4, <1>5, <2>4 DEF SyncUntouched
<1> QED BY <1>6, <1>7

\* A later round is never started idle.
LEMMA LaterRoundKeeps ==
    ASSUME TypeOK, IdleInv, NEW n \in Correct, OnTimeoutPrecommit(n) \/ TrySkip(n)
    PROVE  StepOf(n) /\ ParkedAtStart(n)' /\ SyncUntouched(n)'
<1>1. PICK r \in Round : r > round[n] /\ StartRoundHere(n, r)
  <2>1. CASE OnTimeoutPrecommit(n)
    <3>1. /\ round[n] \in Round /\ round[n] \in Nat /\ round[n] < MaxRound
          /\ StartRoundHere(n, round[n] + 1)
      BY <2>1, Numbers DEF OnTimeoutPrecommit, TypeOK
    <3>2. round[n] + 1 \in Round /\ round[n] + 1 > round[n]
      BY <3>1, ConstantTypes, SMT
    <3> QED BY <3>1, <3>2
  <2>2. CASE TrySkip(n)
    BY <2>2 DEF TrySkip, SkipRounds
  <2> QED BY <2>1, <2>2
<1>2. /\ UNCHANGED <<height, mempool>>
      /\ \/ UNCHANGED phase /\ phase[n] = "advance"
         \/ phase' = [phase EXCEPT ![n] = "advance"]
  BY DEF OnTimeoutPrecommit, TrySkip, SetPhase, Turn1, Turn2, chainVars
<1>3. /\ round' = [round EXCEPT ![n] = r]
      /\ step' = [step EXCEPT ![n] = "Propose"]
      /\ \E ps : proposals' = [proposals EXCEPT ![n] = ps]
      /\ timers' = timers \/ Schedule(n, height[n], r, "Propose")
      /\ r # 0 => parked' = [parked EXCEPT ![n] = FALSE]
  <2>1. StartRound(n, height[n], r, proposals[n], mempool[n], tip[n],
                   validValue[n], validRound[n])
    BY <1>1 DEF StartRoundHere
  <2>2. /\ round' = [round EXCEPT ![n] = r]
        /\ step' = [step EXCEPT ![n] = "Propose"]
        /\ \E ps : proposals' = [proposals EXCEPT ![n] = ps]
        /\ timers' = timers \/ Schedule(n, height[n], r, "Propose")
        /\ parked' = [parked EXCEPT ![n] = FALSE] \/ r = 0
    BY <2>1, StartRoundLocal, SMTT(60)
  <2> QED BY <2>2
<1>4. parked' = [parked EXCEPT ![n] = FALSE]
  <2>1. r \in Nat /\ r # 0
    BY <1>1, Numbers, ConstantTypes, SMT
  <2> QED BY <1>3, <2>1
<1>5. StepOf(n)
  <2>1. \A m \in Correct \ {n} :
          /\ round'[m] = round[m] /\ step'[m] = step[m]
          /\ proposals'[m] = proposals[m]
          /\ parked'[m] = parked[m] /\ phase'[m] = phase[m]
    BY <1>2, <1>3, <1>4, Domains
  <2>2. \A t \in timers' : t \notin timers => t.node = n /\ t.height = height[n]
    BY <1>3, Armed
  <2> QED BY <1>2, <2>1, <2>2, StepWithin
<1>6. ~parked'[n] /\ phase'[n] # "sync"
  BY <1>2, <1>4, Domains
<1> QED BY <1>5, <1>6, AwakeIsFine

\* A commit leads to round 0 of a height for which no timer has been armed.
LEMMA CommitKeeps ==
    ASSUME TypeOK, IdleInv, NEW n \in Correct, TryCommit(n)
    PROVE  StepOf(n) /\ ParkedAtStart(n)' /\ SyncUntouched(n)'
<1>1. PICK pm \in proposals[n] :
        /\ RollForward(n, [value |-> pm.value,
              qc |-> VotersFor(precommits[n], pm.round, pm.value)])
        /\ StartRound(n, height[n] + 1, 0, {},
              mempool[n] \ LastHeader(pm.value).items, pm.value, Nil, -1)
  BY DEF TryCommit
<1> DEFINE pool == mempool[n] \ LastHeader(pm.value).items
<1>2. /\ height' = [height EXCEPT ![n] = @ + 1]
      /\ mempool' = [mempool EXCEPT ![n] = pool]
  BY <1>1 DEF RollForward, AppendBlock
<1>3. UNCHANGED phase /\ phase[n] = "advance"
  BY DEF TryCommit, Turn1
<1>4. /\ round' = [round EXCEPT ![n] = 0]
      /\ step' = [step EXCEPT ![n] = "Propose"]
      /\ \E ps : proposals' = [proposals EXCEPT ![n] = ps]
      /\ timers' = timers \/ Schedule(n, height[n] + 1, 0, "Propose")
      /\ \/ parked' = [parked EXCEPT ![n] = FALSE]
         \/ /\ pool = {} /\ UNCHANGED timers
            /\ parked' = [parked EXCEPT ![n] = TRUE]
            /\ proposals' = [proposals EXCEPT ![n] = {}]
  BY <1>1, StartRoundLocal
<1> HIDE DEF pool
<1>5. StepOf(n)
  <2>1. \A m \in Correct \ {n} :
          /\ height'[m] = height[m] /\ mempool'[m] = mempool[m]
          /\ round'[m] = round[m] /\ step'[m] = step[m]
          /\ proposals'[m] = proposals[m]
          /\ parked'[m] = parked[m] /\ phase'[m] = phase[m]
    BY <1>2, <1>3, <1>4, Domains
  <2>2. height'[n] = height[n] + 1 /\ height[n] <= height'[n]
    BY <1>2, Domains, Numbers, SMT
  <2>3. \A t \in timers' : t \notin timers => t.node = n /\ t.height = height'[n]
    BY <1>4, <2>2, Armed
  <2> QED BY <2>1, <2>2, <2>3 DEF StepOf
<1>6. CASE parked' = [parked EXCEPT ![n] = FALSE]
  BY <1>3, <1>5, <1>6, Domains, AwakeIsFine
<1>7. CASE /\ pool = {} /\ UNCHANGED timers
           /\ parked' = [parked EXCEPT ![n] = TRUE]
           /\ proposals' = [proposals EXCEPT ![n] = {}]
  <2>1. /\ round'[n] = 0 /\ step'[n] = "Propose" /\ mempool'[n] = {}
        /\ proposals'[n] = {} /\ height'[n] = height[n] + 1 /\ phase'[n] # "sync"
    BY <1>2, <1>3, <1>4, <1>7, Domains
  <2>2. ~Due(n, "Propose")'
    <3>1. \A t \in timers : t.node = n => t.height # height[n] + 1
      BY Numbers, SMT DEF IdleInv, TimersPast
    <3> QED BY <1>7, <2>1, <3>1 DEF Due
  <2> QED BY <1>5, <2>1, <2>2 DEF ParkedAtStart, SyncUntouched
<1> QED BY <1>4, <1>6, <1>7

\* A synced block leaves the next height untouched, and resume may idle there.
LEMMA SyncKeeps ==
    ASSUME TypeOK, IdleInv, NEW n \in Correct, NEW block,
           ApplySyncedBlock(n, block)
    PROVE  StepOf(n) /\ ParkedAtStart(n)' /\ SyncUntouched(n)'
<1>1. /\ height' = [height EXCEPT ![n] = @ + 1]
      /\ \E pool : mempool' = [mempool EXCEPT ![n] = pool]
      /\ proposals' = [proposals EXCEPT ![n] = {}]
      /\ round' = [round EXCEPT ![n] = 0]
      /\ step' = [step EXCEPT ![n] = "Propose"]
      /\ parked' = [parked EXCEPT ![n] = FALSE]
      /\ phase' = [phase EXCEPT ![n] = "sync"]
      /\ UNCHANGED timers
  BY DEF ApplySyncedBlock, RollForward, AppendBlock, SetPhase
<1>2. StepOf(n)
  BY <1>1, Domains, Numbers, SMT DEF StepOf
<1>3. ~parked'[n] /\ proposals'[n] = {} /\ height'[n] = height[n] + 1
  BY <1>1, Domains
<1>4. \A t \in timers' : t.node = n => t.height # height'[n]
  <2>1. \A t \in timers : t.node = n => t.height # height[n] + 1
    BY Numbers, SMT DEF IdleInv, TimersPast
  <2> QED BY <1>1, <1>3, <2>1
<1> QED BY <1>2, <1>3, <1>4 DEF ParkedAtStart, SyncUntouched

\* So does the first turn after a sync.
LEMMA ResumeKeeps ==
    ASSUME TypeOK, IdleInv, NEW n \in Correct, Resume(n)
    PROVE  StepOf(n) /\ ParkedAtStart(n)' /\ SyncUntouched(n)'
<1>1. /\ phase[n] = "sync" /\ UNCHANGED <<height, mempool>>
      /\ phase' = [phase EXCEPT ![n] = "advance"]
  BY DEF Resume, SetPhase, chainVars
<1>2. /\ round' = [round EXCEPT ![n] = 0]
      /\ step' = [step EXCEPT ![n] = "Propose"]
      /\ \E ps : proposals' = [proposals EXCEPT ![n] = ps]
      /\ timers' = timers \/ Schedule(n, height[n], 0, "Propose")
      /\ \/ parked' = [parked EXCEPT ![n] = FALSE]
         \/ /\ mempool[n] = {} /\ UNCHANGED timers
            /\ parked' = [parked EXCEPT ![n] = TRUE]
            /\ proposals' = [proposals EXCEPT ![n] = proposals[n]]
  BY StartRoundLocal, SMT DEF Resume, StartRoundHere
<1>3. StepOf(n)
  <2>1. \A m \in Correct \ {n} :
          /\ round'[m] = round[m] /\ step'[m] = step[m]
          /\ proposals'[m] = proposals[m]
          /\ parked'[m] = parked[m] /\ phase'[m] = phase[m]
    BY <1>1, <1>2, Domains
  <2>2. \A t \in timers' : t \notin timers => t.node = n /\ t.height = height[n]
    BY <1>2, Armed
  <2> QED BY <1>1, <2>1, <2>2, StepWithin
<1>4. CASE parked' = [parked EXCEPT ![n] = FALSE]
  BY <1>1, <1>3, <1>4, Domains, AwakeIsFine
<1>5. CASE /\ mempool[n] = {} /\ UNCHANGED timers
           /\ parked' = [parked EXCEPT ![n] = TRUE]
           /\ proposals' = [proposals EXCEPT ![n] = proposals[n]]
  <2>1. /\ round'[n] = 0 /\ step'[n] = "Propose" /\ mempool'[n] = {}
        /\ phase'[n] # "sync"
    BY <1>1, <1>2, <1>5, Domains
  <2>2. proposals'[n] = {} /\ \A t \in timers' : t.node = n => t.height # height'[n]
    BY <1>1, <1>5, Domains DEF IdleInv, SyncUntouched
  <2>3. ~Due(n, "Propose")'
    BY <2>2 DEF Due
  <2> QED BY <1>3, <2>1, <2>2, <2>3 DEF ParkedAtStart, SyncUntouched
<1> QED BY <1>2, <1>4, <1>5

\* And so does every step of any node.
LEMMA IdleStep ==
    ASSUME TypeOK, TypeOK', IdleInv, [Next]_vars
    PROVE  IdleInv'
<1>1. CASE UNCHANGED vars
  BY <1>1 DEF vars, chainVars, proposeVars, IdleInv, TimersPast, ParkedAtStart,
              SyncUntouched, Due
<1>2. ASSUME NEW n \in Correct,
             \/ \E a \in Item : AddAttestation(n, a)
             \/ OnMessage(n)
             \/ OnTimeout(n)
             \/ \E block \in Offered(height[n]) : ApplySyncedBlock(n, block)
             \/ Resume(n)
             \/ Advance(n)
      PROVE  IdleInv'
  <2>1. StepOf(n) /\ ParkedAtStart(n)' /\ SyncUntouched(n)'
    <3>1. CASE (\E a \in Item : AddAttestation(n, a)) \/ OnMessage(n)
      BY <3>1, ArrivalKeeps, WithinRoundSteps, WithinRoundKeeps DEF OnMessage
    <3>2. CASE OnTimeout(n)
      BY <3>2, WithinRoundSteps, WithinRoundKeeps, LaterRoundKeeps DEF OnTimeout
    <3>3. CASE \E block \in Offered(height[n]) : ApplySyncedBlock(n, block)
      BY <3>3, SyncKeeps
    <3>4. CASE Resume(n)
      BY <3>4, ResumeKeeps
    <3>5. CASE Advance(n)
      BY <3>5, CommitKeeps, LaterRoundKeeps, WithinRoundSteps, WithinRoundKeeps DEF Advance
    <3> QED BY <1>2, <3>1, <3>2, <3>3, <3>4, <3>5
  <2> QED BY <2>1, StepOfKeeps
<1> QED BY <1>1, <1>2 DEF Next

\* A node at the start of round 0 has not voted at this height nor locked.
LEMMA IdleFromInv ==
    ASSUME IndInv, IdleInv
    PROVE  ParkedMeansIdle
<1>1. SUFFICES ASSUME NEW n \in Correct, parked[n]
               PROVE  /\ mempool[n] = {}
                      /\ lockedRound[n] = -1
                      /\ \A v \in sentVotes : v.voter # n \/ v.height # height[n]
  BY DEF ParkedMeansIdle
<1>2. TypeOK /\ LockBacked /\ VotesInOrder
  BY DEF IndInv
<1>3. round[n] = 0 /\ step[n] = "Propose" /\ mempool[n] = {}
  BY <1>1 DEF IdleInv, ParkedAtStart
<1>4. lockedRound[n] = -1
  <2>1. lockedRound[n] = -1 \/ lockedRound[n] \in Nat
    BY <1>2, ConstantTypes DEF TypeOK
  <2>2. lockedRound[n] # -1 =>
            lockedRound[n] <= 0 /\ (lockedRound[n] = 0 => step[n] = "Precommit")
    BY <1>2, <1>3 DEF LockBacked
  <2>3. lockedRound[n] # 0
    BY <1>3, <2>2, SMT
  <2> QED BY <2>1, <2>2, <2>3, SMT
<1>5. ASSUME NEW v \in sentVotes, v.voter = n, v.height = height[n]
      PROVE  FALSE
  <2>1. v.round \in Nat
    BY <1>2, ConstantTypes DEF TypeOK, Vote
  <2>2. VoteBehind(v, n)
    BY <1>2, <1>5 DEF VotesInOrder
  <2> QED BY <1>3, <1>5, <2>1, <2>2, SMT DEF VoteBehind
<1> QED BY <1>3, <1>4, <1>5

\* An idle node has nothing to notarize and has taken no part in its height,
\* however it came to that height: by a commit, by catching up or at the start.
THEOREM ParkedMeansIdleHolds == Spec => []ParkedMeansIdle
<1>1. Init => IdleInv
  BY ConstantTypes, SMT DEF Init, IdleInv, TimersPast, ParkedAtStart, SyncUntouched, Due
<1>2. IndInv /\ IndInv' /\ IdleInv /\ [Next]_vars => IdleInv'
  BY IdleStep DEF IndInv
<1>3. IndInv /\ IdleInv => ParkedMeansIdle
  BY IdleFromInv
<1> QED BY <1>1, <1>2, <1>3, InvariantHolds, PTL DEF Spec
=============================================================================
