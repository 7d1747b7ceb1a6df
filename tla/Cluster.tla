------------------------------ MODULE Cluster -------------------------------
(***************************************************************************)
(* The nodes of crates/node joined into a network: the event loop of       *)
(* node.rs around the engine, the gossip of client submissions, and a      *)
(* network that is timely: base_timeout exceeds the delay of a message, so *)
(* a timer fires only when nothing that can be delivered is left, and the  *)
(* timers fire in the order of their deadlines (timers.rs).  Messages      *)
(* still arrive in any order, and Links still says which are lost.         *)
(*                                                                         *)
(* A node may crash and restart from its block store.                      *)
(***************************************************************************)
EXTENDS Engine

CONSTANTS
    Submissions,     \* <<n, a>>: a client may submit a at node n, once
    GossipMayFail,   \* TRUE: a peer may be down when a submission is gossiped
    MaxRestarts      \* bound: how many times nodes restart

VARIABLES
    submitted,       \* the submissions made so far
    gossip,          \* <<p, n, a>>: attestation a is on its way from p to n
    clock,           \* time, in units of base_timeout
    deadline,        \* when each of the timers fires
    restarts

clusterVars == <<vars, submitted, gossip, clock, deadline, restarts>>

ASSUME ClusterAssumption ==
    /\ Submissions \subseteq Correct \X Item
    /\ Submissions \subseteq Arrivals
    /\ Arrivals = Correct \X Item
    /\ GossipMayFail \in BOOLEAN
    /\ MaxRestarts \in Nat

ClusterInit ==
    /\ Init
    /\ submitted = {}
    /\ gossip = {}
    /\ clock = 0
    /\ deadline = <<>>
    /\ restarts = 0

\* timeout_for and TimerService::schedule: a timer armed in this step fires
\* round + 1 units from now.
ArmTimers(now) ==
    /\ clock' = now
    /\ deadline' = [t \in timers' |->
            IF t \in timers THEN deadline[t] ELSE now + t.round + 1]

\* Event::Submit: gossip to the peers that can be reached, then queue locally.
\* The attestation is sent to each peer once and is never re-gossiped.
Submit(n, a) ==
    /\ <<n, a>> \in Submissions \ submitted
    /\ AddAttestation(n, a)
    /\ submitted' = submitted \cup {<<n, a>>}
    /\ \E reached \in SUBSET (Correct \ {n}) :
        /\ GossipMayFail \/ reached = Correct \ {n}
        /\ gossip' = gossip \cup {<<n, m, a>> : m \in reached}
    /\ ArmTimers(clock)
    /\ UNCHANGED restarts

\* Event::Wire(Attestation): queue it, however late it comes.
ReceiveAttestation(p, n, a) ==
    /\ <<p, n, a>> \in gossip
    /\ IF a \in mempool[n] THEN Ready(n) /\ UNCHANGED vars
                           ELSE AddAttestation(n, a)
    /\ gossip' = gossip \ {<<p, n, a>>}
    /\ ArmTimers(clock)
    /\ UNCHANGED <<submitted, restarts>>

\* One connection carries what p sends to n, in order: a gossiped attestation
\* comes before the consensus messages it gave rise to.
Clear(p, n) == \A a \in Item : <<p, n, a>> \notin gossip

\* Event::Wire(Consensus).
ReceiveConsensus(n) ==
    /\ \/ \E pm \in sentProposals \cup FaultyProposals :
            Clear(pm.proposer, n) /\ OnProposal(n, pm)
       \/ \E vm \in sentVotes \cup FaultyVotes :
            Clear(vm.voter, n) /\ OnVote(n, vm)
    /\ ArmTimers(clock)
    /\ UNCHANGED <<submitted, gossip, restarts>>

\* Nothing is left that could be delivered to a node still running.
Quiet ==
    /\ gossip = {}
    /\ \A n \in Correct : height[n] <= MaxHeight =>
        /\ \A pm \in sentProposals \cup FaultyProposals : ~AcceptsProposal(n, pm)
        /\ \A vm \in sentVotes \cup FaultyVotes : ~AcceptsVote(n, vm)

\* The timers that on_timeout would still act on.
Pending ==
    {t \in timers :
        /\ t.height = height[t.node] /\ t.height <= MaxHeight
        /\ t.round = round[t.node]
        /\ t.kind = "Precommit" \/ t.kind = step[t.node]}

\* Event::Timeout, for the timer with the nearest deadline.
Timeout(n) ==
    /\ Quiet
    /\ \E t \in Pending :
        /\ t.node = n
        /\ \A u \in Pending : deadline[t] <= deadline[u]
        /\ \/ t.kind = "Propose" /\ OnTimeoutPropose(n)
           \/ t.kind = "Prevote" /\ OnTimeoutPrevote(n)
           \/ t.kind = "Precommit" /\ OnTimeoutPrecommit(n)
        /\ ArmTimers(deadline[t])
    /\ UNCHANGED <<submitted, gossip, restarts>>

\* Event::SyncPoll at n, GetBlocks at m and Blocks back at n.
Sync(n) ==
    /\ \/ \E block \in Offered(height[n]) : ApplySyncedBlock(n, block)
       \/ Resume(n)
    /\ ArmTimers(clock)
    /\ UNCHANGED <<submitted, gossip, restarts>>

\* The rest of a handler: the engine's advance loop.
EngineStep(n) ==
    /\ Advance(n)
    /\ ArmTimers(clock)
    /\ UNCHANGED <<submitted, gossip, restarts>>

\* The process dies, perhaps in the middle of a handler, when what the engine
\* has emitted so far has left the node.  Node::new then continues from the
\* stored tip, and everything that was only in memory is gone, the votes and
\* the lock of the current height included.  start() parks.
Reboot(n) ==
    /\ round' = [round EXCEPT ![n] = 0]
    /\ step' = [step EXCEPT ![n] = "Propose"]
    /\ ReleaseLock(n)
    /\ validValue' = [validValue EXCEPT ![n] = Nil]
    /\ validRound' = [validRound EXCEPT ![n] = -1]
    /\ mempool' = [mempool EXCEPT ![n] = {}]
    /\ proposals' = [proposals EXCEPT ![n] = {}]
    /\ prevotes' = [prevotes EXCEPT ![n] = {}]
    /\ precommits' = [precommits EXCEPT ![n] = {}]
    /\ prevoteTimeoutStarted' = [prevoteTimeoutStarted EXCEPT ![n] = {}]
    /\ precommitTimeoutStarted' = [precommitTimeoutStarted EXCEPT ![n] = {}]
    /\ polkaApplied' = [polkaApplied EXCEPT ![n] = {}]
    /\ parked' = [parked EXCEPT ![n] = TRUE]
    /\ timers' = {t \in timers : t.node # n}
    /\ SetPhase(n, "idle")
    /\ UNCHANGED <<sentProposals, sentVotes>>

\* Starts the chain anew instead of reading the tip from the store.
StoredChainIgnored(n) ==
    /\ height' = [height EXCEPT ![n] = 1]
    /\ tip' = [tip EXCEPT ![n] = Nil]
    /\ blocks' = [blocks EXCEPT ![n] = <<>>]

\* BlockStore::open and tip: the chain is what the store holds.
StoredChain(n) == UNCHANGED chainVars

Restart(n) ==
    /\ \A m \in Correct \ {n} : phase[m] = "idle"
    /\ restarts < MaxRestarts
    /\ restarts' = restarts + 1
    /\ Reboot(n)
    /\ StoredChain(n)
    /\ ArmTimers(clock)
    /\ gossip' = {g \in gossip : g[2] # n}
    /\ UNCHANGED submitted

ClusterNext ==
    \E n \in Correct :
        \/ \E a \in Item : Submit(n, a)
        \/ \E p \in Correct, a \in Item : ReceiveAttestation(p, n, a)
        \/ ReceiveConsensus(n)
        \/ Timeout(n)
        \/ Sync(n)
        \/ EngineStep(n)
        \/ Restart(n)

ClusterSpec == ClusterInit /\ [][ClusterNext]_clusterVars

\* The event loop of a running node handles every event it receives, the timer
\* thread fires every timer, the sync thread polls for ever.
Fairness ==
    \A n \in Correct :
        /\ WF_clusterVars(EngineStep(n))
        /\ WF_clusterVars(ReceiveConsensus(n))
        /\ WF_clusterVars(\E p \in Correct, a \in Item : ReceiveAttestation(p, n, a))
        /\ WF_clusterVars(Timeout(n))
        /\ WF_clusterVars(Sync(n))

FairClusterSpec == ClusterSpec /\ Fairness

-----------------------------------------------------------------------------
(* Properties.                                                             *)

Sealed(n, a) == \E h \in DOMAIN tip[n] : a \in tip[n][h].items

\* What a client submits is eventually in the chain of every correct node,
\* though proposers may be down and their rounds time out.
Notarized ==
    \A s \in Submissions :
        s \in submitted ~> \A n \in Correct : Sealed(n, s[2])
=============================================================================
