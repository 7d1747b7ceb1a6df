# SmartLedger PQ in TLA+

A verification project for the notarization chain in this repository: a
Tendermint-style consensus engine, the governance of its validator set, and the
node around it that starts under a license, stores and anchors final blocks and
meters what its clients submit. The modules are translated from the Rust
sources; `PROJECT.json` maps every definition to the lines it models.

## 1. The system

| Part | Sources (`src/crates/`) | State | Operations |
|---|---|---|---|
| Engine | `consensus/src/engine.rs`, `messages.rs` | height, round, step, tip, lock, valid value, mempools, stores of proposals and votes, one-shot guards, `parked` | `start`, `on_message`, `on_timeout`, `add_attestation`, `add_governance`, `apply_synced_block`, `resume`; each ends in `advance`, the loop over eight rules |
| Validator sets, certificates | `ledger/src/validators.rs`, `block.rs` | none | threshold, certificate check |
| Governance | `ledger/src/governance.rs`, engine, `node.rs` | registry of changes, set in force, pool of pending changes | authorize, queue, propose, enact, activate by height, rebuild from the store |
| Node loop | `node/src/node.rs`, `timers.rs`, `transport.rs` | event queue, timers, connections | one handler per event; `handle_effects` |
| Block store | `node/src/storage.rs` | list in memory, file of JSON lines | `open`, `append`, `tip` |
| Anchoring | `anchor/src/service.rs`, `checkpoint.rs`, `proof.rs`, `backend.rs` | pending window, history, what is published | `record_block`, `flush`, `inclusion_for` |
| Proofs | `ledger/src/merkle.rs`, `proof.rs` | none | `build`, `proof`, `compute_root` |
| Start of a node | `node/src/bin/slc-node.rs`, `keystore.rs`, `anchoring.rs` | keystore, genesis and configuration file, environment | `bootstrap` in its steps, `run` with its gates |
| License | `license/src/lib.rs`, `node/src/license.rs` | license file | `issue`, `verify`, `check` |
| Meter | `node/src/meter.rs` | count, window, file | `try_record`, `new` |
| RPC, client | `node/src/rpc.rs`, `client.rs` | none of their own | submit, proof queries, `verify_proof` |
| Not modelled | crypto, wire format, config types, HTTP backends, most commands of the two command lines | | section 8 |

How they interact: every input of a node (peer messages, timers, client
submissions, sync answers) goes through one event loop, which calls a handler
of the engine and carries out the effects the handler returns. Broadcasts go to
the peers at best effort, timers to a thread, and a committed block first to
the store and then to the anchoring service. RPC threads count a submission in
the meter and put it on the loop's queue. At startup the files of bootstrap
decide who the node is and on which chain, the license whether it may run and
for what volume, and the store the height and, through the governance in its
blocks, the validator set.

What is hard: votes, proposals and timeouts in every order and over several
rounds; a faulty validator that votes for two blocks, passes on the precommit
of another under a round it was not cast in, or answers a sync with a block of
its own; validator sets that change with the height while nodes are at different
heights; nodes that follow without being validators; catching up in the middle
of a round; idling nodes that must wake; crashes between any two steps; writes
cut short and reads that fail; backends that fail; an environment and a license
file that change between two starts. The list with source lines is `hazards` in
`PROJECT.json`.

What makes each part correct:

- engine: finality is never contradicted; one vote per round; certificates
  verify; blocks form one chain; submissions are notarized;
- governance: the validator set is a function of the chain, for nodes that
  commit, sync and reboot alike; honest proposals are valid to everybody;
- store: what the node wrote it finds again after a crash, in order;
- anchoring: every block once, labels and proofs right;
- start: one key and one chain for ever, whatever is interrupted; a node that
  nothing blocks comes up;
- license: no run except under terms that the issuer signed, for this chain and
  this time;
- meter: the licensed volume is kept across restarts.

## 2. The modules

| Module | Models |
|---|---|
| `ValidatorSet` | threshold `Bft`, `MaxFaulty`, certificate check `Certifies`, proposer choice |
| `Ledger` | abstract: each replica's log grows by one block at a time, the block the others have in that place |
| `Engine` | the engine on every correct node and an unreliable network |
| `Cluster` | extends Engine by clients, gossip, timers with deadlines, restarts |
| `Governance` | the life of a validator change, with consensus reduced to its chain |
| `Merkle` | trees and paths as operators |
| `BlockStore`, `AnchorService` | the store and the anchoring service, one module each |
| `Host` | composes these two under the node's handlers and crashes |
| `Files` | what a write that fails or is cut short leaves of a file, and what a read that fails finds |
| `License`, `Bootstrap`, `Meter` | the license, the start of a node and the meter, one module each |
| `NodeProcess` | composes these three with the RPC's submissions, stops and time |
| `Lists` | the vectors' `retain` and `filter` (`Retain`), `flat_map` (`Flatten`), `last` and `pop` |
| `Foundations` | theorems on quorums; induction over the naturals |
| `Lemmas` | what `Retain`, `Flatten` and the Merkle operators compute, for sequences of any length |
| `EngineInvariants` | the inductive invariant `IndInv` and its parts |
| `EngineSafety` | types of Engine, and that every step preserves each part of `IndInv` |
| `EngineHeight` | what a node of Engine keeps within a height |
| `EngineProperties` | agreement, that Engine implements Ledger, and the theorems on Cluster, restarts included |
| `GovernanceProofs`, `HostProofs`, `NodeProofs` | theorems on Governance, Host and NodeProcess |
| `MCEngine`, `MCCluster`, `MCGovernance`, `MCHost`, `MCNodeProcess` | instances for TLC |

### Engine

Variables keep the names of the struct's fields. `None` is `Nil` (a value) or
`-1` (a round). A block id is the hash of a header that contains the previous
id, so it is modelled by the sequence of headers it commits to; `<<>>` is
genesis. A header is the set of items it notarizes, a timestamp and `wf`, which
stands for the roots, the count and the signatures inside the block. Items are
sets where the code has a `Vec`, so the order of a mempool and duplicates in it
are abstracted.

Each handler is an action (`AddAttestation`, `OnProposal`, `OnVote`,
`OnTimeout...`, `ApplySyncedBlock`, `Resume`), each rule of `advance` another
(`TryCommit`, `TrySkip`, ...). A handler ends with `advance`, which fires the
first enabled rule until none is: the handler leaves its node in phase
`"advance"`, in which only rules of this node can be taken, in the code's order
(`Turn1` to `Turn9`), until `AdvanceDone`. So a handler is an unbroken run of
steps of one node, as the event loop makes it. A batch of synced blocks is
likewise a run of `ApplySyncedBlock` steps (phase `"sync"`) closed by `Resume`.

The network is the set of everything broadcast, `sentProposals` and
`sentVotes`, from which any message may be delivered at any time, again and
again; that is also what periodic re-gossip amounts to. `Links` says per round
which messages can arrive at all. Timers fire at any time after they are armed.

What faulty nodes may send is given by constants: `FaultyVotes` holds votes under
any name, `FaultyProposals` proposals, `FaultyBlocks` blocks that a sync may be
answered with. `VerifySig` is what `verify_vote` asks of a vote. The signature of
a prevote, and of a precommit for nil, covers height and round, so such a vote
passes only if its voter cast it or is faulty. The signature of a precommit for
a block covers the block id alone (it is the share of the certificate), so the
vote passes in every round once its voter has signed the block in any
(`SignedId`). The same goes for the shares of a certificate that comes with a
synced block. A proposal is signed as a whole.

### Cluster

Adds what liveness needs: clients that submit (`Submit`), the one-time gossip
of a submission (`GossipMayFail`), and time. The network is timely: a timer
fires only when nothing deliverable is left, and in the order of deadlines,
which are `round + 1` units after the timer was armed (`timeout_for`). `Restart`
ends a process at any point, a handler included, and keeps only the chain.

### Governance

The chain is one sequence, extended by `Finalize` with a value that a quorum
finds valid; nodes get to a block by `Finalize`, by `Commit`, or by
`ApplySyncedBlock`, each at its own time, and `Reboot` rebuilds the registry
from the blocks. A proposer's value comes from its pool, or is empty (the block
notarizes only), or is one of `StrayValues`, a value that a proposer makes up.
`ActiveSet` is `active_keys`: the code filters and sorts, stably, by activation
height; the model goes through the heights and, within one, through the changes
in the order of recording, which is the same order. A change may be recorded
again by a later block, and changes in another order than they activate in;
`LastRecordingCounts` says which of its records decides. A node enacts only what
a quorum has certified, as a validator does; a follower that commits one
signature short is the subject of `engine_follower`. `VerifyProof` is what the
client library asks of a certificate.

### Host

The engine appears as a source of final blocks: `StoreCommitted` and
`AnchorCommitted` are the two halves of handling `Effect::Committed`, with a
crash possible in between; `ApplySynced` is a block obtained by sync. A block
is its height. The file is a sequence of lines and a tail: an error or a crash may
leave a write out, in part or without its newline, and what is appended later is
joined to the tail, as `append` does. A start that cannot open the file, or not
read it to its end, goes on with the lines before the error, and `misread`
remembers it. Hashes are terms, so hashing is injective.
`recorded` and `synced` remember what the service was given and what it was not
since boot, for the properties.

### NodeProcess

`pc` is how far the process is: `"down"`, then `"keystore"`, `"genesis"`,
`"config"` and `"run"`, the steps of `bootstrap` and `run` between which it can
stop, and `"up"`. A file is `Absent`, `Torn` (present, does not parse) or its
content; a write that is interrupted leaves the old content, `Torn` or the new
one, and a read that fails finds nothing that parses. Every early return leads
back to `"down"`, and so does `Stop`, which also picks the next environment: the
genesis as JSON, from a URL or none, a license or none, the issuer's key or none,
the anchor settings, the API key. `BackendBuilt` is the anchor gate. A new
key gets a number of its own. A license is a body, an issuer and a signature,
the pair of who signed and what; `ChangeLicense` edits the body of the file and
leaves the signature.

Four variables record history for the properties: `issued`, the bodies
SmartLedger signed; `runs`, under what the node came up; `accepted`, when
submissions were counted; `resets`, how many starts came after a write of the
meter's file had failed or been cut short (`dirty`), or lost the count because
the file could not be read. The license file changes only while the
process is down, the clock while it is down or up: of the steps in between only
`run` reads them.

## 3. The runs

| Run | Checks | States |
|---|---|---|
| `engine_crash` | `TypeOK`, `VoteOnce`, `ValidCoversLock`, `ParkedMeansIdle`, `IndInv` | 166,759 |
| `engine_locks` | `Agreement`, `ConflictSignedTwice`, `IndInv` | 466,352 |
| `cluster_live` | `Notarized` under fairness | 2,656 |
| `cluster_chain` | `MembersCommitCertified`, `ChainLinked`, `ImplementsLedger` | 300,414 |
| `governance` | `TypeOK`, `SetFromChain`, `ChainVerifies`, `NeverRefused`, `HonestValueValid`, `LastRecordingCounts`, `SetSettled` | 34,718 |
| `host` | `TypeOK`, `StoredInOrder`, `EachBlockAnchoredOnce`, `WindowsLabelled`, `ProofsVerify`, `GapsAreSynced` | 718,950 |
| `node` | `TypeOK`, `SameIdentity`, `OwnChainIsItsOwn`, `VolumeBound`, `RunsLicensed`, `ComesUp` under fairness | 504,148 |
| `engine_follower`, `cluster_amnesia`, `cluster_gossip`, `host_torn`, `governance_client` | a violation each, section 5 | |

Bounds and why they are enough for the question of the run:

- `engine_crash`: four validators with a quorum of three, of which `v4` crashes
  after one prevote; one height, rounds 0 and 1. In round 0 all links between
  the others work and messages come in any order; of round 1 only `v2` hears
  votes, which keeps the state space small. Two rounds allow a lock in one and
  a vote in the other, a block proposed again, rounds of nil votes, round skips
  and all three timeouts.
- `engine_locks`: the same four, of which `v3` is faulty: it backs the block of
  `v2` in round 0, and in round 1 proposes and backs that one or another. The
  links are chosen so that `v1` alone can commit in round 0 and `v4` hears
  nothing of it: the case that locks exist for. Dropping the lock check breaks
  `Agreement` here. The precommit of `v1` is also passed on as one of round 1, and
  a sync may be answered with a block whose certificate has shares of both
  rounds; taking such a certificate without its signatures breaks
  `ConflictSignedTwice`.
- `cluster_live`: one submission, the first proposer down, rounds 0 to 2, of
  which the second succeeds or the third.
- `cluster_chain`: two heights, of which the set is `{v1, v2}` and `{v2, v3}`:
  every node is a follower at one height or a validator at both; both items are
  submitted at `v2`, nodes that are never validators together do not hear each
  other's votes, so that they fall behind and sync; one restart at any point.
- `governance`: four changes. `v3` joins and is barred at the same height, so
  that the order of recording decides; `v1` leaves, by a change that lapses once
  `v3` has joined, and comes back. Four blocks, so that changes can be recorded in
  any order, twice, with the opposite one in between, and activate within the
  run.
- `host`: four blocks of one to five attestations (odd levels at every depth),
  windows of two, two restarts, two errors of the file (`MaxErrors`), of writing
  or of reading, at any point.
- `node`: a window of two seconds and three instants; a start and one stop, at
  any step, which is what it takes to be interrupted and to go on from what was
  left; the license file is written twice, with a cap of one for the node's own
  chain by SmartLedger, by another issuer, or edited; three submissions. Of the
  four environments one stands alone, one gets its genesis from a URL and has no
  license, one lacks the API key of its backend, and one the issuer's key.

Deadlock checking is off in all of them, because every instance ends at a bound
and an idle chain really is silent.

## 4. Fairness

`cluster_live` and `cluster_gossip` assume weak fairness of a node's loop, of
message delivery, of timers and of sync. The loop handles every event it
receives (`while let Ok(event) = self.ev_rx.recv()`), the timer thread fires
every timer, and the gossip and sync threads send their events for ever, so
what was sent in the current round is sent again until it arrives. Nothing is
assumed of clients, and restarts are excluded in these two runs. That messages
arrive before a timer fires is the usual assumption on `base_timeout`.

`node` assumes that the supervisor starts a process that is down
(`deploy/docker-compose.yml`: `restart: unless-stopped`) and that a process takes
its steps (weak fairness of `Bootstrapping`); and that what is tried again on
every start, a fetch, a write, a read or a bind, succeeds at some time (strong
fairness of each step forward). Nothing is assumed of the operator, the license or the
clock: `ComesUp` lets a node stay down for ever only while it is `Blocked`, by a
keystore or genesis file that was cut short and that bootstrap never replaces, by
its license or the lack of the issuer's key, or by its anchor settings.

## 5. Where the code and its documents disagree

Each is a run that TLC refutes, with the quotation in `PROJECT.json`:

- `engine_follower`: a node outside the validator set stores and counts its own
  precommit, so it can commit one signature short and build a certificate that
  does not verify. Validators are not affected (`CertifiedHolds`), nor is a network
  without followers (`AllCertified`).
- `cluster_amnesia`: votes and the lock are not persisted. When both validators
  of a set of two restart after their precommits have left and before they
  commit, they can finalize another block at the height at which a follower has
  already finalized one.
- `cluster_gossip`: submissions are gossiped once and never again. If the
  proposer is down and stays down, and some peers missed the submission, too few
  nodes are awake to end the round, although those peers hear everything sent
  later.
- `host_torn`: a line cut short by a crash takes the next block with it.
- `governance_client`: the client checks every proof against the genesis set and
  refuses what a later set has finalized, where `SPEC.md` asks for the set in
  force at the height. With that set every block verifies (`ChainVerifies`), and
  up to the first change in force the client is right (`ProofsVerifyUnchanged`).

More without such a run. Where a property goes up to a disagreement and stops
there, it is named.

- `SPEC.md:159-160`: "Safety rests on: *an honest validator signs at most one
  block per height*, plus quorum intersection." The lock rules do not keep to the
  first half: `try_precommit_on_polka` has a validator that precommitted one block
  precommit another in a later round, once a quorum has prevoted it. Safety rests
  on the rounds of the precommits instead: if the precommits of each certificate
  are of one round, finalized blocks agree (`Agreement`).
- `SPEC.md:149-150` and `151-152`: "A non-nil precommit signs the bare block id",
  and "A block with a precommit quorum is final". The round is not signed, so
  nothing in a certificate, nor in a vote that a node is handed, shows that the
  precommits are of one round. For certificates that mix rounds `Agreement`
  claims nothing; what holds is the argument of `SPEC.md`, the other way round:
  two different finalized blocks have been signed by one correct validator
  (`ConflictSignedTwice`). Where nobody alters the round of a vote and only
  correct nodes answer a sync, mixed certificates do not arise (`OneRoundHolds`).
- `governance.rs:161`: "Record a finalized, authorized change. Idempotent per
  distinct change." Recording a change again makes no difference only as long as
  no change in between undoes it; otherwise it takes effect once more. Which
  record counts is `LastRecordingCounts`.
- `meter.rs:2-3`: the count is "persisted so a restart doesn't reset usage". After
  a write of its file that failed or was cut short, and after a read that failed,
  a restart does: `VolumeBound` allows one more volume for each such start
  (`resets`), and none for any other.
- `node.rs:104-108` takes up at the tip of the store. When the file could not be
  opened or read to its end, that tip is lower than what the file holds, and the
  blocks appended from then on have heights the file already has. Up to then
  heights only go up (`StoredInOrder`).
- `checkpoint.rs` speaks of a "contiguous" range. Synced blocks do not reach the
  anchoring service, so a checkpoint is not always one; `GapsAreSynced` shows that
  nothing else is ever missing from it.
- The repository's `README.md` calls an idle chain silent. A governance change
  that was enacted through sync, or has lapsed, stays in the engine's pool, so
  such a node does not idle again; it is a hazard in `PROJECT.json`, because the
  pool and the rounds are in different modules.

## 6. The proofs

The assumptions on constants are named in the modules that declare them.

- Engine and Cluster: bounds are naturals, `Node` is finite, every height has a
  non-empty validator set, a proposal that passes and was not sent by its proposer
  is signed with a faulty key, and at each height at most `MaxFaulty` validators
  are faulty. Links, arrivals, the order of keys, and the votes and blocks that
  the faulty send are arbitrary, under whatever name.
- Governance: the genesis set is finite and not empty, a change adds finitely
  many keys and has finitely many approvers, activation heights are naturals.
  Changes, arrivals and made-up values are arbitrary. A change may empty the
  validator set; the theorems hold then too, though the code's
  `ValidatorSet::new` would stop.
- Host: blocks have finitely many attestations, the interval is positive. Faults,
  contents and restarts are arbitrary.
- NodeProcess: an absent or torn file is not a content, a window is not empty, a
  cap is a natural or `Unlimited`. Environments, licenses and clock are arbitrary.

| Theorem | States |
|---|---|
| `QuorumIntersection`, `QuorumHasCorrect` | two quorums of a set of n, with the code's threshold n - floor((n - 1) / 3), share a validator that is not faulty; every quorum has one |
| `TypeCorrect`, `InvariantHolds` | `TypeOK` and `IndInv` of Engine |
| `AgreementHolds` | finality, of certificates whose precommits are of one round |
| `ConflictHolds`, `ClusterConflict` | whatever the rounds, two different finalized blocks have been signed by one correct validator; with any restarts |
| `OneRoundHolds`, `ClusterOneRound` | certificates are of one round where no vote is passed on altered and only correct nodes answer a sync (`Unaltered`); with any restarts |
| `VoteOnceHolds`, `CertifiedHolds` | one vote per type and round, certificates of validators verify |
| `ValidCoversLockHolds`, `ParkedMeansIdleHolds` | the valid value is never behind the lock; who idles has nothing to do and has not voted |
| `RefinementHolds`, `ChainHolds` | Engine implements Ledger as long as certificates are of one round (`OneRound`); a node's blocks form one chain |
| `ClusterImplementsEngine` | without restarts, Cluster implements Engine |
| `ClusterCertified`, `ClusterChained`, `ClusterCovers` | certificates, chains, and valid value and lock are right through any restarts |
| `AllCertified`, `AllAgree` | in a network without followers every block is certified, and, as long as certificates are of one round, chains are equal as far as they go |
| `ClusterAgrees`, `ClusterVotesOnce`, `ClusterImplementsLedger` | as `AgreementHolds`, `VoteOnceHolds` and `RefinementHolds`, when nodes restart only before they vote at their height |
| `IdleRestartsHarmless` | `Agreement` and `ParkedMeansIdle`, when nodes restart only while they are parked |
| `GovernanceTypes`, `SetsFromChain`, `ChainAlwaysVerifies`, `SyncNeverRefused`, `HonestValuesValid`, `SetsSettled`, `LastRecordingsCount` | all properties of the `governance` run |
| `ProofsVerifyUnchanged` | a client with the genesis set verifies the proofs of all blocks below the first change in force |
| `PathsBind`, `OnlyDataVerifies` | a Merkle path leads to the root from its own datum only; along no path whatever does anything else than a datum of the tree |
| `RootsCommit` | sequences with the same Merkle root are the same |
| `HostTypes`, `StoreInOrder`, `AnchoredOnce`, `LabelsRight`, `GapsSynced`, `ServedProofsVerify` | all properties of the `host` run |
| `StoreCompleteWithoutFaults` | the store has every block up to its tip, when no write fails or is cut short and every start reads the file |
| `NodeTypes`, `SameIdentityHolds`, `OwnChainHolds`, `RunsLicensedHolds`, `VolumeHolds` | all properties of the `node` run but `ComesUp` |

**Agreement.** It is not inductive: it speaks of blocks, and what keeps blocks
equal is in the votes. `IndInv` says in addition that a stored vote of a correct
node was cast (`StoresAuthentic`); that nobody has voted ahead of its own round
and step (`VotesInOrder`, from which `VoteOnce` is preserved); that locks and
precommits for a block rest on a quorum of prevotes in that round
(`LockBacked`, `PrecommitsLocked`); that whoever precommitted a block prevotes
another one later only when a quorum prevoted that one in between
(`LockRespected`); that a precommit for a block is of the height its id says
(`SharesOfHeight`); and that the signers of a certificate have signed its block,
each in some round (`BlocksBacked`). "A quorum" is meant as far as its correct
members go, so nothing is said of faulty votes. `StoresAuthentic` asks `VerifySig`
of a stored vote and no more, so a stored precommit may be of another round than
it says; prevotes are what they say, and all that locks rest on.

`EngineSafety` sorts the steps of `Next` into six kinds by what they do to
votes, locks and blocks, and shows for each part of `IndInv` that each kind
preserves it (`InvariantHolds`). `EngineProperties` derives `Agreement` from it:
suppose two blocks of one height are certified, the first by precommits of round
r and the second by those of one round as well. Take the
least round from r on in which a quorum prevotes something else
(`LeastNatural`). The two quorums share a correct validator (`CommonVoter`),
which precommitted the first block and later prevoted the other, hence by
`LockRespected` an earlier such round exists (`NoOtherPolka`), a contradiction.
`IndInv` is also an invariant of two runs.

Without a common round the argument has no r to start from. What remains is the
intersection: a correct validator is among the signers of both certificates, and
what its shares verify against it has precommitted, at that height
(`SignerPrecommitted`, by `SharesOfHeight`). That is `ConflictSignedTwice`; it
needs only `CertInv`, the part of `IndInv` that survives restarts. `OneRoundHolds`
says when there is a common round: if nobody alters a vote, what a node has
stored as precommits of a round are precommits of that round (`SharesHeard`),
`try_commit` takes its certificate from them, and sync hands such certificates on.

**Within a height** (`EngineHeight`). That the valid value covers the lock needs
`LockApplied`: nobody is locked in a round ahead of its own, and who locked in the
current round has used up that round's one-shot guard, so no second polka of the
round can move the lock past the valid value.
That an idling node has not voted needs to know why it cannot: no timer was armed
for a height its node has not reached (`TimersPast`), a parked node is at
the start of round 0 with no propose timeout due (`ParkedAtStart`), and between
the blocks of a sync batch the new height is untouched (`SyncUntouched`). The
proof has a lemma for each kind of step: those within a round, an arrival that
wakes the node, a later round, commit, sync, resume.

**Refinement** (`EngineProperties`). A replica's log is the certified prefix of a
node's blocks. A commit or a synced block lengthens that prefix by one block or,
when a follower's certificate does not verify, not at all (`CertainAppend`), and
the new block agrees with the others' by `Agreement`, provided that certificates
are of one round (`CertifiedSame`). That proves `ImplementsLedger`, the abstract
specification with the mapping of `Engine`, of every behaviour in which `OneRound`
holds throughout; by `OneRoundHolds` all behaviours are such in an `Unaltered`
instance like the one of `cluster_chain`.

**Restarts** (`EngineProperties`). Every step of Cluster that is not a restart is a
step of Engine or leaves its variables alone (`ClusterStep`), so a property of
Cluster needs one more case, the restart. It drops votes, lock and stores and
keeps the chain. The part of `IndInv` that is about stored messages and blocks
(`CertInv`) survives that at any time: certificates and chains are right whatever
restarts. So does the relation of valid value and lock, since a restart drops both
and the steps of the engine need no more than the types to preserve it
(`CoverStep`). The part about a node's own votes (`VotesInOrder`,
`PrecommitsLocked`) survives when the node has not voted at its height
(`RestartInv`), which gives `Agreement` for restarts before voting. The run
`cluster_amnesia` shows finality lost by restarts after voting; as `ClusterConflict`
has it, the validators there have signed both blocks. Since a parked node has
not voted, restarting idle nodes is within the theorem (`IdleRestartsHarmless`).
Both hypotheses, `RestartsBeforeVoting` and `RestartsWhileParked`, speak of the
restarts of a behaviour only; the code does not enforce them.

**Governance.** `SetFromChain` alone is not inductive: a node's set may be right
and its registry wrong, and the set of the next height comes from the registry.
The invariant adds that a registry is the record of the blocks below the node's
height (`RegistryFromChain`), that those blocks already give the set that the
whole chain gives for it (`PrefixDecides`), and that every block was valid and
certified under that set (`ChainVerifies`). What makes it work is `LaterChanges`:
changes that activate above h leave `ActiveSet` up to h alone, which is why `is_valid` asks
for a later activation. `LastRecordingsCount` compares two walks through the
record, with the earlier recording of a change and without it: from there on the
two sets differ at most in keys that the change itself decides, no other change
makes that worse, and the later recording makes them equal (`NearStep`,
`EarlierRecordIdle`). `ProofsVerifyUnchanged` is the
counterpart of the run `governance_client`: below the first change in force the
set of a height is the genesis set, and `ChainVerifies` gives the certificate.

**Merkle trees** (`Lemmas`). `Build` gives levels of which each is `Parents` of
the one before, down to one node (`BuildIsTree`). Going up one level, the running
digest stays the node at the running index: a hop combines it with its sibling
and a promoted node has none; so the path ends in the root. That no other datum does
follows because digests are terms: two leaves under one path have one root only
if they are equal. `OnlyDataVerifies` is about a path of any length,
level by level: what leads to an inner node leads to one of its children
(`ThroughChild`), and only its own datum leads to a leaf (`FromLeaf`), since
leaves and inner nodes are hashed apart. For `RootsCommit` the length comes first:
a digest is as many steps to the left above a leaf as its level says, unless it
is the last of its level, which may have been promoted (`LevelDepths`). The root of
a tree is never promoted, so equal roots belong to trees of equally many levels
(`DepthUnique`, `RootDepth`); then equal levels have equal levels below them
(`ParentsInjective`), down to the leaves. It is what makes it right to model a
block id by what its header commits to.

**Store and anchoring** (`HostProofs`). The order of the blocks in memory is
regained from the file after a crash, so the invariant orders the file too, its
unfinished line included, below the engine's height (`FileInOrder`), as long as no
start has misread it; a write that was cut short leaves such a file such
(`CutKeeps`). What a
checkpoint says is decided while its window is pending: `PendingOK` relates the
window, the block on its way to it and what was synced since; `WindowsOK` keeps
the published roots. TLC checked the invariant on the `host` instance before it
was proved. `ServedProofsVerify` then rests on `PathsBind`.
`StoreCompleteWithoutFaults` is the counterpart of the run `host_torn`.

**Identity** (`NodeProofs`). `IdentityInv`: from the moment bootstrap has a key
until it has a genesis the key is the keystore's; a configuration that parses
holds the genesis of the genesis file; a genesis the node made itself names the
keystore's key; every run was with these two. Since neither file is written
again once it exists, all runs agree. `LicenseInv` says that a body covered by
SmartLedger's signature in the license file is one SmartLedger signed, whatever
was edited; the gate's checks give the rest.

**Volume** (`NodeProofs`). For every volume G that no granted cap exceeds, the
meter's count *accounts* for what was accepted (`Account`): nothing was accepted
after its window, and in every stretch that overlaps the window what was
accepted is at most the count, one G for the window before, and one G for every
lost count. The file accounts for it too, unless a write has failed since or the
file's window is over and nothing was counted in the next; after a failed write
the file and what was counted since account for it together (`Kept`, `Covers`,
`MeterShape`). A start that cannot read the file begins a new count and is one
more of the lost ones. Lemmas say how a window that rolls over, a count that is
lost and a submission that is accepted change the account; the cardinality of a stretch is counted
over the sequence of acceptance times.

**Recursive functions.** What the loops of the code compute is written as
recursive functions. A proof first shows, by induction on the length
(`Induction`, over a set of naturals, from `LeastNatural`), that a function
satisfying the equation exists (`RetainIs`, `AllAppliedIs`, `ActiveSetIs`), and
then reasons about its values one place at a time.

**Provers.** Most leaves are first-order and go to Zenon, the default of the
modules (`USE Zenon`); a leaf that needs arithmetic, sequences or many updates of
functions names `SMT`.

Only model-checked: `Notarized` and `ComesUp`, because liveness is out of TLAPS's
reach, and that the five properties of section 5 fail.

## 7. Abstractions to keep in mind

- A proposal or vote reaches a node according to the round in which it was
  cast (`Links`), with no re-routing through others; the network never
  forgets, while the code re-gossips only the current round.
- Handlers do not run above `MaxHeight`, rounds above `MaxRound` are not
  started. What faulty nodes send in an instance is a fixed set.
- `Engine` takes the set in force as a function of the height; that every node
  computes the same function is `SetFromChain` of Governance.
- A certificate is the set of the keys whose signature in it is valid; others
  do not count in the code either.
- In Governance every block has a certificate of the set in force. A commit of
  the code asks for none, which matters for followers only (`engine_follower`).
- `RunsLicensed` is about nodes that have a license configured; one without runs
  unlicensed, as the code has it. The data volume of a node is the same at every
  start: `SameIdentity` says nothing of one that is deployed on another.
- The clock does not run backwards, and a license is read at one instant.
- The changes in the governance instance never empty the validator set.
- The files of a node are changed by the node and, for the license, by the
  operator. Whether the anchor's key file loads is a flag of the environment.

## 8. Not modelled

- Signatures and hashes: their guarantees are assumptions, hashes are terms and
  a signature is its signer and what was signed.
- The wire format, framing and configuration types: serialization without state.
- The HTTP and OP_RETURN backends, beyond how one is chosen at startup and
  that publishing succeeds or fails, perhaps after having published.
- The commands `keygen`, `init-devnet` and `render-config` of `slc-node`, which
  an operator runs before there is a node (`write_config`, which `bootstrap`
  shares with `render-config`, is modelled), and those of `slc` other than
  `license issue`: they parse arguments, send one request and print the answer.
- `AddPeer` (the links of an instance are fixed), `SubmitGovernance`, which only
  forwards to the loop, and the RPC requests that only read.

## 9. Plan

Done, in this order: ValidatorSet, Engine and Ledger, the proofs on Engine,
Cluster, Governance, Host, NodeProcess with its proofs, the proofs within a
height and of the refinement, then the proofs on Governance, Merkle trees, Host
and Cluster. Every safety property that a run confirms is now proved for all
values of the constants, agreement and the refinement under the conditions of
section 6. Next:

1. consensus over heights whose validator sets the blocks themselves decide, so
   that Engine's sets and Governance's chain are one model;
2. the governance pool in the engine's idling, and submissions across a crash
   together with gossip.
