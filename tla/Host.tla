-------------------------------- MODULE Host --------------------------------
(***************************************************************************)
(* What a node does with the blocks its engine finalizes, and the proofs   *)
(* it serves to clients (crates/node/src/node.rs, rpc.rs): the block store *)
(* and the anchoring service around the engine, which appears here as the  *)
(* source of final blocks, by commit or by sync.  The process may crash    *)
(* between any two steps of a handler and start again from its files.      *)
(***************************************************************************)
EXTENDS BlockStore, AnchorService

CONSTANTS
    Contents,         \* Contents[h]: the attestations of the block at h
    SyncMayHappen,    \* TRUE: the node may fall behind and sync
    MaxHeight,        \* bound: the chain
    MaxRestarts       \* bound: how many times the node restarts

VARIABLES
    height,           \* the height the engine works on
    handling,         \* the block handle_effects still has to anchor, or 0
    recorded,         \* the blocks given to the anchoring service since boot
    synced,           \* the heights obtained by sync since boot
    restarts

hostVars == <<storeVars, anchorVars, height, handling, recorded, synced, restarts>>

ASSUME HostAssumption ==
    /\ MaxHeight \in Nat /\ MaxRestarts \in Nat
    /\ DOMAIN Contents = 1..MaxHeight
    /\ \A h \in 1..MaxHeight : Contents[h] \in Seq(Range(Contents[h]))
    /\ SyncMayHappen \in BOOLEAN

Init ==
    /\ StoreInit /\ AnchorInit
    /\ height = 1
    /\ handling = 0
    /\ recorded = <<>>
    /\ synced = {}
    /\ restarts = 0

\* Effect::Committed, first half: the block goes to the store.
StoreCommitted ==
    /\ handling = 0 /\ height <= MaxHeight
    /\ StoreAppend(height)
    /\ height' = height + 1
    /\ handling' = height
    /\ UNCHANGED <<anchorVars, recorded, synced, restarts>>

\* Effect::Committed, second half: the block goes to the anchoring service.
AnchorCommitted ==
    /\ handling # 0
    /\ RecordBlock(handling)
    /\ recorded' = Append(recorded, handling)
    /\ handling' = 0
    /\ UNCHANGED <<storeVars, height, synced, restarts>>

\* Event::Wire(Blocks): a block obtained by sync goes to the store only.
ApplySynced ==
    /\ SyncMayHappen
    /\ handling = 0 /\ height <= MaxHeight
    /\ StoreAppend(height)
    /\ height' = height + 1
    /\ synced' = synced \cup {height}
    /\ UNCHANGED <<anchorVars, handling, recorded, restarts>>

\* The process dies and slc-node starts it again: Node::new and
\* with_anchor.
Restart ==
    /\ restarts < MaxRestarts
    /\ restarts' = restarts + 1
    /\ StoreReopen(IF handling = 0 THEN {height} \cap 1..MaxHeight ELSE {})
    /\ height' = TipHeight' + 1
    /\ AnchorStart
    /\ handling' = 0
    /\ recorded' = <<>>
    /\ synced' = {}
    /\ UNCHANGED published

Next ==
    \/ StoreCommitted
    \/ AnchorCommitted
    \/ ApplySynced
    \/ Restart

Spec == Init /\ [][Next]_hostVars

-----------------------------------------------------------------------------
(* Queries.                                                                *)

\* rpc.rs find_proof: the first block that has the attestation, and its index.
FindProof(a) ==
    LET k == CHOOSE k \in DOMAIN blocks :
                /\ a \in Range(Contents[blocks[k]])
                /\ \A j \in 1..k - 1 : a \notin Range(Contents[blocks[j]])
        items == Contents[blocks[k]]
    IN  [block |-> blocks[k],
         index |-> CHOOSE i \in DOMAIN items :
                    items[i] = a /\ \A j \in 1..i - 1 : items[j] # a]

\* NotarizationProof::from_block and verify, for each attestation of a block.
ProofBinds ==
    [h \in DOMAIN Contents |->
        [i \in DOMAIN Contents[h] |-> PathBinds(Contents[h], i)]]

Notarized == UNION {Range(Contents[blocks[k]]) : k \in DOMAIN blocks}

-----------------------------------------------------------------------------
(* Properties.                                                             *)

\* The types, and that the engine continues from the tip of the store.
TypeOK ==
    /\ blocks \in Seq(1..MaxHeight)
    /\ disk \in Seq(0..MaxHeight) /\ tail \in -1..MaxHeight
    /\ misread \in BOOLEAN /\ errors \in 0..MaxErrors
    /\ height = TipHeight + 1
    /\ handling \in 0..MaxHeight
    /\ pendingIds \in Seq(1..MaxHeight) /\ pendingFrom \in -1..MaxHeight
    /\ synced \subseteq 1..MaxHeight

\* Whatever a crash cuts short and whichever writes fail, a node that gets to
\* read its file whole whenever it starts never stores a block below one that it
\* has: heights only go up in what it serves to its peers.
StoredInOrder ==
    ~misread => \A j, k \in DOMAIN blocks : j < k => blocks[j] < blocks[k]

\* A node that crashed, at whatever point of a handler, has all blocks up to
\* its tip in its store: Node::new derives the validator set from them.
StoreComplete == blocks = [h \in 1..Len(blocks) |-> h]

\* Backends that fail delay a checkpoint and never lose or repeat a block: the
\* windows and what is pending are, one after the other, what was recorded.
EachBlockAnchoredOnce ==
    Flatten([k \in DOMAIN history |-> history[k].blockIds]) \o pendingIds
        = recorded

\* The heights a checkpoint record names are those of its first and last block.
WindowsLabelled ==
    \A k \in DOMAIN history :
        /\ history[k].from = Head(history[k].blockIds)
        /\ history[k].to = Last(history[k].blockIds)

\* Whatever a client asks for, the proof the node serves verifies, against the
\* header of its block and, once that is anchored, against a published root,
\* and it verifies for nothing else in that block or checkpoint.
ProofsVerify ==
    \A a \in Notarized :
        LET p == FindProof(a)
        IN  /\ ProofBinds[p.block][p.index]
            /\ \A k \in DOMAIN history :
                Covers(history[k], p.block) =>
                    InclusionVerifies(history[k], p.block)

\* A checkpoint names a range of heights.  The only ones in that range that it
\* does not cover are those the node obtained by sync in the meantime, which
\* never reach the anchoring service: what was committed here is covered.
GapsAreSynced ==
    \A k \in DOMAIN history :
        (history[k].from..history[k].to) \ Range(history[k].blockIds)
            = synced \cap (history[k].from..history[k].to)
=============================================================================
