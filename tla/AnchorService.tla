--------------------------- MODULE AnchorService ----------------------------
(***************************************************************************)
(* The anchoring service (crates/anchor/src/service.rs, checkpoint.rs):    *)
(* it gathers the ids of final blocks and publishes a checkpoint of every  *)
(* Interval of them through a backend that may fail.  There is one final   *)
(* block per height, so a block id is its height.                          *)
(***************************************************************************)
EXTENDS Merkle

CONSTANTS
    Interval,         \* blocks per checkpoint
    BackendMayFail    \* TRUE: publishing may fail

VARIABLES
    pendingIds,       \* the ids waiting for a checkpoint
    pendingFrom,      \* the height of the first of them, or None
    pendingTo,        \* the height of the last of them
    history,          \* the windows published since the service started
    published         \* the roots in the hands of the public chain

anchorVars == <<pendingIds, pendingFrom, pendingTo, history, published>>

ASSUME AnchorAssumption ==
    /\ Interval \in Nat \ {0}
    /\ BackendMayFail \in BOOLEAN

None == -1

\* AnchorService::new.
AnchorStart ==
    /\ pendingIds' = <<>>
    /\ pendingFrom' = None
    /\ pendingTo' = 0
    /\ history' = <<>>

AnchorInit ==
    /\ pendingIds = <<>>
    /\ pendingFrom = None
    /\ pendingTo = 0
    /\ history = <<>>
    /\ published = {}

\* The pending window, whether it has been published or not, is dropped.
KeepNothing(ids, from) == pendingIds' = <<>> /\ pendingFrom' = None

\* Forgets the block whose arrival closed the window.
KeepAllButLast(ids, from) == pendingIds' = Front(ids) /\ pendingFrom' = from

\* flush on a failure of the backend: keep the window for the next block.
KeepWindow(ids, from) == pendingIds' = ids /\ pendingFrom' = from

\* Leaves the start of the window behind for the next one.
StartWindowLate(ids, from) == pendingIds' = <<>> /\ pendingFrom' = from

\* flush after a success: a new window starts with the next block.
StartWindow(ids, from) == pendingIds' = <<>> /\ pendingFrom' = None

\* AnchorBackend::anchor when it succeeds (MockAnchor, FileAnchor).
Publish(root) == published' = published \cup {root}

\* AnchorService::flush.  A backend may also fail after it has published.
Flush(ids, from, to) ==
    \/ /\ Publish(RootOf(ids))
       /\ history' = Append(history, [blockIds |-> ids, from |-> from,
                                      to |-> to, root |-> RootOf(ids)])
       /\ StartWindow(ids, from)
    \/ /\ BackendMayFail
       /\ KeepWindow(ids, from)
       /\ published' \in {published, published \cup {RootOf(ids)}}
       /\ UNCHANGED history

\* AnchorService::record_block.
RecordBlock(id) ==
    LET ids == Append(pendingIds, id)
        from == IF pendingFrom = None THEN id ELSE pendingFrom
    IN  /\ pendingTo' = id
        /\ IF Len(ids) >= Interval
           THEN Flush(ids, from, id)
           ELSE /\ pendingIds' = ids
                /\ pendingFrom' = from
                /\ UNCHANGED <<history, published>>

\* AnchorService::inclusion_for finds the block in the window.
Covers(w, id) == id \in Range(w.blockIds)

\* CheckpointInclusion and AnchoredProof::verify: the path of the block leads
\* to the recorded root, and that root was published.
InclusionVerifies(w, id) ==
    /\ \E i \in DOMAIN w.blockIds :
        w.blockIds[i] = id /\ PathBinds(w.blockIds, i)
    /\ w.root = RootOf(w.blockIds)
    /\ w.root \in published
=============================================================================
