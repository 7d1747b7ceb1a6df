CONSTANTS
    v1 = v1
    v2 = v2
    v3 = v3
    Node = {v1, v2, v3}
    Genesis = {v1, v2}
    Signed <- Changes
    Arrivals <- Gossiped
    StrayValues <- Stray
    MaxBlocks = 4
SPECIFICATION Spec
INVARIANTS TypeOK SetFromChain ChainVerifies NeverRefused HonestValueValid LastRecordingCounts
PROPERTY SetSettled
CHECK_DEADLOCK FALSE
