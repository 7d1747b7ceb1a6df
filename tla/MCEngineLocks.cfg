CONSTANTS
    v1 = v1
    v2 = v2
    v3 = v3
    v4 = v4
    Node = {v1, v2, v3, v4}
    Faulty = {v3}
    Rank <- MCRank
    ActiveSet <- AllFour
    Item = {"a", "b"}
    Arrivals <- AtV2
    Links <- SplitLinks
    Time = {0}
    MaxTxs = 1
    FaultyVotes <- TurncoatVotes
    FaultyProposals <- TwoProposals
    FaultyBlocks <- MixedBlock
    MaxHeight = 1
    MaxRound = 1
SPECIFICATION Spec
INVARIANTS Agreement  IndInv
CHECK_DEADLOCK FALSE
