CONSTANTS
    v1 = v1
    v2 = v2
    v3 = v3
    v4 = v4
    Node = {v1, v2, v3}
    Faulty = {}
    Rank <- MCRank
    ActiveSet <- OneFollower
    Item = {"a"}
    Arrivals <- EveryArrival
    Links <- EveryLink
    Time = {1}
    MaxTxs = 1
    FaultyVotes = {}
    FaultyProposals = {}
    FaultyBlocks = {}
    MaxHeight = 1
    MaxRound = 0
SPECIFICATION Spec
INVARIANT CommittedCertified
CHECK_DEADLOCK FALSE
