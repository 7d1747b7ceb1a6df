CONSTANTS
    v1 = v1
    v2 = v2
    v3 = v3
    v4 = v4
    Node = {v1, v2, v3}
    Faulty = {}
    Rank <- MCRank
    ActiveSet <- PairOf
    Item = {"a"}
    Arrivals <- EveryArrival
    Links <- ListenOnly
    Time = {1, 2}
    MaxTxs = 1
    FaultyVotes = {}
    FaultyProposals = {}
    FaultyBlocks = {}
    MaxHeight = 1
    MaxRound = 0
    Submissions <- AtBoth
    GossipMayFail = FALSE
    MaxRestarts = 2
SPECIFICATION ClusterSpec
INVARIANT Agreement
CHECK_DEADLOCK FALSE
