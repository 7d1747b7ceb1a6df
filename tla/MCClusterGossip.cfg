CONSTANTS
    v1 = v1
    v2 = v2
    v3 = v3
    v4 = v4
    Node = {v1, v2, v3, v4}
    Faulty = {v2}
    Rank <- MCRank
    ActiveSet <- AllFour
    Item = {"a"}
    Arrivals <- EveryArrival
    Links <- EveryLink
    Time = {1}
    MaxTxs = 1
    FaultyVotes = {}
    FaultyProposals = {}
    FaultyBlocks = {}
    MaxHeight = 1
    MaxRound = 2
    Submissions <- AtV1
    GossipMayFail = TRUE
    MaxRestarts = 0
SPECIFICATION FairClusterSpec
PROPERTIES Notarized
CHECK_DEADLOCK FALSE
