CONSTANTS
    v1 = v1
    v2 = v2
    v3 = v3
    v4 = v4
    Node = {v1, v2, v3}
    Faulty = {}
    Rank <- MCRank
    ActiveSet <- Rotating
    Item = {"a", "b"}
    Arrivals <- EveryArrival
    Links <- NeighbourLinks
    Time = {1}
    MaxTxs = 1
    FaultyVotes = {}
    FaultyProposals = {}
    FaultyBlocks = {}
    MaxHeight = 2
    MaxRound = 0
    Submissions <- BothAtV2
    GossipMayFail = FALSE
    MaxRestarts = 1
SPECIFICATION ClusterSpec
INVARIANTS MembersCommitCertified ChainLinked
PROPERTY ImplementsLedger
CHECK_DEADLOCK FALSE
