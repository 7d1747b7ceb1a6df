CONSTANTS
    v1 = v1
    v2 = v2
    v3 = v3
    v4 = v4
    Node = {v1, v2, v3, v4}
    Faulty = {v4}
    Rank <- MCRank
    ActiveSet <- AllFour
    Item = {"a"}
    Arrivals <- EarlyArrivals
    Links <- OneListener
    Time = {0}
    MaxTxs = 1
    FaultyVotes <- LastVote
    FaultyProposals = {}
    FaultyBlocks = {}
    MaxHeight = 1
    MaxRound = 1
SPECIFICATION Spec
INVARIANTS TypeOK VoteOnce ValidCoversLock ParkedMeansIdle IndInv
CHECK_DEADLOCK FALSE
