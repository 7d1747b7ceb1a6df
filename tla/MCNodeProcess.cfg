CONSTANTS
    Absent = Absent
    Torn = Torn
    FileFaults = {"crash", "error"}
    SmartLedger = "SmartLedger"
    Deployments <- MCDeployments
    GivenGenesis <- MCGivenGenesis
    Features = {"notaryhash"}
    OwnChain = "own"
    Offers <- MCOffers
    WindowSecs = 2
    MaxTime = 2
    MaxStops = 1
    MaxInstalls = 2
    MaxAccepted = 3
SPECIFICATION FairSpec
INVARIANTS TypeOK SameIdentity OwnChainIsItsOwn VolumeBound
PROPERTIES RunsLicensed ComesUp
CHECK_DEADLOCK FALSE
