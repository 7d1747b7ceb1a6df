CONSTANTS
    CutByCrash = TRUE
    MaxErrors = 2
    Interval = 2
    BackendMayFail = TRUE
    Contents <- MCContents
    SyncMayHappen = TRUE
    MaxHeight = 4
    MaxRestarts = 2
SPECIFICATION Spec
INVARIANTS TypeOK StoredInOrder EachBlockAnchoredOnce WindowsLabelled ProofsVerify GapsAreSynced
CHECK_DEADLOCK FALSE
