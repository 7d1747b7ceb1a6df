CONSTANTS
    CutByCrash = TRUE
    MaxErrors = 0
    Interval = 2
    BackendMayFail = FALSE
    Contents <- MCContents
    SyncMayHappen = TRUE
    MaxHeight = 4
    MaxRestarts = 2
SPECIFICATION Spec
INVARIANT StoreComplete
CHECK_DEADLOCK FALSE
