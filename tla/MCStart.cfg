CONSTANTS
    r1 = r1
    r2 = r2
    Prev = {r1, r2}
    MaxTs = 2
    Rounds = 2
    MaxSent = 2
    Capacity = 2
    HasMaxDelay = TRUE
    HasLock = TRUE
SPECIFICATION FairSpec
INVARIANTS
    WatermarkSafe
    RoundsAligned
    StateBeforeData
    NothingLost
    IInv
PROPERTY
    WatermarksGrow
    Terminates
