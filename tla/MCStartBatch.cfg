CONSTANTS
    r1 = r1
    r2 = r2
    Prev = {r1, r2}
    MaxTs = 1
    Rounds = 1
    MaxSent = 1
    Capacity = 1
    HasMaxDelay = TRUE
    HasLock = FALSE
SPECIFICATION Spec
INVARIANT
    BatchEmptyWhenWaiting
