CONSTANTS
    l1 = l1
    l2 = l2
    r1 = r1
    Left = {l1, l2}
    Right = {r1}
    Cached = {"none", "left", "right"}
    Rounds = 2
    MaxSent = 1
    Capacity = 2
    HasMaxDelay = TRUE
SPECIFICATION FairSpec
INVARIANTS
    NothingLost
PROPERTY
    RoundComplete
    Terminates
