CONSTANTS
    N = 3
    Batches = 3
    Capacity = 1
SPECIFICATION FairSpec
PROPERTY
    ExecuteReturns
CHECK_DEADLOCK FALSE
