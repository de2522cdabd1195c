CONSTANTS
    N = 4
    Batches = 2
    Capacity = 2
SPECIFICATION SilentSpec
INVARIANTS
    EntryHasThread
    NoTaskLost

    
