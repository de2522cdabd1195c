SPECIFICATION LibrarySpec
CONSTANTS
    Jobs <- AllJobs
    Times <- MCTimes
    Keys <- MCKeys
    JoinKeys <- MCKeys
    Ticks <- MCTicks
    BatchSize = 2
    Capacity = 1
    LowerBound = 1
    UpperBound = 1
    CommitTime = 1
    Calls <- AllCalls
    Replicas = 2
    Buckets = 2
    MaxRetry = 1
    NumIter = 4
    Peers = 4
INVARIANTS
      
     KeysTogether 
