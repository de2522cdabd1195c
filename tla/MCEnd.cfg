CONSTANTS
    u1 = u1
    u2 = u2
    Replica = {u1, u2}
    Endpoint <- Endpoints
    Jobs <- AllJobs
    Key = {0, 1}
    BatchSize = 2
    Capacity = 1
    MaxSent = 2
SPECIFICATION FairSpec
INVARIANTS
    OneReplicaPerKey
    RoundFlushed
    NeverPanics
PROPERTY
    RefinesLink
    TimedFlush
    Terminates
