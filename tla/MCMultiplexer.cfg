CONSTANTS
    c1 = c1
    c2 = c2
    u1 = u1
    u2 = u2
    d1 = d1
    Host = {c1, c2}
    Sender = {u1, u2}
    Endpoint = {d1, d2}
    Jobs <- TwoJobs
    MaxBatches = 2
    ConnectAttempts = 2
    MuxCapacity = 2
    StreamCapacity = 1
    Capacity = 1
SPECIFICATION FairSpec
INVARIANTS
    EndpointsKnown
    FinishedIsEmpty
PROPERTY
    RefinesLink
    SurvivorsServed
