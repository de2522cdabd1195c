SPECIFICATION FairSpec
CONSTANTS
    Host = {"a", "b"}
    Jobs <- AllJobs
    MaxIterations = 2
INVARIANTS
    StateRaceFree ReadsOwnIteration LoopEmptyAtUpdate FeedbackSeparated
    DeltasOfOneIteration LoopConserves
 
