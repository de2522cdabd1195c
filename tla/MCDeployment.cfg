SPECIFICATION Spec
CONSTANTS
    Configs <- AllConfigs
    Replications <- AllReplications
    MaxOps = 3
INVARIANTS
    NeverPanics
    HostsAgree
    CountersMatch
    NextBlockReached
