SPECIFICATION Spec
CONSTANTS
    Host = {"a", "b"}
    Jobs <- SideJob
    MaxIterations = 2
INVARIANT AllOperatorsFinished
