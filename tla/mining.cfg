SPECIFICATION LiveSpec
CONSTANTS
    Exprs = {"a", "b", "c", "d", "x"}
    Illegal = {"x"}
    Seeds <- RepeatedSeeds
    MaxRuns = 4
    MaxRounds = 3
    ParentLimits = {0, 2}
    ChildrenPerParent = 2
    MaxGeneration = 2
    MaxFailures = 2
    Target = 2
    MaxCrashes = 2
    NoCheckpoint = NoCheckpoint
INVARIANTS
    CostBounded
    SimulatedOnce
    NoCandidateLost
    ReasonIsTrue
PROPERTIES
    RunEnds
\* A run that has ended need not be started again.
CHECK_DEADLOCK FALSE
