SPECIFICATION Spec
CONSTANTS
    breadth = breadth
    decorrelate = decorrelate
    fresh = fresh
    exploit = exploit
    Branches = {breadth, decorrelate, fresh, exploit}
    Fallback <- FallbackBranches
    Modes = {"run-submit", "presubmit-sequential"}
    Candidates = {c1, c2}
    Outcomes = {"ready", "pending", "self_correlation"}
    Budget = 2
    MinTrials = 1
    FailureLimit = 3
    MaxCycles = 2
    MaxSessions = 2
SYMMETRY Symmetry
VIEW WithoutOldSubmissions
CHECK_DEADLOCK FALSE
INVARIANTS
    CapsAreExact
    CapsAreKept
    PrunedGetsNothing
    ReadyNotPruned
    NothingUncounted
