SPECIFICATION Spec
CONSTANTS
    Workers = {w1, w2}
    NumEvents = 5
    Candidates <- MCCandidates
    CandidateOf <- MCCandidateOf
    TypeOf <- MCTypeOf
    FailureKinds <- MCFailureKinds
    FailureKindOf <- MCFailureKindOf
    MaxRebuilds = 1
SYMMETRY Symmetry
INVARIANTS
    CountedOnce
    Grounded
PROPERTIES
    AppendKeepsSupport
    ActiveSupersedes
    RebuildLosesNothing
\* All events may be in the log.
CHECK_DEADLOCK FALSE
