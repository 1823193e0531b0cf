SPECIFICATION Spec
CONSTANTS
    Workers = {w1, w2}
    NumEvents = 5
    Candidates <- MCCandidates
    CandidateOf <- MCCandidateOf
    TypeOf <- MCTypeOf
    FailureKinds <- MCFailureKinds
    FailureKindOf <- MCFailureKindOf
    MaxRebuilds = 1
PROPERTIES
    RefusedIsKnown
\* All events may be in the log.
CHECK_DEADLOCK FALSE
