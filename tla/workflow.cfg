SPECIFICATION LiveSpec
CONSTANTS
    a = a
    b = b
    c = c
    Modes <- BothModes
    Expressions <- ThreeExpressions
    Offers <- SomeOffers
    Similar <- SomeSimilar
    Signature <- SomeSignature
    MaxSignature = 1
    SimResults <- SomeSimResults
    Answers <- ReadAnswers
    AllowProbe = FALSE
    Target = 2
    MaxTotal = 3
    MaxCycles = 4
    MaxEmpty = 2
    MaxFailures = 2
    CycleLimit = 2
    MaxSessions = 2
INVARIANTS
    SimulationsKept
    SubmittedOnce
    ReadyFit
    NotStarved
    ReasonIsTrue
PROPERTIES
    SessionEnds
\* No more sessions are started than MaxSessions.
CHECK_DEADLOCK FALSE
