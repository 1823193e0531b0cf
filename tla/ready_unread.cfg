SPECIFICATION Spec
CONSTANTS
    a = a
    b = b
    c = c
    Modes <- Presubmit
    Expressions <- ThreeExpressions
    Offers <- SomeOffers
    Similar <- SomeSimilar
    Signature <- SomeSignature
    MaxSignature = 1
    SimResults <- SomeSimResults
    Answers <- AllAnswers
    AllowProbe = FALSE
    Target = 2
    MaxTotal = 3
    MaxCycles = 4
    MaxEmpty = 2
    MaxFailures = 2
    CycleLimit = 2
    MaxSessions = 1
INVARIANT
    ReadyWasRead
CHECK_DEADLOCK FALSE
