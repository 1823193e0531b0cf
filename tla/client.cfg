SPECIFICATION LiveSpec
CONSTANTS
    Operations <- AllOperations
    AuthTries = 3
    SimTries = 2
    SimPolls = 2
    CheckPolls = 2
    SubmitTries = 3
    PostTries = 2
    SubmitPolls = 2
INVARIANTS
    CostBounded
    GateExact
    FingerprintDecides
    RecheckedIfUnanswered
PROPERTIES
    SubmitsAsAssumed
    CallEnds
\* A call that has ended makes no step.
CHECK_DEADLOCK FALSE
