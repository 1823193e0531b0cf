SPECIFICATION LiveSpec
CONSTANTS
    Workers = {w1}
    MaxSubmitRetries = 1
    SubmitModes = {TRUE, FALSE}
    Checks <- AllChecks
    MaxCrashes = 2
    MaxChecks = 2
INVARIANTS
    CausalOrder
    RecheckBeforeRepost
    SimulationsBounded
PROPERTIES
    SubmitsAsPromised
    ActiveIsLearned
