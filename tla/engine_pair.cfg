SPECIFICATION Spec
CONSTANTS
    Workers = {w1, w2}
    MaxSubmitRetries = 1
    SubmitModes = {TRUE}
    Checks <- OnlyPassing
    MaxCrashes = 0
    MaxChecks = 2
SYMMETRY Symmetry
VIEW WithoutResult
INVARIANTS
    SubmitBudget
    LateSubmitsBounded
