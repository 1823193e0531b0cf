SPECIFICATION Spec
CONSTANTS
    Workers = {w1, w2}
    MaxSubmitRetries = 0
    SubmitModes = {TRUE}
    Checks <- OnlyPassing
    MaxCrashes = 0
    MaxChecks = 2
PROPERTIES
    ReconciledBeforePost
