\* What the documentation says of an override of the server's address.
SPECIFICATION Spec
CONSTANTS
    None = None
    x1 = x1
    x2 = x2
    Scenarios <- MCScenarios
    Json <- MCJson
    DeepMerge <- DeepMergeJson
    Settings <- MCSettings
    Lines = {x1, x2}
    ContributorCount = 2
INVARIANTS
    ServerOverrideApplies
CHECK_DEADLOCK FALSE
