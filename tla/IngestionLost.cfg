SPECIFICATION Spec
CONSTANTS
    LedgerLength = 5
    Normalizable <- MCNormalizable
    PageLimit = 3
    MaxAttempts = 4
    BaseDelay = 2
    MaxDelay = 5
    Capacity = 2
    MaxRuns = 2
INVARIANTS
    NothingSilentlyLost
