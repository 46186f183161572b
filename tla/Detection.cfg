SPECIFICATION Spec
CONSTANTS
    r1 = r1
    r2 = r2
    r3 = r3
    TicksPerSecond = 1
    NoAccount = "no_account"
    config <- MCConfig
    Request = {r1, r2, r3}
    Account = {"A", "B"}
    Transaction <- MCTransaction
    MaxHistory = 2
SYMMETRY MCSymmetry
INVARIANTS
    HistoryIsRecent
    HistoryCanBeLookedUp
    FlaggedAccountsCaught
    AnsweredTransactionsCount
    TriggersJustified
    IngestionAccounted
\* Every request is served once: when all have finished, nothing is left to do.
CHECK_DEADLOCK FALSE
