SPECIFICATION RulesSpec
CONSTANTS
    TicksPerSecond = 2
    NoAccount = "no_account"
    config <- MCConfig
    Evaluated <- MCEvaluated
    Recorded <- MCRecorded
    Flagged = {"B"}
    MaxHistory = 3
INVARIANTS
    OrderIrrelevant
    LaterTransactionsIgnored
    SilentThenActive
PROPERTIES
    MoreHistoryConfirms
    ScoreGrowsWithTriggers
\* A history at its bound grows no more.
CHECK_DEADLOCK FALSE
