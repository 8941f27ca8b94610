SPECIFICATION SchedFairSpec
CONSTANTS
    Threads <- MCThreads
    Pair <- MCPair
    Priority <- MCPriority
    Budgets <- MCBudgets
    BudgetsOf <- MCBudgetsOf
    Limit <- MCLimit
    Seconds <- MCSeconds
    Burst = 2
    NormalBurst = 1
    MaxPending = 2
    Timeout = 2
    MaxTime = 4
    NoThread = NoThread
CHECK_DEADLOCK FALSE
INVARIANTS
    SchedSafe
    RollingCeiling
    BackfillBound
PROPERTIES
    LaneFifo
    EventuallyAnswered
