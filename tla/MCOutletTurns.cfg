SPECIFICATION GraphSpec
CONSTANTS
    Sources <- MCSources
    Kind <- MCKind
    At <- MCAt
    Ref <- MCRef
    Emoji <- MCEmoji
    Transient = {}
    Outlet <- MCSources
    None = 0
    Targets = {1, 2}
    Contents = {Own, Paired}
    Own = Own
    Paired = Paired
    Pinned = {}
    NoTarget = NoTarget
    NoContent = NoContent
    Overlap = 1
    Lateness = 0
    InitialSince = 1
    MaxTime = 4
    RetryWindow = 9
    Margin = 1
    DedupWindow = 10
    LeaseUnit = 1
    LeaseCap = 2
    AgingTurns = 2
    LateLanding = FALSE
    MaxFaults = 1
    FaultsUntil = 1
CHECK_DEADLOCK FALSE
INVARIANTS
    OldHeadsTurn
PROPERTIES
    NoEditRegression
    EventuallyDelivered
    EventuallyLatestEdit
