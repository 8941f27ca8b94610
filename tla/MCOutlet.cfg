SPECIFICATION GraphSpec
CONSTANTS
    Sources <- MCSources
    Kind <- MCKind
    At <- MCAt
    Ref <- MCRef
    Emoji <- MCEmoji
    Transient <- MCTransient
    Outlet <- MCSources
    None = 0
    Targets = {1, 2}
    Contents = {Own, Paired}
    Own = Own
    Paired = Paired
    Pinned = {}
    NoTarget = NoTarget
    NoContent = NoContent
    Overlap = 1
    Lateness = 1
    InitialSince = 1
    MaxTime = 4
    RetryWindow = 1
    Margin = 1
    DedupWindow = 2
    LeaseUnit = 1
    LeaseCap = 2
    AgingTurns = 2
    LateLanding = TRUE
    MaxFaults = 2
    FaultsUntil = 3
CHECK_DEADLOCK FALSE
INVARIANTS
    OutletSafe
    NothingLost
    ReplyAfterParent
    AckedIsReal
PROPERTIES
    PromiseKept
