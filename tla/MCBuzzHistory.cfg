SPECIFICATION Spec
CONSTANTS
    Rows <- HistoryRows
    RowAt <- HistoryRowAt
    Since = 0
    Until = 1
    PageSize = 2
    MaxPageSize = 3
    Notes = {"root", "reply"}
    NoteAt <- NoteTimes
    RootOf <- OneThread
    OfFeishu = {}
    Overlap = 1
    RetryWindow = 1
    KeyWindow = 3
    MaxDelay = 1
    MaxRound = 1
    Discovery = 2
    MaxTries = 2
    Floor = 0
    MaxClock = 4
    MaxFaults = 2
    MaxCrashes = 1
CHECK_DEADLOCK FALSE

INVARIANTS
    HistorySafe
    BuzzSafe
    NothingMissed
PROPERTIES
    ReadEnds
    MessageSettled
