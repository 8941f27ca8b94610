SPECIFICATION Spec
CONSTANTS
    Rows <- HistoryRows
    RowAt <- HistoryRowAt
    Since = 0
    Until = 1
    PageSize = 2
    MaxPageSize = 3
    Notes = {"answer"}
    NoteAt <- NoteTimes
    RootOf <- OneThread
    OfFeishu = {"answer"}
    Overlap = 1
    RetryWindow = 1
    KeyWindow = 3
    MaxDelay = 1
    MaxRound = 1
    Discovery = 2
    MaxTries = 2
    Floor = 0
    MaxClock = 4
    MaxFaults = 1
    MaxCrashes = 0
CHECK_DEADLOCK FALSE

PROPERTIES
    SkippedIsReread
