SPECIFICATION IngestSpec
CONSTANTS
    Messages = {1, 2, 3}
    SentAt <- SentTimes
    ThreadOf <- Threads
    Strangers = {1}
    Calls = {3}
    Lag <- Lags
    ScanOverlap = 1
    ContextWindow = 1
    GiveUpAfter = 1
    PageRows = 1
    Drain = 2
    Capacity = 2
    Attempts = 2
    ScanFloor = 0
    LastTime = 2
    MaxNames = 1
    MaxTrouble = 1
CHECK_DEADLOCK FALSE

INVARIANTS
    IngestSafe
    NothingUnread
PROPERTIES
    WordsBeforeCall
    IngestSettled
