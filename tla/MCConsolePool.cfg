SPECIFICATION Spec
CONSTANTS
    k1 = k1
    k2 = k2
    Requests = {k1, k2}
    MaxProcess = 3
    MaxLives = 2
    MaxChanges = 1
    Observations = 1
    t1 = t1
    t2 = t2
    t3 = t3
    Callers = {t1, t2, t3}
    MaxConnections = 2
    MaxRequests = 1
CHECK_DEADLOCK FALSE

INVARIANTS
    RestartSafe
    PoolSafe
PROPERTIES
    RestartInOrder
    RestartAnswered
    RequestsEnd
