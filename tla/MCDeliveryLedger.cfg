SPECIFICATION LedgerSpec
CONSTANTS
    s1 = s1
    p1 = p1
    c1 = c1
    g1 = g1
    g2 = g2
    Sources = {s1, p1}
    Targets = {g1, g2}
    Contents = {c1}
    Pinned = {p1}
    Outlet = {s1}
    Overlap = 1
    MaxTime = 2
    NoTarget = NoTarget
    NoContent = NoContent
CHECK_DEADLOCK FALSE
INVARIANTS
    LedgerSafe
PROPERTIES
    CursorHeldBack
    AckIsFinal
