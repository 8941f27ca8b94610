SPECIFICATION Spec
CONSTANTS
    b1 = b1
    b2 = b2
    b3 = b3
    b4 = b4
    Names = {b1, b2, b3, b4}
    Capacity = 2
    LiveReserve = 1
    StreakLimit = 2
INVARIANTS
    SlotsSafe
    NoIdleSlot
    BoundedOvertaking
PROPERTIES
    QueuedIsAdmitted
