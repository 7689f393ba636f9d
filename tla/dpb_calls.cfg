SPECIFICATION Spec
CONSTANTS
    FrameNumSet = {0, 1, 2}
    LongIdxSet = {0, 1}
    Capacities = {1, 2}
    MaxInserts = 4
INVARIANTS
    TypeOK
    LongTermIndexUnique
    ShortTermWithinCapacity
PROPERTY
    WindowEvictsOldest
CHECK_DEADLOCK FALSE
