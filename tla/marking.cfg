SPECIFICATION Spec
CONSTANTS
    MaxFrameNum = 4
    MaxRefFrames = 2
    LongIdxSet = {0, 1}
    Ops = {1, 2, 3, 4, 6}
    IdrLong = TRUE
    Avoided = {"named_across_wrap", "kept_across_wrap", "op6_when_full"}
    MaxCmds = 2
    MaxPics = 7
INVARIANTS
    TypeOK
    TotalWithinCapacity
PROPERTY
    ImplementsMarking
CHECK_DEADLOCK FALSE
