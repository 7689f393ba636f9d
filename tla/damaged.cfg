SPECIFICATION Spec
CONSTANTS
    None = None
    max_depth = 1
    Kinds = {"frame", "fields"}
    Loss = "any"
    Outcomes = {"ok", "header", "data", "empty"}
    Widths = {16}
    Heights = {32, 64}
    Pocs = {2}
    MaxFrames = 2
    MaxSlices = 2
    MaxSets = 2
INVARIANTS
    MetaPresent
    NoSliceTwice

    
CHECK_DEADLOCK FALSE
