SPECIFICATION Spec
CONSTANTS
    None = None
    max_depth = 1
    Kinds = {"frame", "fields"}
    Loss = "none"
    Outcomes = {"ok"}
    Widths = {16}
    Heights = {32, 64}
    Pocs = {2, 4}
    MaxFrames = 4
    MaxSlices = 2
    MaxSets = 2
INVARIANTS
    TypeOK
    MetaAssociation
    FramesWhole
    LatencyBounded
    AllShownOnceFlushed
PROPERTY
    ImplementsDisplayOrder
CHECK_DEADLOCK FALSE
