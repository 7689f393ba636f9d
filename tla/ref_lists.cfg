SPECIFICATION Spec
CONSTANTS
    MaxFrameNum = 4
    NoPicture = NoPicture
    MaxRefs = 3
    Actives = {1, 3}
    MaxCommands = 3
    Avoided = {"p_after_reordering", "long_term_command", "pushed_out"}
INVARIANTS TypeOK ListFollowsStandard
CHECK_DEADLOCK FALSE
