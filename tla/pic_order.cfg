SPECIFICATION PicOrderSpec
CONSTANTS
    Half = 8
    BottomDeltas <- BottomDeltasDef
    BottomFirst = FALSE
    MaxCount = 16
    Spss <- SpssDef
    MaxFrameNum = 8
    MaxRefFrames = 7
    Deltas <- DeltasDef
    NonReference = FALSE
    Wraps = FALSE
INVARIANTS
    TypeOK
    PocRecovered
    CountsAccumulate
