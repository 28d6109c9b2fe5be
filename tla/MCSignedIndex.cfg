\* a pointer plus or minus a negative int
CONSTANTS
    RankWidth <- Widths
    PtrWidth = 6
    IntTypes <- WideTypes
    IndexTypes <- SignedIndexTypes
    BitNotTypes <- IntOnly
    LvalueTypes <- IncDecLvalueTypes
    PointeeSizes = {1, 2}
    ObjLen = 3
    Base = 16
    IntSize = 2
    PtrSize = 2
    LvBase = 32
    LvDepth = 0
    FnDerefs = FALSE
    RetLocal = 2
    CalleeBase = 8
SPECIFICATION ArithSpec
INVARIANT
    PtrArithMatchesC
