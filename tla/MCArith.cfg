\* Casts, arithmetic, bitwise and unary operators, comparisons, compound
\* assignments, ++ and -- of int and wider types (++ and -- of char too);
\* pointer arithmetic with indexes zero-extension preserves; identifier,
\* *, [], ., -> and & expressions nested up to four deep over the globals of
\* IrGenLvalue, int and pointers 2 bytes, placed from address 32.
CONSTANTS
    RankWidth <- Widths
    PtrWidth = 6
    IntTypes <- WideTypes
    IndexTypes <- ExtSafeIndexTypes
    BitNotTypes <- IntOnly
    LvalueTypes <- IncDecLvalueTypes
    PointeeSizes = {1, 2}
    ObjLen = 3
    Base = 16
    IntSize = 2
    PtrSize = 2
    LvBase = 32
    LvDepth = 4
    FnDerefs = FALSE
    RetLocal = 2
    CalleeBase = 8
SPECIFICATION AllSpec
INVARIANTS
    IntArithMatchesC
    CmpMatchesC
    PtrArithMatchesC
    AssignMatchesC
    AccessMatchesC
    ParamsMatchC
    CallMatchesC
