\* struct S2 with nested designators such as .a.x
CONSTANTS
    Types <- DesigTypes
    Vals = {1, 2}
    PtrInits = {"addr"}
    StrLens = {}
    MaxElems = 2
    MaxDesig = 2
    MaxBraces = 2
SPECIFICATION Spec
INVARIANT
    InitMatchesC
