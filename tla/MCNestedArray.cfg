\* int[2][2] with rows left out
CONSTANTS
    Types <- NestedArrayTypes
    Vals = {1, 2}
    PtrInits = {"addr"}
    StrLens = {}
    MaxElems = 2
    MaxDesig = 1
    MaxBraces = 2
SPECIFICATION Spec
INVARIANT
    ConstMatchesRuntime
