\* Initializers of scalars, structs, nested structs, arrays, strings and
\* incomplete arrays, pointers to a global, with one designator per element.
CONSTANTS
    Types <- PassTypes
    Vals = {1, 2}
    PtrInits = {"addr"}
    StrLens = {2, 3}
    MaxElems = 2
    MaxDesig = 1
    MaxBraces = 2
SPECIFICATION Spec
INVARIANTS
    InitMatchesC
    ConstMatchesRuntime
