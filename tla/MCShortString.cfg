\* char[3] initialized by a one-character string
CONSTANTS
    Types <- ShortStringTypes
    Vals = {1, 2}
    PtrInits = {"addr"}
    StrLens = {1}
    MaxElems = 2
    MaxDesig = 1
    MaxBraces = 2
SPECIFICATION Spec
INVARIANT
    InitMatchesC
