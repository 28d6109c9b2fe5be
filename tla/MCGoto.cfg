SPECIFICATION Spec
CONSTANTS
    Funcs = {f1, f2}
    Labels = {l1}
    Exprs <- StmtExprs
    CaseExprs <- StmtExprs
    MaxDepth = 2
    MaxItems = 2
INVARIANT
    GotoResolvesWithinFunction
