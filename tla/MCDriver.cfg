SPECIFICATION Spec
CONSTANTS
    Funcs = {f1, f2}
    Labels = {}
    Exprs <- DriverExprs
    CaseExprs <- StmtExprs
    MaxDepth = 3
    MaxItems = 2
INVARIANTS
    CfgWellFormed
    TargetsTrackNesting
    PhiJoinsPredecessors
