SPECIFICATION FairSpec
CONSTANTS
    Funcs = {f1}
    Labels = {l1}
    Exprs <- StmtExprs
    CaseExprs <- StmtCaseExprs
    MaxDepth = 4
    MaxItems = 4
INVARIANTS
    TypeOK
    CfgWellFormed
    TargetsTrackNesting
    SwitchDispatchesOwnCases
PROPERTIES
    InstrsAppendOnly
    GotoEventuallyBound
