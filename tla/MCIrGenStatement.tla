------------------------- MODULE MCIrGenStatement --------------------------
(* Model values for IrGenStatement: one function name per emission,        *)
(* expression shapes from a plain operand up to a ?: nested in an &&.      *)
EXTENDS IrGenStatement

V == [t |-> "var"]
\* (c ? a : b) && d: a ?: whose join is the lhs of an &&
TernaryAnd == [t |-> "and", l |-> [t |-> "ternary", c |-> V, l |-> V, r |-> V], r |-> V]

\* sizeof((c ? a : b) && d): the same, lowered into the scratch function
SizeofTernaryAnd == [t |-> "sizeof", e |-> TernaryAnd]

StmtExprs == {V}
DriverExprs == {TernaryAnd}
\* a case constant, and one whose && adds blocks in CONST_CONTEXT
\* and one whose blocks go to the scratch function
StmtCaseExprs == {V, TernaryAnd, SizeofTernaryAnd}
=============================================================================
