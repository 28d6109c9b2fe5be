---------------------------- MODULE MCIrGenArith ----------------------------
(***************************************************************************)
(* Integer widths and operand types for model checking IrGenArith,        *)
(* IrGenLvalue and IrGenCall.                                              *)
(***************************************************************************)
EXTENDS IrGenCall

\* char 2, short 3, int 4, long and long long 6 bits; pointers 6 bits
Widths == [char |-> 2, short |-> 3, int |-> 4, long |-> 6, llong |-> 6]

UInt == IntType("int", FALSE)
Long == IntType("long", TRUE)
ULong == IntType("long", FALSE)
LLong == IntType("llong", TRUE)
Char == IntType("char", TRUE)
UChar == IntType("char", FALSE)

\* int and wider, where C's integer promotions change nothing
WideTypes == {IntT, UInt, Long, ULong}
\* indexes whose OP_ZEXT to pointer width keeps their value
ExtSafeIndexTypes == {UInt, Long, ULong, UChar}
\* types below int
NarrowTypes == {Char, UChar}
\* unsigned long against long long, of equal width
EqualWidthTypes == {ULong, LLong}
\* the lvalues of ++ and --: every width
IncDecLvalueTypes == WideTypes \cup NarrowTypes
\* the operands of ~, which ir_gen_expr types int whatever they are
IntOnly == {IntT}
\* a signed index narrower than a pointer
SignedIndexTypes == {IntT}

\* the arithmetic expressions of IrGenArith alone, with no call
ArithSpec == Init /\ phase = "idle" /\ CallFrame0 /\ [][Next /\ UNCHANGED callVars]_allVars
=============================================================================
