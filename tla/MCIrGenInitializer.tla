------------------------- MODULE MCIrGenInitializer -------------------------
(***************************************************************************)
(* C types for model checking the initializer compiler.                    *)
(***************************************************************************)
EXTENDS IrGenInitializer

ArrayOf(T, n) == [t |-> "array", elem |-> T, size |-> n, incomplete |-> FALSE]
\* struct S1 { int x, y; }
S1 == [t |-> "struct", fields |-> <<IntT, IntT>>]
\* struct S2 { struct S1 a; int b; }
S2 == [t |-> "struct", fields |-> <<S1, IntT>>]
\* int[2], int[2][2], char[3], int[]
A2 == ArrayOf(IntT, 2)
A22 == ArrayOf(A2, 2)
C3 == ArrayOf(CharT, 3)
AInc == [t |-> "array", elem |-> IntT, size |-> 0, incomplete |-> TRUE]
\* struct S3 { char s[2]; int n; }
S3 == [t |-> "struct", fields |-> <<ArrayOf(CharT, 2), IntT>>]

\* struct S4 { int *p; int n; }
S4 == [t |-> "struct", fields |-> <<PtrT, IntT>>]

\* the declarations of each configuration
PassTypes == {IntT, S1, S2, A2, C3, AInc, S3, PtrT, S4}
DesigTypes == {S2}
NestedArrayTypes == {A22}
ShortStringTypes == {C3}
=============================================================================
