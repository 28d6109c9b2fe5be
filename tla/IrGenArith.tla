----------------------------- MODULE IrGenArith -----------------------------
(***************************************************************************)
(* Integer conversions and integer and pointer arithmetic of               *)
(* src/src/ir_gen.c: convert_type, do_arithmetic_conversions, ir_gen_add,  *)
(* ir_gen_sub, the bitwise operators, ir_gen_cmp, the unary operators, the *)
(* cast expression, compound assignment and increment and decrement.      *)
(* One expression over typed operands is lowered; the value its IR         *)
(* computes, read as the result's C type, is compared with C11.            *)
(*                                                                         *)
(* An IR value is a bit pattern b in 0..2^w-1 of its type's width w.       *)
(* Widths are constants; they keep the order of the real ones (char <      *)
(* short < int < long = long long = pointer) at a size TLC enumerates.    *)
(***************************************************************************)
EXTENDS Integers, FiniteSets, Bitwise

CONSTANTS
    RankWidth,     \* bits of each integer rank
    PtrWidth,      \* bits of a pointer and of int_ptr_type
    IntTypes,      \* integer types of the operands of integer expressions
    IndexTypes,    \* integer types added to or subtracted from pointers
    BitNotTypes,   \* integer types of the operand of ~
    LvalueTypes,   \* integer types of the operand of ++ and --
    PointeeSizes,  \* sizeof *p of the pointers
    ObjLen,        \* elements of the array object pointers point into
    Base           \* address of that object

IntType(r, s) == [t |-> "int", rank |-> r, signed |-> s]
PtrTo(n) == [t |-> "ptr", size |-> n]
IntT == IntType("int", TRUE)

\* c_type_rank (c_type.c, outside src/)
RankOf == [char |-> 1, short |-> 2, int |-> 3, long |-> 4, llong |-> 5]
Rank(T) == RankOf[T.rank]
W(T) == IF T.t = "ptr" THEN PtrWidth ELSE RankWidth[T.rank]
\* bit pattern b of w bits read as two's complement
AsSigned(b, w) == IF b >= 2^(w - 1) THEN b - 2^w ELSE b
\* the C value of bit pattern b of type T
Read(T, b) == IF T.t = "int" /\ T.signed THEN AsSigned(b, W(T)) ELSE b
\* the bit pattern of the integer x in w bits
Bits(x, w) == x % 2^w

(***************************************************************************)
(* IR instruction semantics (ir.c and the backend, outside src/).          *)
(***************************************************************************)
Trunc(b, w) == b % 2^w
Sext(b, from, to) == IF b >= 2^(from - 1) THEN b + 2^to - 2^from ELSE b
\* OP_DIV on signed operands truncates toward zero
SDiv(a, d) == IF a >= 0 THEN a \div d ELSE -((-a) \div d)

Term(T, b) == [ctype |-> T, b |-> b, const |-> FALSE]

(***************************************************************************)
(* convert_type (lines 1909-1966).                                         *)
(***************************************************************************)
\* mutant: the extension chosen by the target's signedness
ConvertExtByTarget(x, T) ==
    IF x.ctype = T THEN x
    ELSE CASE x.ctype.t = "int" /\ T.t = "int" ->
                Term(T, IF W(x.ctype) > W(T) THEN Trunc(x.b, W(T))
                        ELSE IF T.signed THEN Sext(x.b, W(x.ctype), W(T)) ELSE x.b)
           [] x.ctype.t = "int" /\ T.t = "ptr" -> Term(T, x.b)
           [] x.ctype.t = "ptr" /\ T.t = "int" -> Term(T, Trunc(x.b, W(T)))
           [] OTHER -> Term(T, x.b)
Convert(x, T) ==
    IF x.ctype = T THEN x
    ELSE CASE x.ctype.t = "int" /\ T.t = "int" ->
                Term(T, IF W(x.ctype) > W(T) THEN Trunc(x.b, W(T))
                        ELSE IF x.ctype.signed THEN Sext(x.b, W(x.ctype), W(T)) ELSE x.b)
           [] x.ctype.t = "int" /\ T.t = "ptr" -> Term(T, x.b)
           [] x.ctype.t = "ptr" /\ T.t = "int" -> Term(T, Trunc(x.b, W(T)))
           [] OTHER -> Term(T, x.b)

(***************************************************************************)
(* do_arithmetic_conversions_with_blocks (lines 1976-2031): the pair of    *)
(* operands after conversion to a common type.                             *)
(***************************************************************************)
ArithConv(l, r) ==
    IF l.ctype.signed = r.ctype.signed
    THEN CASE Rank(l.ctype) = Rank(r.ctype) -> <<l, r>>
           [] Rank(l.ctype) < Rank(r.ctype) -> <<Convert(l, r.ctype), r>>
           [] OTHER -> <<l, Convert(r, l.ctype)>>
    ELSE LET s == IF l.ctype.signed THEN l ELSE r
             u == IF l.ctype.signed THEN r ELSE l
             c == IF Rank(u.ctype) >= Rank(s.ctype)
                  THEN [s |-> Convert(s, u.ctype), u |-> u]
                  ELSE [s |-> s, u |-> Convert(u, s.ctype)]
         IN IF l.ctype.signed THEN <<c.s, c.u>> ELSE <<c.u, c.s>>

(***************************************************************************)
(* ir_gen_add (lines 1700-1766).  A constant integer offset becomes an     *)
(* OP_FIELD into an array of the pointee (address + offset * size); any    *)
(* other is OP_ZEXT'ed to int_ptr_type, scaled, added and cast back.       *)
(***************************************************************************)
\* mutant: the addend not scaled by sizeof *pointee
PtrOffsetUnscaled(p, o) == Term(p.ctype, Bits(p.b + o.b, PtrWidth))
PtrOffset(p, o) ==
    IF o.const THEN Term(p.ctype, Bits(p.b + o.b * p.ctype.size, PtrWidth))
    ELSE Term(p.ctype, Bits(p.b + Bits(o.b * p.ctype.size, PtrWidth), PtrWidth))
\* decay_to_pointer (c_type.c, outside src/): an array term becomes a
\* pointer to its first element (array types record their element's
\* size), a function a pointer to it (of GNU C's size 1)
DecayToPointer(x) ==
    CASE x.ctype.t = "array" ->
            [x EXCEPT !.ctype = [t |-> "ptr", size |-> x.ctype.esize, to |-> x.ctype.elem]]
      [] x.ctype.t = "fn" -> [x EXCEPT !.ctype = [t |-> "ptr", size |-> 1, to |-> x.ctype]]
      [] OTHER -> x
IrGenAdd(l0, r0) ==
    LET l == DecayToPointer(l0)
        r == DecayToPointer(r0)
    IN IF l.ctype.t = "int" /\ r.ctype.t = "int"
       THEN LET c == ArithConv(l, r)
            IN Term(c[1].ctype, Bits(c[1].b + c[2].b, W(c[1].ctype)))
       ELSE IF l.ctype.t = "ptr" THEN PtrOffset(l, r) ELSE PtrOffset(r, l)

(***************************************************************************)
(* ir_gen_sub (lines 1768-1841).  Pointer - pointer is cast to int_ptr_type,*)
(* subtracted, cast to int and divided by sizeof *pointee.                *)
(***************************************************************************)
IrGenSub(l, r) ==
    CASE l.ctype.t = "int" /\ r.ctype.t = "int" ->
            LET c == ArithConv(l, r)
            IN Term(c[1].ctype, Bits(c[1].b - c[2].b, W(c[1].ctype)))
      [] r.ctype.t = "ptr" ->
            LET cast == Trunc(Bits(l.b - r.b, PtrWidth), W(IntT))
            IN Term(IntT, Bits(SDiv(Read(IntT, cast), l.ctype.size), W(IntT)))
      [] OTHER ->
            Term(l.ctype, Bits(l.b - Bits(r.b * l.ctype.size, PtrWidth), PtrWidth))

(***************************************************************************)
(* ir_gen_cmp (lines 1604-1673) for two integers: usual conversions, then  *)
(* the signed comparison is turned unsigned if the common type is.         *)
(***************************************************************************)
CmpOps == {"lt", "le", "gt", "ge", "eq", "ne"}
\* build_cmp: whether a cmp b holds of the operands' values
Holds(cmp, a, b) ==
    CASE cmp = "lt" -> a < b  [] cmp = "le" -> a <= b [] cmp = "gt" -> a > b
      [] cmp = "ge" -> a >= b [] cmp = "eq" -> a = b  [] cmp = "ne" -> a # b
\* mutant: the comparison left signed after an unsigned conversion
IrGenCmpKeepSigned(cmp, l, r) ==
    LET c == ArithConv(l, r)
        w == W(c[1].ctype)
    IN Term(IntT, IF Holds(cmp, AsSigned(c[1].b, w), AsSigned(c[2].b, w)) THEN 1 ELSE 0)
IrGenCmp(cmp, l, r) ==
    LET c == ArithConv(l, r)
        w == W(c[1].ctype)
        v(x) == IF c[1].ctype.signed THEN AsSigned(x.b, w) ELSE x.b
    IN Term(IntT, IF Holds(cmp, v(c[1]), v(c[2])) THEN 1 ELSE 0)

(***************************************************************************)
(* ir_gen_binary_operator (lines 1684-1698): + and - go to ir_gen_add and  *)
(* ir_gen_sub; the bitwise operators convert both operands to a common     *)
(* type and apply the instruction to the bit patterns.                     *)
(***************************************************************************)
BitOps == {"and", "or", "xor"}
BitInstr(op, a, b) == CASE op = "and" -> a & b [] op = "or" -> a | b [] op = "xor" -> a ^^ b
IrGenBinaryOperator(op, l, r) ==
    CASE op = "add" -> IrGenAdd(l, r)
      [] op = "sub" -> IrGenSub(l, r)
      [] OTHER -> LET c == ArithConv(l, r)
                  IN Term(c[1].ctype, BitInstr(op, c[1].b, c[2].b))

(***************************************************************************)
(* ir_gen_assign_op (lines 1496-1534) on an integer or pointer lvalue: the *)
(* load is the value before the assignment; the operator's result is       *)
(* converted back to the lvalue's type, stored, and yielded.               *)
(***************************************************************************)
AssignOps == [addassign |-> "add", subassign |-> "sub", andassign |-> "and",
              orassign |-> "or", xorassign |-> "xor"]
\* mutant: the result stored without convert_type to the lvalue's type
IrGenAssignOpUnconverted(op, l, r) == IrGenBinaryOperator(op, l, r)
IrGenAssignOp(op, l, r) == Convert(IrGenBinaryOperator(op, l, r), l.ctype)

\* ir_gen_inc_dec (lines 1843-1872): x op= 1 with 1 an int constant.
IncDecOps == {"preinc", "postinc", "predec", "postdec"}
One == [ctype |-> IntT, b |-> 1, const |-> TRUE]
IsInc(op) == op \in {"preinc", "postinc"}
IsPost(op) == op \in {"postinc", "postdec"}

(***************************************************************************)
(* What C11 says (6.3.1.1, 6.3.1.3, 6.3.1.8, 6.5.6, 6.5.8).  Values are    *)
(* mathematical integers; a pointer is its address.  A signed result out  *)
(* of range is undefined; a conversion to a signed type out of range is    *)
(* implementation-defined and taken modulo 2^w as every target does.       *)
(***************************************************************************)
Val(x) == Read(x.ctype, x.b)
Wrap(T, x) == Read(T, Bits(x, W(T)))
Promote(T) == IF Rank(T) < Rank(IntT) THEN IntT ELSE T
Usual(A0, B0) ==
    LET A == Promote(A0)
        B == Promote(B0)
        U == IF A.signed THEN B ELSE A
        S == IF A.signed THEN A ELSE B
    IN CASE A = B -> A
         [] A.signed = B.signed -> IF Rank(A) >= Rank(B) THEN A ELSE B
         [] Rank(U) >= Rank(S) -> U
         [] W(S) > W(U) -> S
         [] OTHER -> [S EXCEPT !.signed = FALSE]
\* the C value of l op r in type T, or undefined; & | ^ act on the
\* two's-complement representations (6.2.6.2)
CBinary(op, T, l, r) ==
    LET a == Wrap(T, Val(l))
        b == Wrap(T, Val(r))
        m == CASE op = "add" -> a + b
               [] op = "sub" -> a - b
               [] OTHER -> Read(T, BitInstr(op, Bits(a, W(T)), Bits(b, W(T))))
    IN IF T.signed /\ Wrap(T, m) # m THEN [ub |-> TRUE, v |-> 0]
       ELSE [ub |-> FALSE, v |-> Wrap(T, m)]
\* the value C stores by ++, --, or a compound assignment: E1 op= E2 is
\* E1 = E1 op (E2) (6.5.16.2p3), ++E is E += 1 (6.5.3.1p2)
CStored(e) ==
    LET T == e.l.ctype
        op == IF e.op \in IncDecOps THEN IF IsInc(e.op) THEN "add" ELSE "sub"
              ELSE AssignOps[e.op]
        r == IF e.op \in IncDecOps THEN One ELSE e.r
    IN IF T.t = "ptr"
       THEN [ub |-> FALSE, v |-> e.l.b + (IF op = "add" THEN 1 ELSE -1) * T.size]
       ELSE LET s == CBinary(op, Usual(T, r.ctype), e.l, r)
            IN [s EXCEPT !.v = Wrap(T, s.v)]
CResult(e) ==
    CASE e.op = "cast" -> [ub |-> FALSE, v |-> Wrap(e.to, Val(e.l))]
      [] e.op \in CmpOps ->
            LET T == Usual(e.l.ctype, e.r.ctype)
            IN [ub |-> FALSE, v |-> IF Holds(e.op, Wrap(T, Val(e.l)), Wrap(T, Val(e.r))) THEN 1 ELSE 0]
      [] e.op = "lnot" -> [ub |-> FALSE, v |-> IF Val(e.l) = 0 THEN 1 ELSE 0]
      [] e.op = "neg" ->
            LET T == Promote(e.l.ctype)
                m == -Wrap(T, Val(e.l))
            IN [ub |-> T.signed /\ Wrap(T, m) # m, v |-> Wrap(T, m)]
      [] e.op = "bitnot" ->
            LET T == Promote(e.l.ctype)
            IN [ub |-> FALSE, v |-> Read(T, 2^W(T) - 1 - Bits(Val(e.l), W(T)))]
      [] e.op \in IncDecOps \cup DOMAIN AssignOps -> CStored(e)
      [] e.l.ctype.t = "ptr" /\ e.r.ctype.t = "ptr" ->
            [ub |-> FALSE, v |-> (e.l.b - e.r.b) \div e.l.ctype.size]
      [] e.l.ctype.t = "ptr" ->
            [ub |-> FALSE, v |-> e.l.b + (IF e.op = "sub" THEN -1 ELSE 1) * Val(e.r) * e.l.ctype.size]
      [] e.r.ctype.t = "ptr" ->
            [ub |-> FALSE, v |-> e.r.b + Val(e.l) * e.r.ctype.size]
      [] OTHER -> CBinary(e.op, Usual(e.l.ctype, e.r.ctype), e.l, e.r)

(***************************************************************************)
(* The operands and expressions within the bounds.  Integer operands take  *)
(* the edge values of their type; an integer literal (type int, value >= 0) *)
(* is a constant.  Pointers point into one array of ObjLen elements, and   *)
(* only pointer arithmetic C defines (staying within the array or one past *)
(* its end) is generated.                                                  *)
(***************************************************************************)
MinOf(T) == IF T.signed THEN -(2^(W(T) - 1)) ELSE 0
MaxOf(T) == IF T.signed THEN 2^(W(T) - 1) - 1 ELSE 2^W(T) - 1
EdgeVals(T) == {MinOf(T), -1, 0, 1, MaxOf(T)} \cap MinOf(T)..MaxOf(T)
IntOps(Ts) == UNION {{Term(T, Bits(x, W(T))) : x \in EdgeVals(T)} : T \in Ts}
Literals == {[ctype |-> IntT, b |-> x, const |-> TRUE] : x \in {0, 1, MaxOf(IntT)}}
PtrOps == {Term(PtrTo(n), Base + k * n) : n \in PointeeSizes, k \in 0..ObjLen}
InObject(p, a) == a \in {Base + k * p.ctype.size : k \in 0..ObjLen}
Exprs ==
    {[op |-> "cast", l |-> x, to |-> T] : x \in IntOps(IntTypes), T \in IntTypes}
    \cup {[op |-> o, l |-> x] : o \in {"neg", "lnot"}, x \in IntOps(IntTypes)}
    \cup {[op |-> "bitnot", l |-> x] : x \in IntOps(BitNotTypes)}
    \cup {[op |-> o, l |-> x] : o \in IncDecOps, x \in IntOps(LvalueTypes)}
    \cup {e \in [op : IncDecOps, l : PtrOps] : InObject(e.l, CStored(e).v)}
    \cup {[op |-> o, l |-> x, r |-> y] : o \in {"add", "sub"} \cup BitOps \cup CmpOps
                                             \cup DOMAIN AssignOps,
                                          x \in IntOps(IntTypes),
                                          y \in IntOps(IntTypes) \cup Literals}
    \cup {e \in {[op |-> o, l |-> p, r |-> y] : o \in {"add", "sub"}, p \in PtrOps,
                                               y \in IntOps(IndexTypes) \cup Literals}
                \cup {[op |-> "add", l |-> y, r |-> p] : p \in PtrOps,
                                                        y \in IntOps(IndexTypes) \cup Literals} :
            InObject(IF e.l.ctype.t = "ptr" THEN e.l ELSE e.r, CResult(e).v)}
    \cup {e \in [op : {"sub"}, l : PtrOps, r : PtrOps] : e.l.ctype = e.r.ctype}

(***************************************************************************)
(* One expression is lowered: expr is the expression over its operands'   *)
(* terms, out the term ir_gen_expr returns for it, stored the value an     *)
(* assignment operator stores into its lvalue.                             *)
(***************************************************************************)
VARIABLES expr, out, stored
vars == <<expr, out, stored>>

Pending == Term([t |-> "pending"], 0)

Init ==
    /\ expr \in Exprs
    /\ out = Pending
    /\ stored = Pending

\* CAST_EXPR (lines 1436-1441): convert_type to the cast type.
Cast ==
    /\ out = Pending
    /\ expr.op = "cast"
    /\ out' = Convert(expr.l, expr.to)
    /\ UNCHANGED <<expr, stored>>

\* ADD_EXPR, MINUS_EXPR and the BIT_* cases through ir_gen_binary_expr
\* (lines 1112-1116, 1675-1682).
Binary ==
    /\ out = Pending
    /\ expr.op \in {"add", "sub"} \cup BitOps
    /\ out' = IrGenBinaryOperator(expr.op, expr.l, expr.r)
    /\ UNCHANGED <<expr, stored>>

\* The comparison cases through ir_gen_cmp_expr (lines 1150-1157,
\* 1595-1602), each passing the signed IrCmp.
Cmp ==
    /\ out = Pending
    /\ expr.op \in CmpOps
    /\ out' = IrGenCmp(expr.op, expr.l, expr.r)
    /\ UNCHANGED <<expr, stored>>

\* BIT_NOT_EXPR, LOGICAL_NOT_EXPR and UNARY_MINUS_EXPR (lines 1117-1143):
\* ~ applies OP_BIT_NOT to the operand and calls the result an int; ! is
\* ir_gen_cmp against the int 0; - applies OP_NEG and keeps the type.
Unary ==
    /\ out = Pending
    /\ expr.op \in {"neg", "lnot", "bitnot"}
    /\ out' = CASE expr.op = "neg" -> Term(expr.l.ctype, Bits(-expr.l.b, W(expr.l.ctype)))
                [] expr.op = "lnot" -> IrGenCmp("eq", expr.l, Term(IntT, 0))
                [] expr.op = "bitnot" -> Term(IntT, 2^W(expr.l.ctype) - 1 - expr.l.b)
    /\ UNCHANGED <<expr, stored>>

\* The compound assignment cases through ir_gen_assign_expr (lines
\* 1160-1171, 1486-1494).
AssignOp ==
    /\ out = Pending
    /\ expr.op \in DOMAIN AssignOps
    /\ stored' = IrGenAssignOp(AssignOps[expr.op], expr.l, expr.r)
    /\ out' = stored'
    /\ UNCHANGED expr

\* The increment and decrement cases (lines 1162-1165, 1843-1872): the pre
\* forms yield the stored value, the post forms the value loaded first.
IncDec ==
    /\ out = Pending
    /\ expr.op \in IncDecOps
    /\ stored' = IrGenAssignOp(IF IsInc(expr.op) THEN "add" ELSE "sub", expr.l, One)
    /\ out' = IF IsPost(expr.op) THEN expr.l ELSE stored'
    /\ UNCHANGED expr

\* The expression is lowered.
Terminated ==
    /\ out # Pending
    /\ UNCHANGED vars

Next == Cast \/ Binary \/ Cmp \/ Unary \/ AssignOp \/ IncDec \/ Terminated

Spec == Init /\ [][Next]_vars

(***************************************************************************)
(* Properties.                                                             *)
(***************************************************************************)
IsPtrExpr(e) == e.op \in {"add", "sub"} /\ (e.l.ctype.t = "ptr" \/ e.r.ctype.t = "ptr")
IsStore(e) == e.op \in IncDecOps \cup DOMAIN AssignOps

\* An integer cast, sum, difference, bitwise operation, negation, ~ or !,
\* read as the type the lowering gives it, has the value C gives it
\* whenever C defines one: convert_type's truncate/sign-/zero-extend choice,
\* the common type do_arithmetic_conversions picks and the result type each
\* case of ir_gen_expr gives decide it.
IntArithMatchesC ==
    out # Pending /\ expr \in Exprs /\ expr.op \notin CmpOps /\ ~IsPtrExpr(expr) /\ ~IsStore(expr)
      /\ ~CResult(expr).ub
        => Val(out) = CResult(expr).v

\* An integer comparison yields 1 exactly when C's comparison in the common
\* type holds: ir_gen_cmp must turn the signed IrCmp its callers pass into
\* the unsigned one when the converted operands are unsigned.
CmpMatchesC ==
    out # Pending /\ expr.op \in CmpOps => out.b = CResult(expr).v

\* p + i, i + p and p - i give the address of the element i places on
\* (C11 6.5.6p8) and p - q the number of elements between them (6.5.6p9),
\* whether i is a literal (OP_FIELD) or a run-time value (OP_ZEXT, OP_MUL).
PtrArithMatchesC ==
    out # Pending /\ IsPtrExpr(expr) => Val(out) = CResult(expr).v

\* ++, --, and the compound assignments store into an integer or pointer
\* lvalue the value C gives it, the result converted back to the lvalue's
\* type, also for char and short lvalues; they yield that value, except
\* x++ and x--, which yield the value ir_gen_assign_op loaded before.
AssignMatchesC ==
    out # Pending /\ IsStore(expr) /\ ~CStored(expr).ub =>
      /\ Val(stored) = CStored(expr).v
      /\ Val(out) = IF IsPost(expr.op) THEN Val(expr.l) ELSE CStored(expr).v

=============================================================================
