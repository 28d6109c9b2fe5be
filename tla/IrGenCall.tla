------------------------------ MODULE IrGenCall ------------------------------
(***************************************************************************)
(* The calling convention of src/src/ir_gen.c, caller and callee together: *)
(* FUNCTION_CALL_EXPR (lines 1180-1281) builds the IR argument array, with *)
(* a pointer to a caller-allocated local first when the function returns a *)
(* struct, converts each argument to its parameter type and passes structs *)
(* by address; ir_gen_function (lines 540-578) binds each parameter to a   *)
(* local and assigns it IR argument i, or i + 1 after a struct return      *)
(* pointer (a memcpy for a struct); RETURN_STATEMENT (lines 632-650)       *)
(* copies a struct result through that pointer, or returns the value       *)
(* converted to the return type.  The two sides are lowered separately and *)
(* must agree on the layout.  One call of a function of the globals of     *)
(* IrGenLvalue, with the body                                              *)
(*                                                                         *)
(*     { [p1.i = 7;] return R; }                                           *)
(*                                                                         *)
(* is run against C: the callee sees copies of its arguments converted to  *)
(* its parameter types, and the caller the returned value.                 *)
(***************************************************************************)
EXTENDS IrGenLvalue

CONSTANTS
    RetLocal,    \* address of the caller's local for a struct return
    CalleeBase   \* address of the callee's first parameter local

CharT == IntType("char", TRUE)
LongT == IntType("long", TRUE)
\* the parameter types, and the arguments C allows for each
ParamTypes == {IntT, CharT, LongT, S}
IntArgs == {[k |-> "id", n |-> "x"], [k |-> "dot", e |-> [k |-> "id", n |-> "s"], f |-> "i"],
            [k |-> "id", n |-> "E"]}
StructArgs == {[k |-> "id", n |-> "s"], [k |-> "deref", e |-> [k |-> "id", n |-> "q"]]}
ArgsFor(P) == IF P = S THEN StructArgs ELSE IntArgs
\* the expression R returned: a parameter, the global s, or the literal 5
RetExprs == {"p1", "p2", "s", "lit"}

\* a parameter's local: one slot per parameter, each the size of S
ParamAddr(i) == CalleeBase + (i - 1) * CSize(S)
SlotCells(ad) == {ad + j * IntSize : j \in 0..CSize(S) \div IntSize - 1}
LocalCells == SlotCells(RetLocal) \cup SlotCells(ParamAddr(1)) \cup SlotCells(ParamAddr(2))
\* the memory of the globals and of the locals (uninitialised: -1)
Mem0 == [c \in Cells \cup LocalCells |-> IF c \in Cells THEN Mem[c] ELSE -1]
\* the builtin memcpy of a struct S from src to dst
Memcpy(m, dst, src) ==
    [c \in DOMAIN m |-> IF c \in SlotCells(dst) THEN m[c - dst + src] ELSE m[c]]
\* the contents of the struct S at address ad
SVal(m, ad) == [j \in 0..CSize(S) \div IntSize - 1 |-> m[ad + j * IntSize]]

(***************************************************************************)
(* The calls: a signature with up to two parameters, an argument for each, *)
(* the callee named as f or &f, and the body.                              *)
(***************************************************************************)
IsStructRet(c) == c.ret = S
\* the parameter R names, or 0
RetParam(c) == CASE c.r = "p1" -> 1 [] c.r = "p2" -> 2 [] OTHER -> 0
RetExprType(c) == CASE RetParam(c) # 0 -> c.params[RetParam(c)]
                    [] c.r = "s" -> S
                    [] c.r = "lit" -> IntT
Calls ==
    {c \in [params : UNION {[1..n -> ParamTypes] : n \in 0..2}, ret : {IntT, CharT, S},
            args : UNION {[1..n -> IntArgs \cup StructArgs] : n \in 0..2},
            callee : {"f", "&f"}, write : BOOLEAN, r : RetExprs] :
        /\ DOMAIN c.args = DOMAIN c.params
        /\ \A i \in DOMAIN c.params : c.args[i] \in ArgsFor(c.params[i])
        /\ RetParam(c) \in {0} \cup DOMAIN c.params
        /\ (RetExprType(c) = S) = (c.ret = S)
        /\ c.write => Len(c.params) >= 1 /\ c.params[1] = S}

\* the call is expr.c of the expression variable of IrGenArith; out is the
\* Term the call yields
VARIABLES
    phase,   \* "idle" (no call) | "call" | "prologue" | "body" | "ret" | "done"
    args,    \* the IR argument array of build_call
    binds,   \* the callee's parameter bindings (Terms of their locals)
    mem,     \* memory: globals and locals, cell by cell
    retv     \* the value ret hands back (unused for a struct return)
callVars == <<phase, args, binds, mem, retv>>
allVars == <<vars, callVars>>

Shift(c) == IF IsStructRet(c) THEN 1 ELSE 0

(***************************************************************************)
(* The caller: FUNCTION_CALL_EXPR up to build_call (lines 1219-1268).      *)
(***************************************************************************)
\* the callee term's function type: a pointer to a function is stripped
CalleeFnType(t) == IF t.ctype.t # "fn" THEN t.ctype.to ELSE t.ctype
CalleeExpr(c) ==
    IF c.callee = "f" THEN [k |-> "id", n |-> "f"]
    ELSE [k |-> "addr", e |-> [k |-> "id", n |-> "f"]]
\* arg_array: the return local first for a struct return, then each
\* argument lowered as an r-value and converted to its parameter type
ArgArray(c) ==
    [j \in 1..Len(c.params) + Shift(c) |->
        IF j <= Shift(c) THEN Term(PtrOf(S), RetLocal)
        ELSE Convert(IrGenAccess(c.args[j - Shift(c)], "rvalue"), c.params[j - Shift(c)])]
CallBegin ==
    /\ phase = "call"
    /\ CalleeFnType(IrGenAccess(CalleeExpr(expr.c), "rvalue")) = FnT
    /\ args' = ArgArray(expr.c)
    /\ phase' = "prologue"
    /\ UNCHANGED <<expr, out, stored, binds, mem, retv>>

(***************************************************************************)
(* The callee: the parameter loop of ir_gen_function (lines 540-578).      *)
(***************************************************************************)
\* mutant: the IR argument index not moved past the struct return pointer
IrArgIndexNoShift(c, i) == i
\* ir_arg_index: i, or i + 1 when the function returns a struct
IrArgIndex(c, i) == i + Shift(c)
\* mutant: a struct parameter bound to the caller's object, not a local
ParamBindByAddress(c, i, av) ==
    IF c.params[i] = S THEN Term(S, av[IrArgIndex(c, i)].b) ELSE Term(c.params[i], ParamAddr(i))
\* cdecl_to_binding: each parameter gets a local of its type
ParamBind(c, i, av) == Term(c.params[i], ParamAddr(i))
\* ir_gen_assign_op(binding->term, value_arg(ir_arg_index)): a memcpy for a
\* struct, else a store (convert_type to the parameter's own type is a no-op)
AssignArg(m, P, dst, v) ==
    IF P = S THEN Memcpy(m, dst, v) ELSE [m EXCEPT ![dst] = Convert(Term(P, v), P).b]
RECURSIVE AssignParams(_, _, _, _)
AssignParams(m, c, bs, i) ==
    IF i > Len(c.params) THEN m
    ELSE AssignParams(AssignArg(m, c.params[i], bs[i].b, args[IrArgIndex(c, i)].b), c, bs, i + 1)
Prologue ==
    /\ phase = "prologue"
    /\ LET c == expr.c
           bs == [i \in DOMAIN c.params |-> ParamBind(c, i, args)]
       IN /\ binds' = bs
          /\ mem' = AssignParams(mem, c, bs, 1)
    /\ phase' = "body"
    /\ UNCHANGED <<expr, out, stored, args, retv>>

(***************************************************************************)
(* The callee's body: p1.i = 7 through ir_gen_struct_field in l-value      *)
(* context and ir_gen_assign_op, then RETURN_STATEMENT (lines 632-650).    *)
(***************************************************************************)
\* R lowered as an r-value: a struct is its address, a scalar a load
ReturnTerm(c, m) ==
    CASE RetParam(c) # 0 ->
            LET b == binds[RetParam(c)]
            IN IF b.ctype = S THEN b ELSE Term(b.ctype, m[b.b])
      [] c.r = "s" -> Term(S, DeclAddr(3))
      [] c.r = "lit" -> [ctype |-> IntT, b |-> 5, const |-> TRUE]
Body ==
    /\ phase = "body"
    /\ LET c == expr.c
           m1 == IF c.write THEN [mem EXCEPT ![BuildField(binds[1].b, S, 1)] = 7] ELSE mem
           t == ReturnTerm(c, m1)
       IN IF t.ctype = S
          THEN /\ mem' = Memcpy(m1, args[1].b, t.b)
               /\ UNCHANGED retv
          ELSE /\ mem' = m1
               /\ retv' = Convert(t, c.ret).b
    /\ phase' = "ret"
    /\ UNCHANGED <<expr, out, stored, args, binds>>

\* The caller after build_call (lines 1270-1281): a struct return yields
\* the local the callee copied into.
CallEnd ==
    /\ phase = "ret"
    /\ out' = Term(expr.c.ret, IF IsStructRet(expr.c) THEN RetLocal ELSE retv)
    /\ phase' = "done"
    /\ UNCHANGED <<expr, stored, args, binds, mem, retv>>

(***************************************************************************)
(* The expressions of IrGenLvalue, or one call.                            *)
(***************************************************************************)
CallFrame0 == args = <<>> /\ binds = <<>> /\ mem = Mem0 /\ retv = 0
AllInit ==
    \/ LvInit /\ phase = "idle" /\ CallFrame0
    \/ /\ expr \in [op : {"call"}, c : Calls] /\ out = Pending /\ stored = Pending
       /\ phase = "call" /\ CallFrame0
AllNext == (LvNext /\ UNCHANGED callVars) \/ CallBegin \/ Prologue \/ Body \/ CallEnd
AllSpec == AllInit /\ [][AllNext]_allVars

(***************************************************************************)
(* What C11 says (6.5.2.2p4, p7; 6.8.6.4p3): each parameter is an object  *)
(* of its own, assigned the argument converted to its type; the call's     *)
(* value is R converted to the return type.                                *)
(***************************************************************************)
CArg(c, i) ==
    IF c.params[i] = S THEN SVal(Mem0, CObj(c.args[i])) ELSE Wrap(c.params[i], CVal(c.args[i]))
CParam(c, i) == IF i = 1 /\ c.write THEN [CArg(c, 1) EXCEPT ![0] = 7] ELSE CArg(c, i)
CRet(c) ==
    CASE RetParam(c) # 0 ->
            IF c.ret = S THEN CParam(c, RetParam(c)) ELSE Wrap(c.ret, CParam(c, RetParam(c)))
      [] c.r = "s" -> SVal(Mem0, DeclAddr(3))
      [] c.r = "lit" -> Wrap(c.ret, 5)
\* a parameter's value in the callee
IrParam(i) ==
    IF binds[i].ctype = S THEN SVal(mem, binds[i].b) ELSE Read(binds[i].ctype, mem[binds[i].b])

\* When the callee's body starts, each parameter holds the caller's
\* argument converted to the parameter's type (a struct, its contents):
\* the caller's arg_array and the callee's ir_arg_index must agree on where
\* each argument is, also behind the struct return pointer.
ParamsMatchC ==
    phase = "body" => \A i \in DOMAIN expr.c.params : IrParam(i) = CArg(expr.c, i)

\* After the call the caller holds the value C returns, converted to the
\* return type (a struct through its local), and no object of the caller
\* has changed: a struct argument is copied into the callee's own local
\* before the body assigns to it.
CallMatchesC ==
    phase = "done" =>
      /\ (IF expr.c.ret = S THEN SVal(mem, out.b) ELSE Val(out)) = CRet(expr.c)
      /\ \A c \in Cells : mem[c] = Mem[c]
====
