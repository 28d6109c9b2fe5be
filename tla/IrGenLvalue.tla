----------------------------- MODULE IrGenLvalue -----------------------------
(***************************************************************************)
(* Object access in src/src/ir_gen.c: the IDENTIFIER_EXPR, DEREF_EXPR,     *)
(* INDEX_EXPR, STRUCT_DOT_FIELD_EXPR, STRUCT_ARROW_FIELD_EXPR,             *)
(* ADDRESS_OF_EXPR and INT_LITERAL_EXPR cases of ir_gen_expr, with         *)
(* ir_gen_struct_field and ir_gen_deref.  An access expression is lowered  *)
(* in r-value or l-value context against a fixed translation unit:         *)
(*                                                                         *)
(*   struct S { int i; int v[2]; };                                        *)
(*   int x = 1; int a[2] = {2, 3}; struct S s = {4, {5, 6}};               *)
(*   int *p = &a[1]; struct S *q = &s; enum { E = 3 }; int f(void);        *)
(*                                                                         *)
(* and the address or value its IR computes is compared with the object    *)
(* C designates and the value C reads from it.  The module joins the       *)
(* arithmetic expressions of IrGenArith, whose ir_gen_add INDEX_EXPR uses. *)
(***************************************************************************)
EXTENDS IrGenArith, SequencesExt

CONSTANTS
    IntSize,   \* sizeof(int)
    PtrSize,   \* sizeof of a pointer
    LvBase,    \* address of the first global of the translation unit
    LvDepth,   \* nesting depth of the access expressions lowered
    FnDerefs   \* whether *f and *&f, of function type, are lowered

(***************************************************************************)
(* C types and their layout (c_type.c, outside src/): struct fields in     *)
(* order without padding (all are int-aligned here).                       *)
(***************************************************************************)
FnT == [t |-> "fn"]
CSize(T) ==
    CASE T.t = "int" -> IntSize [] T.t = "ptr" -> PtrSize
      [] T.t = "array" -> T.len * T.esize [] T.t = "struct" -> T.size
      [] T.t = "fn" -> 1
ArrayOf(T, n) == [t |-> "array", elem |-> T, len |-> n, esize |-> CSize(T)]
PtrOf(T) == [t |-> "ptr", size |-> CSize(T), to |-> T]
RECURSIVE PrefixSize(_, _)
\* the bytes taken by the first k - 1 of a sequence of declarations
PrefixSize(ds, k) == IF k = 1 THEN 0 ELSE PrefixSize(ds, k - 1) + CSize(ds[k - 1].type)
SFields == <<[name |-> "i", type |-> IntT], [name |-> "v", type |-> ArrayOf(IntT, 2)]>>
S == [t |-> "struct", fields |-> SFields, size |-> PrefixSize(SFields, 3)]

\* the file-scope objects, laid out from LvBase, and the function after them
Decls == <<[name |-> "x", type |-> IntT], [name |-> "a", type |-> ArrayOf(IntT, 2)],
           [name |-> "s", type |-> S], [name |-> "p", type |-> PtrOf(IntT)],
           [name |-> "q", type |-> PtrOf(S)]>>
DeclAddr(k) == LvBase + PrefixSize(Decls, k)
FnAddr == LvBase + PrefixSize(Decls, Len(Decls) + 1)
EnumE == 3

\* the bindings of the file scope (add_decl_to_scope): a variable or the
\* function is bound to its address, the enumerator to its constant
Bindings ==
    {[name |-> Decls[k].name, constant |-> FALSE,
      term |-> Term(Decls[k].type, DeclAddr(k))] : k \in DOMAIN Decls}
    \cup {[name |-> "f", constant |-> FALSE, term |-> Term(FnT, FnAddr)],
          [name |-> "E", constant |-> TRUE, term |-> [ctype |-> IntT, b |-> EnumE, const |-> TRUE]]}
Names == {bd.name : bd \in Bindings}
\* binding_for_name, every name here bound at file scope
BindingFor(n) == CHOOSE bd \in Bindings : bd.name = n

(***************************************************************************)
(* The objects of the program: every global, element and member, as        *)
(* [a |-> address, t |-> type], and the memory of its scalar objects.      *)
(***************************************************************************)
RECURSIVE SubObjects(_, _)
SubObjects(ad, T) ==
    {[a |-> ad, t |-> T]}
    \cup CASE T.t = "array" -> UNION {SubObjects(ad + i * T.esize, T.elem) : i \in 0..T.len - 1}
           [] T.t = "struct" -> UNION {SubObjects(ad + PrefixSize(T.fields, k), T.fields[k].type) :
                                          k \in DOMAIN T.fields}
           [] OTHER -> {}
Objects == UNION {SubObjects(DeclAddr(k), Decls[k].type) : k \in DOMAIN Decls}
           \cup {[a |-> FnAddr, t |-> FnT]}
Cells == {o.a : o \in {c \in Objects : c.t.t \in {"int", "ptr"}}}
\* x, a[0], a[1], s.i, s.v[0], s.v[1] hold 1..6; p holds &a[1], q holds &s
Mem == [c \in Cells |-> CASE c = DeclAddr(4) -> DeclAddr(2) + IntSize
                          [] c = DeclAddr(5) -> DeclAddr(3)
                          [] OTHER -> (c - LvBase) \div IntSize + 1]
\* build_load: what the IR reads at an address; -1 where no scalar is
Load(ad) == IF ad \in Cells THEN Mem[ad] ELSE -1
\* build_field on a struct: the address of field k
BuildField(ad, T, k) == ad + PrefixSize(T.fields, k)

\* an assertion of ir_gen_expr failing
Abort == Term([t |-> "abort"], 0)
NotLoaded == {"fn", "array", "struct"}

(***************************************************************************)
(* ir_gen_expr on the access expressions.                                  *)
(***************************************************************************)
\* IDENTIFIER_EXPR (lines 1003-1031): functions, arrays and structs, and
\* anything in l-value context, give the bound address; an enumerator its
\* constant; a scalar variable a load.
IrGenIdent(n, ctx) ==
    LET bd == BindingFor(n)
    IN IF ctx = "lvalue" \/ bd.term.ctype.t \in NotLoaded
       THEN IF bd.constant THEN Abort ELSE bd.term
       ELSE IF bd.constant THEN bd.term ELSE Term(bd.term.ctype, Load(bd.term.b))

\* mutant: the field loaded whatever its type
IrGenStructFieldLoadAll(st, f, ctx) ==
    LET T == IF st.ctype.t = "ptr" THEN st.ctype.to ELSE st.ctype
        k == CHOOSE i \in DOMAIN T.fields : T.fields[i].name = f
        ad == BuildField(st.b, T, k)
    IN Term(T.fields[k].type, IF ctx = "rvalue" THEN Load(ad) ELSE ad)
\* ir_gen_struct_field (lines 1536-1573): the field is found by name, its
\* address taken with build_field and, in r-value context, a scalar loaded.
IrGenStructField(st, f, ctx) ==
    LET T == IF st.ctype.t = "ptr" THEN st.ctype.to ELSE st.ctype
        k == CHOOSE i \in DOMAIN T.fields : T.fields[i].name = f
        ad == BuildField(st.b, T, k)
    IN Term(T.fields[k].type,
            IF ctx = "rvalue" /\ T.fields[k].type.t \notin {"struct", "array"}
            THEN Load(ad) ELSE ad)

\* ir_gen_deref (lines 1575-1594): in r-value context a pointee that is not
\* a struct or an array is loaded.
IrGenDeref(p, ctx) ==
    LET T == DecayToPointer(p).ctype.to
    IN Term(T, IF ctx = "lvalue" \/ T.t \in {"struct", "array"} THEN p.b ELSE Load(p.b))

LvalueKinds == {"id", "dot", "arrow", "index", "deref"}
\* ir_gen_expr (lines 964-980, 1003-1077): l-value context is checked, then
\* each case lowers its operands in the context it names.
RECURSIVE IrGenAccess(_, _)
IrGenAccess(e, ctx) ==
    IF ctx = "lvalue" /\ e.k \notin LvalueKinds THEN Abort
    ELSE CASE e.k = "id" -> IrGenIdent(e.n, ctx)
           [] e.k \in {"dot", "arrow"} -> IrGenStructField(IrGenAccess(e.e, "rvalue"), e.f, ctx)
           [] e.k = "addr" -> LET t == IrGenAccess(e.e, "lvalue")
                              IN [t EXCEPT !.ctype = PtrOf(t.ctype)]
           [] e.k = "deref" -> IrGenDeref(IrGenAccess(e.e, "rvalue"), ctx)
           [] e.k = "index" -> IrGenDeref(IrGenAdd(IrGenAccess(e.e, "rvalue"),
                                                   IrGenAccess(e.i, "rvalue")), ctx)
           [] e.k = "lit" -> [ctype |-> IntT, b |-> e.v, const |-> TRUE]

(***************************************************************************)
(* What C11 says (6.3.2.1, 6.5.2.1, 6.5.2.3, 6.5.3.2): the type of an      *)
(* access expression, the object (or function) it designates, and its      *)
(* value, where an array, struct or function is its address as the IR     *)
(* represents aggregates.                                                  *)
(***************************************************************************)
Pointee(T) == IF T.t = "array" THEN T.elem ELSE T.to
FieldNo(T, f) == CHOOSE k \in DOMAIN T.fields : T.fields[k].name = f
DeclNo(n) == CHOOSE k \in DOMAIN Decls : Decls[k].name = n
RECURSIVE CType(_), CObj(_), CVal(_)
\* of an index expression, the operand of pointer or array type and the other
PtrSide(e) == IF CType(e.e).t = "int" THEN e.i ELSE e.e
IntSide(e) == IF CType(e.e).t = "int" THEN e.e ELSE e.i
CType(e) ==
    CASE e.k = "id" -> IF e.n = "f" THEN FnT ELSE IF e.n = "E" THEN IntT ELSE Decls[DeclNo(e.n)].type
      [] e.k = "deref" -> Pointee(CType(e.e))
      [] e.k = "index" -> Pointee(CType(PtrSide(e)))
      [] e.k = "dot" -> CType(e.e).fields[FieldNo(CType(e.e), e.f)].type
      [] e.k = "arrow" -> CType(e.e).to.fields[FieldNo(CType(e.e).to, e.f)].type
      [] e.k = "addr" -> PtrOf(CType(e.e))
      [] e.k = "lit" -> IntT
CObj(e) ==
    CASE e.k = "id" -> IF e.n = "f" THEN FnAddr ELSE DeclAddr(DeclNo(e.n))
      [] e.k = "deref" -> CVal(e.e)
      [] e.k = "index" -> CVal(PtrSide(e)) + CVal(IntSide(e)) * CSize(CType(e))
      [] e.k = "dot" -> CObj(e.e) + PrefixSize(CType(e.e).fields, FieldNo(CType(e.e), e.f))
      [] e.k = "arrow" -> CVal(e.e) + PrefixSize(CType(e.e).to.fields, FieldNo(CType(e.e).to, e.f))
CVal(e) ==
    CASE e.k = "id" /\ e.n = "E" -> EnumE
      [] e.k = "lit" -> e.v
      [] e.k = "addr" -> CObj(e.e)
      [] CType(e).t \in NotLoaded -> CObj(e)
      [] OTHER -> Mem[CObj(e)]

(***************************************************************************)
(* The access expressions C defines, up to LvDepth levels: every * [] and  *)
(* -> reaches an object of the program (no index runs past an array), & is *)
(* applied to l-values only, an index is a variable, an enumerator or a    *)
(* literal, and a pointer to an array is indexed by 0 only (the IR's       *)
(* scaling of other constants depends on c_type.c).                       *)
(***************************************************************************)
\* the index operands: the variable x, the enumerator E and the literals 0, 1
IntLeaves == {[k |-> "id", n |-> "x"], [k |-> "id", n |-> "E"], [k |-> "lit", v |-> 0], [k |-> "lit", v |-> 1]}
Designates(e) == [a |-> CObj(e), t |-> CType(e)] \in Objects
IsLvalue(e) == e.k \in LvalueKinds /\ e # [k |-> "id", n |-> "E"] /\ Designates(e)
Derefable(e) ==
    /\ CType(e).t \in {"ptr", "array"}
    /\ Pointee(CType(e)).t = "fn" => FnDerefs
IndexOK(e) ==
    /\ {CType(e.e).t, CType(e.i).t} \in {{"ptr", "int"}, {"array", "int"}}
    /\ Pointee(CType(PtrSide(e))).t # "fn"
    /\ Pointee(CType(PtrSide(e))).t = "array" => IntSide(e) = [k |-> "lit", v |-> 0]
    /\ Designates(e)
Step(P) ==
    P \cup {e \in [k : {"deref"}, e : P] : Derefable(e.e) /\ Designates(e)}
      \cup {e \in [k : {"index"}, e : P, i : IntLeaves] \cup [k : {"index"}, e : IntLeaves, i : P] :
              IndexOK(e)}
      \cup {[k |-> "dot", e |-> d, f |-> fd.name] : d \in {d \in P : CType(d).t = "struct"},
                                                  fd \in ToSet(S.fields)}
      \cup {[k |-> "arrow", e |-> d, f |-> fd.name] : d \in {d \in P : CType(d) = PtrOf(S)},
                                                    fd \in ToSet(S.fields)}
      \cup {[k |-> "addr", e |-> d] : d \in {d \in P : IsLvalue(d)}}
RECURSIVE AccessAsts(_)
AccessAsts(d) ==
    IF d = 0 THEN {[k |-> "id", n |-> n] : n \in Names} \cup IntLeaves
    ELSE Step(AccessAsts(d - 1))
AccessExprs ==
    LET A == AccessAsts(LvDepth)
    IN [op : {"access"}, e : A, ctx : {"rvalue"}]
       \cup [op : {"access"}, e : {e \in A : IsLvalue(e)}, ctx : {"lvalue"}]

(***************************************************************************)
(* The arithmetic expressions of IrGenArith and the access expressions.    *)
(***************************************************************************)
LvInit ==
    /\ expr \in Exprs \cup AccessExprs
    /\ out = Pending
    /\ stored = Pending

\* ir_gen_expr called on an access expression in the context its caller
\* names (r-value for an operand, l-value for the operand of & or of an
\* assignment).
Access ==
    /\ out = Pending
    /\ expr.op = "access"
    /\ out' = IrGenAccess(expr.e, expr.ctx)
    /\ UNCHANGED <<expr, stored>>

LvNext == Next \/ Access

LvSpec == LvInit /\ [][LvNext]_vars

\* An identifier, *, [], ., -> or & expression lowered in l-value context
\* yields the address of the object C designates, and in r-value context
\* the value C reads (an aggregate's or a function's address), both with
\* C's type: which of the nested ir_gen_expr calls load and which keep an
\* address (the NotLoaded tests of IDENTIFIER_EXPR, ir_gen_struct_field and
\* ir_gen_deref, and the decay in ir_gen_add) decides it.
AccessMatchesC ==
    out # Pending /\ expr.op = "access" =>
      /\ out.ctype = CType(expr.e)
      /\ out.b = IF expr.ctx = "lvalue" THEN CObj(expr.e) ELSE CVal(expr.e)
====
