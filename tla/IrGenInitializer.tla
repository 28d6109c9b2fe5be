-------------------------- MODULE IrGenInitializer --------------------------
(***************************************************************************)
(* The initializer compiler of src/src/ir_gen.c.  make_c_initializer turns *)
(* a brace, designated or string initializer into a CInitializer tree;     *)
(* a global is then compiled to a constant by const_gen_c_init, a local to *)
(* an optional memset (unless is_full_initializer) and the stores of       *)
(* ir_gen_c_init.  Both are checked against what C says the object holds   *)
(* and against each other (spec 8).                                        *)
(*                                                                         *)
(* Memory is abstracted to cells: every scalar occupies one cell, so an    *)
(* object of type T has SizeOf(T) cells; struct padding is not modelled.   *)
(* A CInitializer is a record [type, kind, val, sub]: sub = <<>> is a NULL *)
(* sub_elems, type = NoType the NULL type of a memset-zero slot.           *)
(***************************************************************************)
EXTENDS Naturals, Integers, Sequences, SequencesExt

CONSTANTS
    Types,     \* C types of the declared objects
    Vals,      \* nonzero scalar values written in initializers
    PtrInits,  \* pointer initializers: "null" (the literal 0), "addr" (&g)
    StrLens,   \* lengths of the string literals used for char arrays
    MaxElems,  \* bound on the elements of one brace list
    MaxDesig,  \* bound on the designators of one element (.a.b has two)
    MaxBraces  \* bound on the nesting of brace lists

ASSUME MaxElems \in Nat \ {0} /\ MaxDesig \in Nat /\ MaxBraces \in Nat

IntT == [t |-> "int"]
CharT == [t |-> "char"]
PtrT == [t |-> "ptr"]
AddrOfG == 7          \* the address of a global g, as a cell value
NoType == [t |-> "null"]
Junk == -1            \* an automatic object's cell before any store
IsScalar(T) == T.t \in {"int", "char", "ptr"}
IsAggregate(T) == T.t \in {"struct", "array"}

(***************************************************************************)
(* Type queries (c_type.c, outside src/).                                  *)
(***************************************************************************)
\* c_type_num_fields
NumFields(T) == IF T.t = "array" THEN T.size ELSE Len(T.fields)
\* the type of member i (0-based) of an aggregate
MemberType(T, i) == IF T.t = "array" THEN T.elem ELSE T.fields[i + 1]
\* c_type_size, in cells
RECURSIVE SizeOf(_)
SizeOf(T) ==
    CASE IsScalar(T) -> 1
      [] T.t = "array" -> T.size * SizeOf(T.elem)
      [] OTHER -> FoldLeft(LAMBDA acc, F : acc + SizeOf(F), 0, T.fields)
\* offset of member i (0-based) in cells
MemberOffset(T, i) ==
    IF T.t = "array" THEN i * SizeOf(T.elem)
    ELSE FoldLeft(LAMBDA acc, F : acc + SizeOf(F), 0, SubSeq(T.fields, 1, i))
Zeros(n) == [k \in 1..n |-> 0]

(***************************************************************************)
(* CInitializer trees and paths of 0-based member indices into them.       *)
(***************************************************************************)
ZeroNode == [type |-> NoType, kind |-> "compound", val |-> 0, sub |-> <<>>]
LeafNode(T, v) == [type |-> T, kind |-> "leaf", val |-> v, sub |-> <<>>]
AbortNode == [type |-> [t |-> "abort"], kind |-> "leaf", val |-> 0, sub |-> <<>>]
UbNode == [type |-> [t |-> "ub"], kind |-> "leaf", val |-> 0, sub |-> <<>>]
Bad(n) == n.type.t \in {"abort", "ub"}
\* pool_alloc + memset of n sub_elems
ZeroSubs(n) == [k \in 1..n |-> ZeroNode]
HasSub(n, i) == i + 1 \in 1..Len(n.sub)
\* c_init->u.sub_elems + i; a read past the allocation yields zero
SubAt(n, i) == IF HasSub(n, i) THEN n.sub[i + 1] ELSE ZeroNode
RECURSIVE NodeAt(_, _)
NodeAt(n, p) == IF p = <<>> THEN n ELSE NodeAt(SubAt(n, Head(p)), Tail(p))
RECURSIVE PutAt(_, _, _)
PutAt(n, p, c) ==
    IF p = <<>> THEN c
    ELSE [n EXCEPT !.sub[Head(p) + 1] = PutAt(n.sub[Head(p) + 1], Tail(p), c)]
\* every path in the tree is allocated
RECURSIVE InTree(_, _)
InTree(n, p) == p = <<>> \/ (HasSub(n, Head(p)) /\ InTree(SubAt(n, Head(p)), Tail(p)))

\* 0, 1, .., n-1 as a sequence, for the code's index loops
Upto(n) == [k \in 1..n |-> k - 1]

(***************************************************************************)
(* infer_array_size_from_initializer (lines 2665-2702): an incomplete      *)
(* array gets max_index + 1 elements, counting [k] designators, or the     *)
(* string length + 1.                                                      *)
(***************************************************************************)
RECURSIVE MaxIndex(_, _, _)
MaxIndex(es, current, max) ==
    IF es = <<>> THEN max
    ELSE LET c == IF Head(es).des # <<>> THEN Head(es).des[1] ELSE current + 1
         IN MaxIndex(Tail(es), c, IF c > max THEN c ELSE max)
Infer(T, a) ==
    IF T.t # "array" \/ ~T.incomplete THEN T
    ELSE [T EXCEPT !.incomplete = FALSE,
                   !.size = IF a.t = "brace" THEN MaxIndex(a.elems, -1, -1) + 1
                            ELSE Len(a.chars) + 1]

(***************************************************************************)
(* make_c_initializer (lines 2443-2598).  Designate is the designator     *)
(* walk of one element, Elems the loop over the elements of a brace list.  *)
(* curr_elem_index lives across elements: after a designator list it holds *)
(* the index chosen by the LAST designator, while containing_init is reset *)
(* to the brace's own node.  A write through sub_elems + i beyond the      *)
(* allocation is UbNode.                                                   *)
(***************************************************************************)
RECURSIVE Make(_, _, _, _), Elems(_, _, _, _), Designate(_, _, _, _, _)
Designate(n, ds, cont, cur, idx) ==
    IF ds = <<>> THEN [n |-> n, cont |-> cont, idx |-> idx, ub |-> FALSE]
    ELSE LET i == Head(ds)
             ft == MemberType(NodeAt(n, cur).type, i)
             p == Append(cont, i)
             m == [NodeAt(n, p) EXCEPT !.type = ft]
             alloc == IF IsAggregate(ft) /\ m.sub = <<>>
                      THEN [m EXCEPT !.sub = ZeroSubs(NumFields(ft))] ELSE m
         IN IF ~HasSub(NodeAt(n, cont), i)
            THEN [n |-> n, cont |-> cont, idx |-> i, ub |-> TRUE]
            ELSE Designate(PutAt(n, p, alloc), Tail(ds),
                           IF Tail(ds) # <<>> THEN p ELSE cont, p, i)
Elems(es, cst, n, idx) ==
    IF es = <<>> THEN n
    ELSE LET d == Designate(n, Head(es).des, <<>>, <<>>, idx)
             box == NodeAt(d.n, d.cont)
             c == Make(MemberType(box.type, d.idx), Head(es).init, cst,
                       SubAt(box, d.idx))
         IN CASE d.ub \/ ~HasSub(box, d.idx) -> UbNode
              [] Bad(c) -> c
              [] OTHER -> Elems(Tail(es), cst,
                                PutAt(d.n, Append(d.cont, d.idx), c), d.idx + 1)
\* cst (const_context) selects eval_constant_expr or ir_gen_expr +
\* convert_type; both reject a non-scalar target (UNIMPLEMENTED).  The
\* IrConst of eval_constant_expr has the IR type of the expression (int
\* for a literal, pointer for &g), and the switch on the target type
\* asserts IR_INT for an integer target and IR_POINTER for a pointer one.
LeafFor(T, a, cst) ==
    IF cst /\ a.ty # (IF T.t = "ptr" THEN "ptr" ELSE "int")
    THEN AbortNode
    ELSE LeafNode(T, a.v)
Make(T, a, cst, node) ==
    CASE T.t = "array" /\ a.t = "string" ->
            [node EXCEPT !.type = T, !.kind = "compound",
                         !.sub = [k \in 1..Len(a.chars) + 1 |->
                                   LeafNode(CharT, IF k <= Len(a.chars)
                                                   THEN a.chars[k] ELSE 0)]]
      [] a.t = "brace" ->
            IF IsAggregate(T)
            THEN Elems(a.elems, cst,
                       [node EXCEPT !.type = T, !.sub = ZeroSubs(NumFields(T))], 0)
            ELSE AbortNode
      [] OTHER -> IF IsScalar(T) THEN LeafFor(T, a, cst) ELSE AbortNode

\* the string case allocates len + 1 sub_elems whatever the array's size
RECURSIVE ShortAlloc(_)
ShortAlloc(n) ==
    /\ n.kind = "compound"
    /\ IsAggregate(n.type)
    /\ \/ Len(n.sub) < NumFields(n.type)
       \/ \E i \in 1..Len(n.sub) : ShortAlloc(n.sub[i])

(***************************************************************************)
(* is_full_initializer (lines 2808-2831).                                  *)
(***************************************************************************)
RECURSIVE IsFull(_)
\* mutant: a NULL-typed slot counted as initialized
IsFullNullIsFull(n) ==
    IF n.type = NoType THEN TRUE
    ELSE IF n.kind = "leaf" THEN TRUE
    ELSE \A i \in 0..NumFields(n.type) - 1 : IsFull(SubAt(n, i))
IsFull(n) ==
    IF n.type = NoType THEN FALSE
    ELSE IF n.kind = "leaf" THEN TRUE
    ELSE \A i \in 0..NumFields(n.type) - 1 : IsFull(SubAt(n, i))

(***************************************************************************)
(* ir_gen_c_init (lines 2600-2663): a store per populated scalar slot, at  *)
(* the offset given by the layout.  mem is the object's cells.             *)
(***************************************************************************)
RECURSIVE Stores(_, _, _)
Stores(n, mem, off) ==
    CASE n.type = NoType -> mem
      [] IsAggregate(n.type) ->
            FoldLeft(LAMBDA m, i : Stores(SubAt(n, i), m, off + MemberOffset(n.type, i)),
                     mem, Upto(NumFields(n.type)))
      [] OTHER -> [mem EXCEPT ![off + 1] = n.val]

(***************************************************************************)
(* zero_initializer (2704-2733), const_gen_c_init (2735-2775) and          *)
(* const_gen_c_init_array (2777-2806).  A constant is a sequence of cells; *)
(* Crash is the NULL dereference of a NULL-typed nested array slot.        *)
(***************************************************************************)
ZeroInit(T) == Zeros(SizeOf(T))
Ok(cells) == [ok |-> TRUE, cells |-> cells]
Crash == [ok |-> FALSE, cells |-> <<>>]
Cat(r, s) == IF r.ok /\ s.ok THEN Ok(r.cells \o s.cells) ELSE Crash
RECURSIVE ConstGen(_), ConstGenArray(_)
\* mutant: the sub_init->type == NULL test dropped
ConstSlotNoNullCheck(n, i) == ConstGen(SubAt(n, i))
\* a NULL slot of a struct or of a flat array is zero_initializer'd
ConstSlot(n, i) ==
    IF SubAt(n, i).type = NoType THEN Ok(ZeroInit(MemberType(n.type, i)))
    ELSE ConstGen(SubAt(n, i))
ConstGen(n) ==
    CASE n.type.t = "struct" ->
            FoldLeft(LAMBDA r, i : Cat(r, ConstSlot(n, i)), Ok(<<>>),
                     Upto(NumFields(n.type)))
      [] n.type.t = "array" -> ConstGenArray(n)
      [] OTHER -> Ok(<<n.val>>)
ConstGenArray(n) ==
    CASE n.type = NoType -> Crash
      [] n.type.elem.t = "array" ->
            FoldLeft(LAMBDA r, i : Cat(r, ConstGenArray(SubAt(n, i))), Ok(<<>>),
                     Upto(n.type.size))
      [] OTHER ->
            FoldLeft(LAMBDA r, i : Cat(r, ConstSlot(n, i)), Ok(<<>>),
                     Upto(n.type.size))

(***************************************************************************)
(* What C11 6.7.9 says the object holds.  The current object is walked by *)
(* a position, a path of member indices; a designator list sets it, an     *)
(* undesignated element takes the next subobject in order (popping out of *)
(* finished aggregates), and a scalar initializer at an aggregate position *)
(* descends to its first scalar (brace elision).  Unnamed members hold     *)
(* zero.  An element past the end, or a mismatched initializer, makes the  *)
(* input invalid C; such inputs are not generated.                         *)
(***************************************************************************)
RECURSIVE TypeAt(_, _), OffsetOf(_, _), NextPos(_, _), FirstScalar(_, _)
TypeAt(T, p) == IF p = <<>> THEN T ELSE TypeAt(MemberType(T, Head(p)), Tail(p))
OffsetOf(T, p) ==
    IF p = <<>> THEN 0
    ELSE MemberOffset(T, Head(p)) + OffsetOf(MemberType(T, Head(p)), Tail(p))
NextPos(T, p) ==
    LET up == Front(p)
        i == Last(p) + 1
    IN CASE i < NumFields(TypeAt(T, up)) -> Append(up, i)
         [] up = <<>> -> <<>>
         [] OTHER -> NextPos(T, up)
FirstScalar(T, p) ==
    IF IsAggregate(TypeAt(T, p)) THEN FirstScalar(T, Append(p, 0)) ELSE p
Overwrite(cells, off, part) ==
    [k \in DOMAIN cells |-> IF k > off /\ k <= off + Len(part)
                            THEN part[k - off] ELSE cells[k]]
RefOk(cells, top) == [valid |-> TRUE, cells |-> cells, top |-> top]
RefBad == [valid |-> FALSE, cells |-> <<>>, top |-> -1]
\* 6.7.9p11 with 6.5.16.1p1: an integer initializes an integer; a pointer
\* is initialized by a pointer or a null pointer constant (6.3.2.3p3).
Assignable(T, a) == IF T.t = "ptr" THEN a.ty = "ptr" \/ a.v = 0 ELSE a.ty = "int"
RECURSIVE RefValue(_, _), RefList(_, _, _, _)
RefValue(T, a) ==
    CASE IsScalar(T) -> IF a.t = "expr" /\ Assignable(T, a) THEN RefOk(<<a.v>>, 0) ELSE RefBad
      [] a.t = "string" ->
            IF T.t = "array" /\ T.elem = CharT /\ Len(a.chars) <= T.size
            THEN RefOk([k \in 1..T.size |-> IF k <= Len(a.chars) THEN a.chars[k] ELSE 0], 0)
            ELSE RefBad
      [] a.t = "brace" -> RefList(T, a.elems, <<>>, RefOk(Zeros(SizeOf(T)), -1))
      [] OTHER -> RefBad
RefList(T, es, pos, r) ==
    IF es = <<>> THEN r
    ELSE LET el == Head(es)
             start == CASE el.des # <<>> -> el.des
                        [] pos = <<>> -> <<0>>
                        [] OTHER -> NextPos(T, pos)
             target == IF el.init.t = "expr" THEN FirstScalar(T, start) ELSE start
             v == RefValue(TypeAt(T, target), el.init)
         IN IF start = <<>> \/ ~v.valid THEN RefBad
            ELSE RefList(T, Tail(es), target,
                         RefOk(Overwrite(r.cells, OffsetOf(T, target), v.cells),
                               IF target[1] > r.top THEN target[1] ELSE r.top))
\* an incomplete array is as long as its last initialized element needs
RefBound == 2 * MaxElems + 1
NoInit == [t |-> "none"]
RefObject(T, a) ==
    CASE a = NoInit -> RefOk(ZeroInit(T), 0)
      [] T.t = "array" /\ T.incomplete ->
            LET r == RefValue([T EXCEPT !.size = RefBound, !.incomplete = FALSE], a)
                n == IF a.t = "string" THEN Len(a.chars) + 1 ELSE r.top + 1
            IN [r EXCEPT !.cells = SubSeq(r.cells, 1, n * SizeOf(T.elem))]
      [] OTHER -> RefValue(T, a)

(***************************************************************************)
(* The initializers a declaration can carry, up to the bounds: designator *)
(* lists are paths of member indices valid for the type (any index up to   *)
(* MaxElems for an incomplete array), strings only for char arrays.        *)
(***************************************************************************)
DesigIdx(T) == IF T.t = "array" /\ T.incomplete THEN 0..MaxElems ELSE 0..NumFields(T) - 1
RECURSIVE Desigs(_, _)
Desigs(T, k) ==
    {<<>>} \cup
    IF k = 0 \/ ~IsAggregate(T) THEN {}
    ELSE UNION {{<<i>> \o r : r \in Desigs(MemberType(T, i), k - 1)} : i \in DesigIdx(T)}
ExprInits == {[t |-> "expr", v |-> v, ty |-> "int"] : v \in Vals}
PtrExprs ==
    {[t |-> "expr", v |-> 0, ty |-> "int"] : x \in PtrInits \cap {"null"}}
    \cup {[t |-> "expr", v |-> AddrOfG, ty |-> "ptr"] : x \in PtrInits \cap {"addr"}}
StringInits(T) ==
    IF T.t = "array" /\ T.elem = CharT /\ ~T.incomplete
    THEN {[t |-> "string", chars |-> s] : s \in UNION {[1..n -> Vals] : n \in StrLens}}
    ELSE {}
\* T has a pointer member, at any depth
RECURSIVE HasPtr(_)
HasPtr(T) == CASE T.t = "ptr" -> TRUE
              [] IsAggregate(T) -> \E i \in 0..NumFields(T) - 1 : HasPtr(MemberType(T, i))
              [] OTHER -> FALSE
RECURSIVE Asts(_, _)
Asts(T, d) ==
    IF IsScalar(T) THEN IF T.t = "ptr" THEN PtrExprs ELSE ExprInits
    ELSE StringInits(T) \cup
         IF d = 0 THEN {}
         ELSE LET PosTypes(ds) == IF ds = <<>> THEN {MemberType(T, i) : i \in DesigIdx(T)}
                                  ELSE {TypeAt(T, ds)}
                  Elem == UNION {{[des |-> ds, init |-> a] :
                                    a \in ExprInits \cup (IF HasPtr(T) THEN PtrExprs ELSE {})
                                        \cup UNION {Asts(X, d - 1) : X \in PosTypes(ds)}} :
                                   ds \in Desigs(T, MaxDesig)}
              IN {[t |-> "brace", elems |-> es] : es \in SeqOf(Elem, MaxElems) \ {<<>>}}

(***************************************************************************)
(* One declaration, compiled both as a global and as a local.  An outcome  *)
(* is ok with the object's cells, abort (an assert or UNIMPLEMENTED), ub   *)
(* (a write past a sub_elems allocation, or a read of one whose contents  *)
(* are junk) or crash (a NULL dereference).                                *)
(***************************************************************************)
VARIABLES decl, globalOut, localOut
vars == <<decl, globalOut, localOut>>

Out(k, cells) == [k |-> k, cells |-> cells]
Pending == Out("pending", <<>>)
\* what the pool holds past a sub_elems allocation
PastEnd == {"zero", "junk"}

Decls ==
    {x \in UNION {{[type |-> T, init |-> a] : a \in Asts(T, MaxBraces) \cup {NoInit}} : T \in Types} :
        /\ RefObject(x.type, x.init).valid
        /\ x.init = NoInit => ~(x.type.t = "array" /\ x.type.incomplete)}

Init ==
    /\ decl \in Decls
    /\ globalOut = Pending
    /\ localOut = Pending

\* A file-scope declaration with no initializer (lines 462-466).
GlobalNoInit ==
    /\ globalOut = Pending
    /\ decl.init = NoInit
    /\ globalOut' = Out("ok", ZeroInit(decl.type))
    /\ UNCHANGED <<decl, localOut>>

\* A file-scope declaration with an initializer (ir_global_for_decl line
\* 201, then lines 467-477).
GlobalResult(T0, a, past) ==
    LET T == Infer(T0, a)
        n == Make(T, a, TRUE, ZeroNode)
        r == ConstGen(n)
    IN CASE Bad(n) -> Out(n.type.t, <<>>)
         [] ShortAlloc(n) /\ past = "junk" -> Out("ub", <<>>)
         [] ~r.ok -> Out("crash", <<>>)
         [] OTHER -> Out("ok", r.cells)
GlobalInit ==
    /\ globalOut = Pending
    /\ decl.init # NoInit
    /\ \E past \in PastEnd : globalOut' = GlobalResult(decl.type, decl.init, past)
    /\ UNCHANGED <<decl, localOut>>

\* add_decl_to_scope (lines 2392-2430): an expression initializer other than
\* a string for an array is a plain assignment of the converted value.
LocalAssign ==
    /\ localOut = Pending
    /\ decl.init.t = "expr"
    /\ localOut' = Out("ok", <<decl.init.v>>)
    /\ UNCHANGED <<decl, globalOut>>

\* ir_gen_initializer (lines 1873-1907): memset unless full, then stores.
LocalResult(T0, a, past) ==
    LET T == Infer(T0, a)
        n == Make(T, a, FALSE, ZeroNode)
        mem == IF IsFull(n) THEN [k \in 1..SizeOf(T) |-> Junk] ELSE Zeros(SizeOf(T))
    IN CASE Bad(n) -> Out(n.type.t, <<>>)
         [] ShortAlloc(n) /\ past = "junk" -> Out("ub", <<>>)
         [] OTHER -> Out("ok", Stores(n, mem, 0))
LocalInit ==
    /\ localOut = Pending
    /\ decl.init.t \in {"brace", "string"}
    /\ \E past \in PastEnd : localOut' = LocalResult(decl.type, decl.init, past)
    /\ UNCHANGED <<decl, globalOut>>

\* Both compilations are done; the declaration is finished.
Terminated ==
    /\ globalOut # Pending
    /\ localOut # Pending \/ decl.init = NoInit
    /\ UNCHANGED vars

Next == GlobalNoInit \/ GlobalInit \/ LocalAssign \/ LocalInit \/ Terminated

Spec == Init /\ [][Next]_vars

(***************************************************************************)
(* Properties.                                                             *)
(***************************************************************************)

\* The object a global or local initializer produces is the one C11 6.7.9
\* prescribes (designators, implicit positions, strings, zero for unnamed
\* members, inferred length), unless the compiler stops with an assert or
\* UNIMPLEMENTED: make_c_initializer's designator walk, is_full_initializer's
\* memset decision, ir_gen_c_init's offsets and const_gen_c_init's zero
\* slots all feed into it.
InitMatchesC ==
    \A o \in {globalOut, localOut} :
        \/ o.k \in {"pending", "abort"}
        \/ o.k = "ok" /\ o.cells = RefObject(decl.type, decl.init).cells

\* Spec 8: const_gen of the CInitializer (the global path) gives the same
\* bytes as zero plus stores (the local path) for the same initializer; in
\* particular neither path fails where the other succeeds.
ConstMatchesRuntime ==
    globalOut # Pending /\ localOut # Pending => globalOut = localOut

=============================================================================
