--------------------------- MODULE IrGenDeclarator ---------------------------
(***************************************************************************)
(* Declarator folding in src/src/ir_gen.c: decl_to_cdecl and              *)
(* direct_declarator_to_cdecl (lines 2066-2185) turn the type the         *)
(* declaration specifiers give and a declarator AST into the CDecl of the  *)
(* declared name: its name and its CType.  A pointer declarator and a      *)
(* function declarator build the derived type first and pass it down to    *)
(* the inner declarator; an array declarator folds its element declarator  *)
(* first and wraps the result.  The fold is a pair of RECURSIVE operators; *)
(* one action applies it to a declaration and compares the CType with the  *)
(* type C11 6.7.6 gives the identifier.                                    *)
(***************************************************************************)
EXTENDS Naturals, Sequences

CONSTANTS
    Lengths,         \* array length literals: eval_constant_expr's IR_INT
    ArrayElemKinds,  \* the kinds of direct declarator an array declarator wraps
    MaxDeclDepth     \* derived declarators (*, [], (), parentheses) per declarator

(***************************************************************************)
(* CTypes.  pointer_type, array_type and set_array_type_length are in      *)
(* c_type.c, outside src/: a type is its structure.                        *)
(***************************************************************************)
IntC == [t |-> "int"]
CharC == [t |-> "char"]
VoidC == [t |-> "void"]
PointerType(T) == [t |-> "ptr", to |-> T]
ArrayType(T, n) == [t |-> "array", elem |-> T, len |-> n]
FunctionCType(R, ps, va) == [t |-> "fn", ret |-> R, params |-> ps, variadic |-> va]
\* decay_to_pointer (c_type.c): arrays to a pointer to their element,
\* functions to a pointer to themselves
DecayCType(T) ==
    CASE T.t = "array" -> PointerType(T.elem)
      [] T.t = "fn" -> PointerType(T)
      [] OTHER -> T

(***************************************************************************)
(* The AST (spec section 5): Declarator = Pointer(pointee) | Direct(dd);   *)
(* DirectDeclarator = Identifier(name) | Nested(declarator) |              *)
(* Array(element_declarator, length) | Function(declarator, parameters).   *)
(* A parameter is PARAMETER_DECL (specifier type, declarator, possibly     *)
(* NULL) or ELLIPSIS_DECL.                                                 *)
(***************************************************************************)
NoDeclarator == [k |-> "null"]
NoName == "none"
Ptr(d) == [k |-> "ptr", pointee |-> d]
Direct(dd) == [k |-> "direct", dd |-> dd]
Ident(n) == [k |-> "id", name |-> n]
Nested(d) == [k |-> "nested", decl |-> d]
Arr(dd, n) == [k |-> "array", elem |-> dd, len |-> n]
Fun(dd, ps) == [k |-> "fn", decl |-> dd, params |-> ps]
Param(T, d) == [k |-> "param", base |-> T, decl |-> d]
Ellipsis == [k |-> "ellipsis"]

\* parameter lists: (void), (int p), (int p, ...), and a second parameter
\* that is an array, a function, a pointer or abstract
ParamDecls ==
    {Param(IntC, Direct(Ident("p"))), Param(CharC, NoDeclarator),
     Param(IntC, Direct(Arr(Ident("p"), 2))), Param(IntC, Ptr(NoDeclarator)),
     Param(CharC, Direct(Fun(Ident("p"), <<Param(VoidC, NoDeclarator)>>)))}
ParamLists ==
    {<<Param(VoidC, NoDeclarator)>>, <<Param(IntC, Direct(Ident("p")))>>,
     <<Param(IntC, Direct(Ident("p"))), Ellipsis>>}
    \cup {<<Param(IntC, Direct(Ident("q"))), p>> : p \in ParamDecls}

\* the declarators of x with at most n derived declarators; parentheses
\* are written around a pointer declarator only, where they matter
RECURSIVE DeclsOf(_), DirectsOf(_)
DeclsOf(n) ==
    {Direct(dd) : dd \in DirectsOf(n)}
    \cup (IF n = 0 THEN {} ELSE {Ptr(d) : d \in DeclsOf(n - 1)})
DirectsOf(n) ==
    {Ident("x")}
    \cup (IF n = 0 THEN {}
          ELSE {Nested(d) : d \in {e \in DeclsOf(n - 1) : e.k = "ptr"}}
               \cup {Arr(dd, l) : dd \in {e \in DirectsOf(n - 1) : e.k \in ArrayElemKinds},
                                  l \in Lengths}
               \cup {Fun(dd, ps) : dd \in DirectsOf(n - 1), ps \in ParamLists})

(***************************************************************************)
(* The fold, as the code does it.                                          *)
(***************************************************************************)
RECURSIVE DeclToCdecl(_, _), DirectDeclToCdecl(_, _)
\* mutant: a parameter's type kept as declared, without decay_to_pointer
ParamCTypeNoDecay(p) == DeclToCdecl(p.base, p.decl).type
\* a PARAMETER_DECL: its declarator folded, then 6.7.5.3p7's adjustment
ParamCType(p) == DecayCType(DeclToCdecl(p.base, p.decl).type)
\* the asserts of the parameter loop and of the nullary case: a void
\* parameter is the first and unnamed, and (void) is not variadic
ParamAsserts(ps) ==
    LET named == SelectSeq(ps, LAMBDA q : q.k = "param")
    IN /\ \A i \in DOMAIN named :
            ParamCType(named[i]).t = "void" =>
                i = 1 /\ DeclToCdecl(named[i].base, named[i].decl).name = NoName
       /\ (Len(named) = 1 /\ ParamCType(named[1]).t = "void") =>
            \A i \in DOMAIN ps : ps[i].k # "ellipsis"
\* FUNCTION_DECLARATOR (2117-2180): arity counts PARAMETER_DECLs, an
\* ELLIPSIS_DECL makes it variadic, a single void parameter makes it nullary
FunctionType(R, ps) ==
    LET named == SelectSeq(ps, LAMBDA q : q.k = "param")
        args == [i \in DOMAIN named |-> ParamCType(named[i])]
        va == \E i \in DOMAIN ps : ps[i].k = "ellipsis"
    IN IF Len(args) = 1 /\ args[1].t = "void" THEN FunctionCType(R, <<>>, va)
       ELSE FunctionCType(R, args, va)
\* decl_to_cdecl: NULL gives no name; a pointer wraps, then recurses
DeclToCdecl(T, d) ==
    CASE d.k = "null" -> [st |-> "done", name |-> NoName, type |-> T]
      [] d.k = "ptr" -> DeclToCdecl(PointerType(T), d.pointee)
      [] d.k = "direct" -> DirectDeclToCdecl(T, d.dd)
\* direct_declarator_to_cdecl: an array folds its element first
DirectDeclToCdecl(T, dd) ==
    CASE dd.k = "nested" -> DeclToCdecl(T, dd.decl)
      [] dd.k = "id" -> [st |-> "done", name |-> dd.name, type |-> T]
      [] dd.k = "array" ->
            LET c == DirectDeclToCdecl(T, dd.elem)
            IN [c EXCEPT !.type = ArrayType(c.type, dd.len)]
      [] dd.k = "fn" -> DirectDeclToCdecl(FunctionType(T, dd.params), dd.decl)
\* every parameter list in d, for its asserts
RECURSIVE ParamListsIn(_)
ParamListsIn(d) ==
    CASE d.k = "null" \/ d.k = "id" -> {}
      [] d.k = "ptr" -> ParamListsIn(d.pointee)
      [] d.k = "direct" -> ParamListsIn(d.dd)
      [] d.k = "nested" -> ParamListsIn(d.decl)
      [] d.k = "array" -> ParamListsIn(d.elem)
      [] d.k = "fn" ->
            {d.params} \cup ParamListsIn(d.decl)
            \cup UNION {ParamListsIn(d.params[i].decl) :
                          i \in {j \in DOMAIN d.params : d.params[j].k = "param"}}

(***************************************************************************)
(* What C11 6.7.6 says: in T D1 with D1 = * D, D[n] or D(params), the     *)
(* identifier has the type it has in D with T replaced by pointer to T,   *)
(* array of n T or function returning T; a parameter of array or function *)
(* type is adjusted to a pointer (6.7.6.3p7-8), and (void) means none      *)
(* (p10).                                                                  *)
(***************************************************************************)
RECURSIVE CType(_, _), CDirectType(_, _), CTypeValid(_)
CAdjust(T) ==
    CASE T.t = "array" -> PointerType(T.elem)
      [] T.t = "fn" -> PointerType(T)
      [] OTHER -> T
CParams(ps) ==
    IF ps = <<Param(VoidC, NoDeclarator)>> THEN <<>>
    ELSE LET named == SelectSeq(ps, LAMBDA q : q.k = "param")
         IN [i \in DOMAIN named |-> CAdjust(CType(named[i].base, named[i].decl))]
CType(T, d) ==
    CASE d.k = "null" -> T
      [] d.k = "ptr" -> CType(PointerType(T), d.pointee)
      [] d.k = "direct" -> CDirectType(T, d.dd)
CDirectType(T, dd) ==
    CASE dd.k = "id" -> T
      [] dd.k = "nested" -> CType(T, dd.decl)
      [] dd.k = "array" -> CDirectType(ArrayType(T, dd.len), dd.elem)
      [] dd.k = "fn" ->
            CDirectType(FunctionCType(T, CParams(dd.params),
                                      \E i \in DOMAIN dd.params : dd.params[i].k = "ellipsis"),
                        dd.decl)
\* 6.7.6.2p1, 6.7.6.3p1: no array of functions, no function returning an
\* array or a function
CTypeValid(T) ==
    CASE T.t = "ptr" -> CTypeValid(T.to)
      [] T.t = "array" -> T.elem.t \notin {"fn", "void"} /\ CTypeValid(T.elem)
      [] T.t = "fn" -> /\ T.ret.t \notin {"fn", "array"} /\ CTypeValid(T.ret)
                       /\ \A i \in DOMAIN T.params : CTypeValid(T.params[i])
      [] OTHER -> TRUE

\* the declarations of x: int or char, and a valid declarator
Declarations ==
    {dc \in [base : {IntC, CharC}, d : DeclsOf(MaxDeclDepth)] : CTypeValid(CType(dc.base, dc.d))}

VARIABLES
    decl,    \* the declaration: specifier type and declarator
    cdecl    \* st: "idle", "pending", "done" with the CDecl, or "aborted"
dvars == <<decl, cdecl>>

\* no declarator to fold
NoDeclaration == [base |-> VoidC, d |-> NoDeclarator]
NoCdecl(st) == [st |-> st, name |-> NoName, type |-> VoidC]
DeclIdle == decl = NoDeclaration /\ cdecl = NoCdecl("idle")
DInit(Decls) == decl \in Decls /\ cdecl = NoCdecl("pending")
\* one call of decl_to_cdecl on the declaration
Fold ==
    /\ cdecl.st = "pending"
    /\ cdecl' = IF \A ps \in ParamListsIn(decl.d) : ParamAsserts(ps)
                THEN [DeclToCdecl(decl.base, decl.d) EXCEPT !.st = "done"]
                ELSE NoCdecl("aborted")
    /\ UNCHANGED decl
DeclInit == DInit(Declarations)
\* a folded declaration stays as it is
DeclDone == cdecl.st \in {"done", "aborted"} /\ UNCHANGED dvars

\* decl_to_cdecl gives every declaration of x, with pointers, arrays and
\* functions nested through parentheses, the name x and the type C11 6.7.6
\* gives it, parameters adjusted and (void) nullary: direct_declarator_to_cdecl
\* folds an array's element declarator before wrapping, while pointers and
\* functions are passed down.
DeclaratorMatchesC ==
    cdecl.st \in {"done", "aborted"} =>
        /\ cdecl.st = "done"
        /\ cdecl.name = "x"
        /\ cdecl.type = CType(decl.base, decl.d)
====
