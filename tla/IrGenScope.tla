----------------------------- MODULE IrGenScope -----------------------------
(***************************************************************************)
(* Scopes, bindings and file-scope declarations of src/src/ir_gen.c.       *)
(*                                                                         *)
(* Env.scope points at the innermost Scope. A Scope is a growable array    *)
(* of Bindings plus a parent link. ir_gen_toplevel, ir_gen_function, the   *)
(* COMPOUND_STATEMENT and FOR_STATEMENT cases of ir_gen_statement push a   *)
(* Scope and restore env->scope when they finish. add_decl_to_scope and    *)
(* the enum case of decl_specifier_list_to_c_type append Bindings.         *)
(* binding_for_name resolves an identifier.                                *)
(*                                                                         *)
(* At file scope ir_gen_toplevel keeps one IrGlobal per name and sets its  *)
(* linkage and initializer from each declaration in turn.                  *)
(*                                                                         *)
(* Next to the code's state the module keeps C's view: a stack of sets of  *)
(* visible declarations (C11 6.2.1), and the history of each file-scope    *)
(* name from which C11 6.2.2 and 6.9.2 give its linkage and value.         *)
(*                                                                         *)
(* Struct and union tags live in type_env->struct_types, one table for the *)
(* whole translation unit; C scopes them like identifiers (C11 6.7.2.3).   *)
(***************************************************************************)
EXTENDS Naturals, Integers, Sequences, SequencesExt, FiniteSets

CONSTANTS
  Objects,       \* names of file-scope objects
  Functions,     \* names of functions
  DeclForms(_),  \* the [st, init] a file-scope declaration of a name may take
  DefStorages,   \* storage classes a function definition may carry
  Params,        \* parameter lists (sequences of local names)
  BlockDecls,    \* declarations that may appear as block items
  ForDecls,      \* declarations that may appear in a for-init clause
  MaxItems,      \* bound on the program's items
  Tags,          \* struct and union tags
  TagForms(_)    \* the tag specifiers that may appear at "top" or in a "block"

Globals == Objects \cup Functions

\* Binding identities are numbers; a file-scope name is its own identity.
\* Junk stands for a NULL result and for what a dangling pointer yields.
Junk == -1

(***************************************************************************)
(* A block-scope declaration d: the enumerators its specifier defines      *)
(* (d.enums, <<>> for a plain type) and its declarators d.vars. Each       *)
(* declarator has a name, an initializer kind ("none", "expr" or "brace")  *)
(* and the enumerators that type names inside its initializer define       *)
(* (sizeof(enum {A}) or a cast), in order.                                  *)
(***************************************************************************)

\* ARRAY_INIT capacities: 10 at file scope (line 280), EMPTY_ARRAY for
\* parameters (533), 5 for a block (605), 1 for a for-init (886).
InitCap == [global |-> 10, param |-> 0, block |-> 5, for |-> 1]

NewScope(kind, parent) ==
  [kind |-> kind, parent |-> parent, binds |-> <<>>,
   cap |-> InitCap[kind], gen |-> 0]

\* ARRAY_APPEND: a full array grows, and realloc may or may not move its
\* storage; gen counts the moves, so a pointer taken at an older gen dangles.
Grown(c) == IF c = 0 THEN 1 ELSE 2 * c

AppendBinding(sc, b) ==
  IF Len(sc.binds) < sc.cap
  THEN {[sc EXCEPT !.binds = Append(@, b)]}
  ELSE {[sc EXCEPT !.binds = Append(@, b), !.cap = Grown(@), !.gen = @ + m]
          : m \in {0, 1}}

RECURSIVE AppendAll(_, _)
AppendAll(sc, bs) ==
  IF bs = <<>> THEN {sc}
  ELSE UNION {AppendAll(s, Tail(bs)) : s \in AppendBinding(sc, Head(bs))}

\* The enum case of decl_specifier_list_to_c_type appends one constant
\* binding per enumerator to env->scope, numbered from id.
EnumeratorBindings(ns, id) ==
  [i \in 1..Len(ns) |-> [name |-> ns[i], ent |-> id + i - 1]]

\* The store an initializer makes. ir_gen_initializer receives binding->term
\* before it lowers anything. The expression path lowers the initializer
\* first and reads binding->term afterwards; if the lowering made the array
\* move, the read is of freed memory and the store goes anywhere.
InitTargets(v, id, held, after) ==
  CASE v.init = "none"  -> {{}}
    [] v.init = "brace" -> {{[var |-> id, to |-> id]}}
    [] v.init = "expr"  ->
         {{[var |-> id, to |-> t]}
            : t \in IF after.gen = held THEN {id} ELSE {id, Junk}}

\* The loop over init_declarators: append the binding, lower the
\* initializer (which appends its enumerators), then store.
RECURSIVE DeclVars(_, _, _)
DeclVars(sc, id, vs) ==
  IF vs = <<>> THEN {[sc |-> sc, id |-> id, stores |-> {}]}
  ELSE LET v == Head(vs)
       IN UNION {UNION {UNION {
            {[r EXCEPT !.stores = @ \cup st]
               : r \in DeclVars(s3, id + 1 + Len(v.enums), Tail(vs))}
              : st \in InitTargets(v, id, s2.gen, s3)}
              : s3 \in AppendAll(s2, EnumeratorBindings(v.enums, id + 1))}
              : s2 \in AppendBinding(sc, [name |-> v.name, ent |-> id])}

\* add_decl_to_scope: the specifier first, then the declarators.
AddDeclToScope(sc, id, d) ==
  UNION {DeclVars(s1, id + Len(d.enums), d.vars)
           : s1 \in AppendAll(sc, EnumeratorBindings(d.enums, id))}

\* binding_for_name: the first binding of the name in a scope, else the
\* parent's; NULL (Junk) past the file scope.
RECURSIVE BindingForName(_, _, _)
BindingForName(scs, s, n) ==
  LET i == SelectInSeq(scs[s].binds, LAMBDA b : b.name = n)
  IN IF i # 0 THEN scs[s].binds[i].ent
     ELSE IF scs[s].parent # 0 THEN BindingForName(scs, scs[s].parent, n)
     ELSE Junk

(***************************************************************************)
(* C's view of a block-scope declaration: the identifiers it declares, in  *)
(* the order their scopes begin (C11 6.2.1p7), with the same identities.   *)
(***************************************************************************)
RECURSIVE VarOrder(_, _)
VarOrder(vs, id) ==
  IF vs = <<>> THEN <<>>
  ELSE <<[name |-> Head(vs).name, ent |-> id]>>
         \o EnumeratorBindings(Head(vs).enums, id + 1)
         \o VarOrder(Tail(vs), id + 1 + Len(Head(vs).enums))

DeclOrder(d, id) == EnumeratorBindings(d.enums, id) \o VarOrder(d.vars, id + Len(d.enums))

NamesOf(S) == {b.name : b \in S}

\* A declaration is valid where none of its names is declared twice in
\* the same C scope.
FreshIn(d, S) ==
  LET o == DeclOrder(d, 0)
  IN Cardinality(NamesOf(ToSet(o))) = Len(o) /\ NamesOf(ToSet(o)) \cap NamesOf(S) = {}

\* C lookup: the innermost visible declaration.
CLookup(stack, n) ==
  LET i == SelectLastInSeq(stack, LAMBDA S : n \in NamesOf(S))
  IN (CHOOSE b \in stack[i] : b.name = n).ent

(***************************************************************************)
(* C11 6.2.2 and 6.9.2 for a file-scope name declared by the sequence h    *)
(* of [st, init]: init is "none", a constant initializer, or "def" for a   *)
(* function definition.                                                    *)
(***************************************************************************)
CLinkage(h) == IF h[1].st = "static" THEN "local" ELSE "global"

CValue(h) ==
  LET defs == {i \in 1..Len(h) : h[i].init \notin {"none", "def"}}
  IN IF defs # {} THEN h[CHOOSE i \in defs : TRUE].init
     ELSE IF \E i \in 1..Len(h) : h[i].st # "extern" THEN "zero"
     ELSE "none"

\* A further declaration f of n keeps the program valid: no name with both
\* internal and external linkage (6.2.2p7), one definition (6.9p3, 6.9p5).
CValid(h, n, f) ==
  /\ h # <<>> /\ h[1].st = "static" => ~(n \in Objects /\ f.st = "none")
  /\ h # <<>> /\ h[1].st # "static" => f.st # "static"
  /\ f.init # "none" => \A i \in 1..Len(h) : h[i].init = "none"

(***************************************************************************)
(* Struct and union tags (decl_specifier_list_to_c_type, lines 2215-2302). *)
(* A tag specifier td is [op, t, body]: op "forward" is the declaration    *)
(* `struct t;`, "use" a type name `struct t` in an expression, and "def"   *)
(* a definition whose body is [kind, packed, fields], fields being         *)
(* "char", "int", "ptr" or a tag whose type is embedded by value.          *)
(***************************************************************************)

\* align_to: round x up to a multiple of a.
AlignTo(x, a) == ((x + a - 1) \div a) * a

\* An incomplete type, as struct_type creates it.
IncompleteType ==
  [complete |-> FALSE, fields |-> <<>>, size |-> 0, align |-> 0,
   kind |-> "none", packed |-> FALSE]

\* A mutant of StructLayout: offsets are not rounded up to the field's
\* alignment, as if the align_to call were dropped.
StructLayoutUnaligned(kind, packed, fi) ==
  LET step(acc, f) ==
        IF kind = "struct"
        THEN [cur |-> acc.cur + f.size, offs |-> Append(acc.offs, acc.cur)]
        ELSE [cur |-> acc.cur, offs |-> Append(acc.offs, 0)]
      r == FoldLeft(step, [cur |-> 0, offs |-> <<>>], fi)
      maxSize == Max({f.size : f \in ToSet(fi)})
      maxAlign == Max({f.align : f \in ToSet(fi)})
  IN [complete |-> TRUE,
      fields |-> [i \in 1..Len(fi) |-> [off |-> r.offs[i], size |-> fi[i].size,
                                        align |-> fi[i].align]],
      size |-> AlignTo(IF kind = "struct" THEN r.cur ELSE maxSize,
                       IF packed THEN 1 ELSE maxAlign),
      align |-> IF packed THEN 1 ELSE maxAlign,
      kind |-> kind, packed |-> packed]

\* The field loop and the total size (lines 2268-2299), for fields fi of
\* the given sizes and alignments.
StructLayout(kind, packed, fi) ==
  LET step(acc, f) ==
        IF kind = "struct"
        THEN LET o == IF packed THEN acc.cur ELSE AlignTo(acc.cur, f.align)
             IN [cur |-> o + f.size, offs |-> Append(acc.offs, o)]
        ELSE [cur |-> acc.cur, offs |-> Append(acc.offs, 0)]
      r == FoldLeft(step, [cur |-> 0, offs |-> <<>>], fi)
      maxSize == Max({f.size : f \in ToSet(fi)})
      maxAlign == Max({f.align : f \in ToSet(fi)})
  IN [complete |-> TRUE,
      fields |-> [i \in 1..Len(fi) |-> [off |-> r.offs[i], size |-> fi[i].size,
                                        align |-> fi[i].align]],
      size |-> AlignTo(IF kind = "struct" THEN r.cur ELSE maxSize,
                       IF packed THEN 1 ELSE maxAlign),
      align |-> IF packed THEN 1 ELSE maxAlign,
      kind |-> kind, packed |-> packed]

\* The ir_type of a field (c_type_to_ir_type, size_of_ir_type,
\* align_of_ir_type): scalars by their size, a struct by its layout.
FieldInfo(tys, tagOfNow, f) ==
  CASE f = "char" -> [size |-> 1, align |-> 1]
    [] f = "int"  -> [size |-> 4, align |-> 4]
    [] f = "ptr"  -> [size |-> 8, align |-> 8]
    [] OTHER      -> [size |-> tys[tagOfNow[f]].size, align |-> tys[tagOfNow[f]].align]

FieldTags(body) == {body.fields[i] : i \in 1..Len(body.fields)} \cap Tags

\* C11 6.7.2.3: the type a tag specifier denotes. `struct t;` and a
\* definition declare t in the current scope (the one already declared
\* there, else a new type); a use denotes the visible one, else a new type.
CTag(stack, td, new) ==
  LET here == Last(stack)
  IN IF td.op = "use" /\ \E i \in 1..Len(stack) : td.t \in NamesOf(stack[i])
     THEN CLookup(stack, td.t)
     ELSE IF td.t \in NamesOf(here) THEN (CHOOSE b \in here : b.name = td.t).ent
     ELSE new
-----------------------------------------------------------------------------
VARIABLES
  scopes,   \* the Scopes entered so far, by entry order; 1 is global_scope
  cur,      \* env->scope
  open,     \* the handlers still running: [kind, prev] with prev the saved scope
  ref,      \* C's view: a stack of sets of visible declarations
  globals,  \* the IrGlobal of each file-scope name: linkage and initializer
  hist,     \* the file-scope declarations of each name so far
  nextId,   \* the identity the next binding gets
  lastUse,  \* the last identifier lookup: what the code found, what C finds
  stores,   \* the stores of the last declaration's initializers
  status,   \* "run", or "aborted" when an assert fires
  items,    \* program items lowered so far
  tagOf,    \* type_env->struct_types: the type each tag names, Junk if none
  types,    \* the struct CTypes created so far, by identity
  cdone,    \* C's view: the tag types that are complete
  lastTag   \* the last tag specifier: the type the code gives, the one C gives

tagVars == <<tagOf, types, cdone, lastTag>>

vars == <<scopes, cur, open, ref, globals, hist, nextId, lastUse, stores, status, items,
          tagOf, types, cdone, lastTag>>

Init ==
  /\ scopes = <<NewScope("global", 0)>>
  /\ cur = 1
  /\ open = <<>>
  /\ ref = <<{}>>
  /\ globals = [n \in Globals |-> [linkage |-> "none", init |-> "none"]]
  /\ hist = [n \in Globals |-> <<>>]
  /\ nextId = 0
  /\ lastUse = [got |-> Junk, want |-> Junk]
  /\ stores = {}
  /\ status = "run"
  /\ items = 0
  /\ tagOf = [t \in Tags |-> Junk]
  /\ types = <<>>
  /\ cdone = {}
  /\ lastTag = [got |-> Junk, want |-> Junk]

Step == status = "run" /\ items < MaxItems /\ items' = items + 1

AtTop == open = <<>>

\* The global binding a file-scope declaration appends (lines 339, 438).
BindGlobal(n) ==
  /\ \E g \in AppendBinding(scopes[1], [name |-> n, ent |-> n]) :
       scopes' = [scopes EXCEPT ![1] = g]
  /\ ref' = [ref EXCEPT ![1] = @ \cup {[name |-> n, ent |-> n]}]

\* A mutant of GlobalDecl: the zero initializer is given without the
\* !is_extern test, so an extern declaration wipes a definition.
GlobalDeclZeroExtern(n, f) ==
  LET is_extern == n \in Functions \/ f.st = "extern"
  IN /\ AtTop /\ Step /\ CValid(hist[n], n, f)
     /\ BindGlobal(n)
     /\ hist' = [hist EXCEPT ![n] = Append(@, f)]
     /\ status' = IF f.init # "none" /\ is_extern THEN "aborted" ELSE "run"
     /\ globals' = [globals EXCEPT ![n] =
          [linkage |-> IF f.st = "static" THEN "local" ELSE "global",
           init |-> IF f.init # "none" THEN f.init
                    ELSE IF n \in Functions THEN @.init ELSE "zero"]]
     /\ UNCHANGED <<cur, open, nextId, lastUse, stores, tagVars>>

(***************************************************************************)
(* A file-scope declaration with one declarator (the DECL case,            *)
(* lines 421-478, with ir_global_for_decl 190-273): reuse or add the       *)
(* IrGlobal, append the binding, set the linkage from this declaration's   *)
(* own storage class, then give an object a zero initializer when the      *)
(* declaration has none and is not extern, or the constant one it has.     *)
(***************************************************************************)
GlobalDecl(n, f) ==
  LET is_extern == n \in Functions \/ f.st = "extern"
  IN /\ AtTop /\ Step /\ CValid(hist[n], n, f)
     /\ BindGlobal(n)
     /\ hist' = [hist EXCEPT ![n] = Append(@, f)]
     /\ status' = IF f.init # "none" /\ is_extern THEN "aborted" ELSE "run"
     /\ globals' = [globals EXCEPT ![n] =
          [linkage |-> IF f.st = "static" THEN "local" ELSE "global",
           init |-> IF f.init # "none" THEN f.init
                    ELSE IF is_extern THEN @.init ELSE "zero"]]
     /\ UNCHANGED <<cur, open, nextId, lastUse, stores, tagVars>>

\* The parameter loop of ir_gen_function: one binding per parameter, in
\* order, appended to the parameter scope.
ParamBindings(ps, id) == [i \in 1..Len(ps) |-> [name |-> ps[i], ent |-> id + i - 1]]

(***************************************************************************)
(* A function definition (the FUNCTION_DEF case, lines 307-356, and        *)
(* ir_gen_function up to its body, 520-577): the linkage comes from the    *)
(* definition's own specifiers, the binding is appended, a parameter scope *)
(* gets one binding per parameter, and the body's compound statement       *)
(* pushes its block scope.                                                 *)
(***************************************************************************)
FunctionDef(n, st, ps) ==
  LET p == Len(scopes) + 1
      pb == ParamBindings(ps, nextId)
  IN /\ AtTop /\ Step /\ CValid(hist[n], n, [st |-> st, init |-> "def"])
     /\ hist' = [hist EXCEPT ![n] = Append(@, [st |-> st, init |-> "def"])]
     /\ globals' = [globals EXCEPT ![n].linkage =
                      IF st = "static" THEN "local" ELSE "global"]
     /\ \E g \in AppendBinding(scopes[1], [name |-> n, ent |-> n]),
           ps1 \in AppendAll(NewScope("param", 1), pb) :
          scopes' = [scopes EXCEPT ![1] = g] \o <<ps1, NewScope("block", p)>>
     /\ ref' = <<ref[1] \cup {[name |-> n, ent |-> n]}, ToSet(pb)>>
     /\ cur' = p + 1
     /\ open' = <<[kind |-> "func", prev |-> 1]>>
     /\ nextId' = nextId + Len(ps)
     /\ UNCHANGED <<lastUse, stores, status, tagVars>>

\* A mutant of LeaveFunction: only the body's scope is left, so env->scope
\* stays at the parameter scope after the function.
LeaveFunctionOneLevel ==
  /\ open # <<>> /\ Last(open).kind = "func"
  /\ cur' = scopes[cur].parent
  /\ open' = Front(open)
  /\ ref' = Front(ref)
  /\ UNCHANGED <<scopes, globals, hist, nextId, lastUse, stores, status, items, tagVars>>

\* The end of ir_gen_function: the body's compound statement restores its
\* parent (line 623), then the function restores the parameter scope's
\* parent (594).
LeaveFunction ==
  /\ open # <<>> /\ Last(open).kind = "func"
  /\ cur' = scopes[scopes[cur].parent].parent
  /\ open' = Front(open)
  /\ ref' = Front(ref)
  /\ UNCHANGED <<scopes, globals, hist, nextId, lastUse, stores, status, items, tagVars>>

\* Where a declaration may stand as a block item: directly in a compound
\* statement, which the body of a function also is.
InBlock == open # <<>> /\ Last(open).kind \in {"func", "block"}

\* BLOCK_ITEM_DECL (line 612): add_decl_to_scope into env->scope.
BlockDecl(d) ==
  /\ InBlock /\ Step /\ FreshIn(d, Last(ref))
  /\ \E r \in AddDeclToScope(scopes[cur], nextId, d) :
       /\ scopes' = [scopes EXCEPT ![cur] = r.sc]
       /\ nextId' = r.id
       /\ stores' = r.stores
  /\ ref' = [ref EXCEPT ![Len(ref)] = @ \cup ToSet(DeclOrder(d, nextId))]
  /\ UNCHANGED <<cur, open, globals, hist, lastUse, status, tagVars>>

\* COMPOUND_STATEMENT entry (lines 603-606).
EnterBlock ==
  /\ InBlock /\ Step
  /\ scopes' = Append(scopes, NewScope("block", cur))
  /\ cur' = Len(scopes) + 1
  /\ open' = Append(open, [kind |-> "block", prev |-> cur])
  /\ ref' = Append(ref, {})
  /\ UNCHANGED <<globals, hist, nextId, lastUse, stores, status, tagVars>>

\* COMPOUND_STATEMENT exit (line 623): env->scope = env->scope->parent_scope.
LeaveBlock ==
  /\ open # <<>> /\ Last(open).kind = "block"
  /\ cur' = scopes[cur].parent
  /\ open' = Front(open)
  /\ ref' = Front(ref)
  /\ UNCHANGED <<scopes, globals, hist, nextId, lastUse, stores, status, items, tagVars>>
InFunction == open # <<>>

(***************************************************************************)
(* FOR_STATEMENT with a declaration (lines 880-893): a for-init scope      *)
(* whose parent is env->scope receives the declaration, and stays          *)
(* env->scope for the condition, the body and the update. env->scope is    *)
(* saved in prev_scope first.                                              *)
(***************************************************************************)
EnterForDecl(d) ==
  LET s == Len(scopes) + 1
  IN /\ InFunction /\ Step /\ FreshIn(d, {})
     /\ \E r \in AddDeclToScope(NewScope("for", cur), nextId, d) :
          /\ scopes' = Append(scopes, r.sc)
          /\ nextId' = r.id
          /\ stores' = r.stores
     /\ cur' = s
     /\ open' = Append(open, [kind |-> "for", prev |-> cur])
     /\ ref' = Append(ref, ToSet(DeclOrder(d, nextId)))
     /\ UNCHANGED <<globals, hist, lastUse, status, tagVars>>

\* FOR_STATEMENT with an expression or nothing as init (lines 894-898).
EnterForExpr ==
  /\ InFunction /\ Step
  /\ open' = Append(open, [kind |-> "for", prev |-> cur])
  /\ ref' = Append(ref, {})
  /\ UNCHANGED <<scopes, cur, globals, hist, nextId, lastUse, stores, status, tagVars>>

\* A mutant of LeaveFor: the restore of prev_scope is left out.
LeaveForKeepScope ==
  /\ open # <<>> /\ Last(open).kind = "for"
  /\ cur' = cur
  /\ open' = Front(open)
  /\ ref' = Front(ref)
  /\ UNCHANGED <<scopes, globals, hist, nextId, lastUse, stores, status, items, tagVars>>

\* The end of FOR_STATEMENT (line 935): env->scope = prev_scope.
LeaveFor ==
  /\ open # <<>> /\ Last(open).kind = "for"
  /\ cur' = Last(open).prev
  /\ open' = Front(open)
  /\ ref' = Front(ref)
  /\ UNCHANGED <<scopes, globals, hist, nextId, lastUse, stores, status, items, tagVars>>

LocalNames ==
  UNION {ToSet(ps) : ps \in Params}
    \cup UNION {NamesOf(ToSet(DeclOrder(d, 0))) : d \in BlockDecls \cup ForDecls}

(***************************************************************************)
(* IDENTIFIER_EXPR (lines 1003-1009): binding_for_name from env->scope; an *)
(* unknown name ends the compilation. Only names C has in scope are used.  *)
(***************************************************************************)
Use(n) ==
  LET got == BindingForName(scopes, cur, n)
  IN /\ InFunction /\ Step
     /\ \E i \in 1..Len(ref) : n \in NamesOf(ref[i])
     /\ lastUse' = [got |-> got, want |-> CLookup(ref, n)]
     /\ status' = IF got = Junk THEN "aborted" ELSE "run"
     /\ UNCHANGED <<scopes, cur, open, ref, globals, hist, nextId, stores, tagVars>>

\* A mutant of TagTarget: a definition always makes a new type, leaving
\* the forward-declared one incomplete.
TagTargetFresh(op, existing, new) ==
  IF existing # Junk /\ op # "def" THEN existing ELSE new

\* The type a tag specifier gives (lines 2223-2249): search in the one
\* struct_types table, whatever the scope; a hit is the type, else
\* struct_type makes a new one.
TagTarget(op, existing, new) == IF existing # Junk THEN existing ELSE new

(***************************************************************************)
(* The STRUCT/UNION case of decl_specifier_list_to_c_type (2215-2302), for *)
(* a file-scope declaration without declarators (line 428), or in a       *)
(* function a block-scope one (add_decl_to_scope, 2395) or a type name. A definition of a tag     *)
(* whose type is complete fails the assert at 2244; so does, by a NULL     *)
(* ir_type, a field of a struct type the code holds incomplete. Otherwise  *)
(* the fields are laid out and the type completed in place.                *)
(* Only tags C has in scope are used, and a definition is valid C: not of  *)
(* a type already complete in its scope, with complete field types.        *)
(***************************************************************************)
TagSpecifier(pos, td) ==
  LET t == td.t
      existing == tagOf[t]
      got == TagTarget(td.op, existing, nextId)
      want == CTag(ref, td, nextId)
      isDef == td.op = "def"
      fails == isDef /\ \/ existing # Junk /\ types[existing].complete
                        \/ \E u \in FieldTags(td.body) :
                              tagOf[u] = Junk \/ ~types[tagOf[u]].complete
      newType == IF isDef
                 THEN StructLayout(td.body.kind, td.body.packed,
                        [i \in 1..Len(td.body.fields) |->
                           FieldInfo(types, tagOf, td.body.fields[i])])
                 ELSE IncompleteType
  IN /\ IF pos = "top" THEN AtTop ELSE InFunction
     /\ Step
     /\ td.op = "use" => \E i \in 1..Len(ref) : t \in NamesOf(ref[i])
     /\ isDef => /\ want \notin cdone
                 /\ \A u \in FieldTags(td.body) :
                      \E i \in 1..Len(ref) : u \in NamesOf(ref[i]) /\ CLookup(ref, u) \in cdone
     /\ IF fails
        THEN /\ status' = "aborted"
             /\ lastTag' = [got |-> Junk, want |-> want]
             /\ UNCHANGED <<tagOf, types, cdone, ref, nextId>>
        ELSE /\ tagOf' = [tagOf EXCEPT ![t] = got]
             /\ types' = IF isDef \/ got # existing THEN (got :> newType) @@ types ELSE types
             /\ ref' = IF want = nextId
                       THEN [ref EXCEPT ![Len(ref)] = @ \cup {[name |-> t, ent |-> want]}]
                       ELSE ref
             /\ cdone' = IF isDef THEN cdone \cup {want} ELSE cdone
             /\ nextId' = IF got = nextId \/ want = nextId THEN nextId + 1 ELSE nextId
             /\ lastTag' = [got |-> got, want |-> want]
             /\ UNCHANGED status
     /\ UNCHANGED <<scopes, cur, open, globals, hist, lastUse, stores>>

\* The translation unit may end after any top-level item, and nothing moves
\* once an assert has fired.
Terminated == (AtTop \/ status = "aborted") /\ UNCHANGED vars

Next ==
  \/ \E n \in Globals : \E f \in DeclForms(n) : GlobalDecl(n, f)
  \/ \E n \in Functions, st \in DefStorages, ps \in Params : FunctionDef(n, st, ps)
  \/ LeaveFunction
  \/ \E d \in BlockDecls : BlockDecl(d)
  \/ EnterBlock
  \/ LeaveBlock
  \/ \E d \in ForDecls : EnterForDecl(d)
  \/ EnterForExpr
  \/ LeaveFor
  \/ \E n \in Globals \cup LocalNames : Use(n)
  \/ \E pos \in {"top", "block"} : \E td \in TagForms(pos) : TagSpecifier(pos, td)
  \/ Terminated

Spec == Init /\ [][Next]_vars

-----------------------------------------------------------------------------
(***************************************************************************)
(* The refinement mapping to ScopeStack: the Scopes from global_scope to   *)
(* env->scope along parent_scope links, one frame each, except that a      *)
(* parameter scope and the function body's compound statement make one C   *)
(* scope (C11 6.2.1p4). The entity found is the last binding_for_name.    *)
(***************************************************************************)
RECURSIVE ChainOf(_)
ChainOf(s) == IF s = 0 THEN <<>> ELSE ChainOf(scopes[s].parent) \o <<s>>

RECURSIVE FramesOf(_)
FramesOf(ch) ==
  IF ch = <<>> THEN <<>>
  ELSE IF scopes[Head(ch)].kind = "param" /\ Len(ch) > 1
  THEN <<scopes[ch[1]].binds \o scopes[ch[2]].binds>> \o FramesOf(Tail(Tail(ch)))
  ELSE <<scopes[Head(ch)].binds>> \o FramesOf(Tail(ch))

Abstract == INSTANCE ScopeStack
  WITH Names <- Globals \cup LocalNames, NotFound <- Junk,
       stack <- FramesOf(ChainOf(cur)), found <- lastUse.got

(***************************************************************************)
(* Properties.                                                             *)
(***************************************************************************)

\* The Scope chain that compound statements, for statements and
\* ir_gen_function build through parent_scope links, with env->scope
\* saved and restored around each, behaves as a stack of frames: a
\* declaration only extends the innermost frame, leaving a construct gives
\* back exactly the chain that was there before it, and binding_for_name
\* finds the binding of the innermost frame that has the name.
ScopeChainRefinesStack == Abstract!Spec

\* Every identifier the lowering resolves (binding_for_name over the chain
\* that compound statements, for statements and ir_gen_function build and
\* restore) denotes the declaration C's scope rules select: the innermost
\* one in scope, parameters and outer blocks shadowed by inner ones, and a
\* for-init declaration gone once the for statement ends.
LookupMatchesC == lastUse.got = lastUse.want

\* Each initializer that add_decl_to_scope lowers stores into the variable
\* it declares, even when lowering the initializer appended enumerators to
\* the same scope and the bindings array grew under the binding pointer.
InitStoresToDeclared == \A st \in stores : st.to = st.var

\* After any sequence of file-scope declarations and function definitions,
\* the IrGlobal of each name has the linkage C11 6.2.2 gives it (the first
\* declaration's) and an object has the value 6.9.2 gives it: the
\* initializer of its definition, zero for tentative definitions only, and
\* no initializer when every declaration is extern.
GlobalMatchesC ==
  \A n \in Globals : hist[n] # <<>> =>
     /\ globals[n].linkage = CLinkage(hist[n])
     /\ n \in Objects => globals[n].init = CValue(hist[n])

\* Every struct or union tag the lowering resolves (the struct_types
\* search and struct_type) denotes the type C11 6.7.2.3 gives it: a
\* forward declaration and the later definition are one type, a use in a
\* function sees the file-scope type, and a definition never fails or
\* makes a second type where C completes or declares one.
TagMatchesC == lastTag.got = lastTag.want

\* Every completed struct or union layout obeys the layout laws: fields lie
\* inside the total size, in declaration order and without overlap for a
\* struct, at offset 0 for a union, each struct field aligned unless the
\* struct is packed, and the total size a multiple of the alignment.
LayoutLaws ==
  \A id \in DOMAIN types : types[id].complete =>
    LET ty == types[id]
        F == DOMAIN ty.fields
    IN /\ \A i \in F : ty.size >= ty.fields[i].off + ty.fields[i].size
       /\ ty.size % ty.align = 0
       /\ ty.kind = "union" => \A i \in F : ty.fields[i].off = 0
       /\ ty.kind = "struct" =>
            \A i \in F :
              /\ ~ty.packed => ty.fields[i].off % ty.fields[i].align = 0
              /\ i > 1 => ty.fields[i].off >= ty.fields[i-1].off + ty.fields[i-1].size
====
