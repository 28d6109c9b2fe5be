# TLA+ models of the naive C compiler's IR generator

This directory model-checks `src/src/ir_gen.c`: the pass that turns the
parsed AST of a C translation unit into the compiler's basic-block IR.
The spec (`spec.md`) covers this pass and nothing else. The parser
(`src/unnamed/part_001`) and an older copy of this file
(`src/unnamed/part_000`) are listed as components but are not modelled.

## 1. The system

`ir_gen_toplevel` walks the list of top-level items once. There is a single
mutable `Env`:

- the scope chain;
- `break_target` and `continue_target`;
- `case_labels`;
- `goto_labels` and `goto_fixups`;
- `inline_functions`;
- the type tables;
- a scratch function into which `sizeof` lowers its operand.

Alongside it, the `IrBuilder` keeps the current function and the current
block. Nothing runs concurrently. The hard behaviour is the order in which
a recursive walk does things:

- state is saved in C locals before a nested call and restored after it;
- blocks are allocated early and laid out late;
- a case is registered only after its body is lowered;
- gotos are patched in a pass at the end of the unit.

### Components

| Component | Code | State it changes | Operations |
|---|---|---|---|
| Top-level driver | `ir_gen_toplevel`, `ir_gen_function` | `inline_functions`, `goto_labels` / `goto_fixups`, globals | function definition, inline deferral, `extern inline` emission, global declarations, typedefs, goto fixup pass, implicit `ret_void` |
| Statement lowerer | `ir_gen_statement` | current block, `function->blocks`, break/continue targets, `case_labels`, goto tables | one template per statement kind |
| Expression lowerer | `ir_gen_expr` and helpers | current block (for `&&`, `\|\|`, `?:`), instructions | arithmetic, conversions, pointer arithmetic, lvalues, calls, short-circuit operators, ternary |
| Constant evaluator | `eval_constant_expr` | none: it asserts that lowering added no block or instruction | `ir_gen_expr` in CONST_CONTEXT, then the IrConst of the folded term |
| Type environment and declarators | `decl_specifier_list_to_c_type`, `decl_to_cdecl` | struct/union/enum/typedef tables, pointer-type cache | forward declarations, completion, struct layout, enumerators, declarator folding |
| Initializer compiler | `make_c_initializer`, `ir_gen_c_init`, `const_gen_c_init`, `is_full_initializer` | a CInitializer tree, stores or constant bytes | designators, brace elision, string literals, array size inference |
| Scopes and bindings | `add_decl_to_scope`, `binding_for_name` | the Scope chain | block scopes, for-init scope, parameters |

### Properties per component

- **Statement lowerer**:
  - each function's CFG is well formed: every block is laid out once, ends in a terminator, and branches only within the function;
  - break and continue reach the innermost construct;
  - a switch dispatches to exactly its own cases;
  - each block holds exactly one terminator (spec §8);
  - instructions are only appended, and the goto fixup pass rewrites only the placeholder branch of each goto (action property);
  - every placeholder branch a goto emits is eventually bound by the fixup pass (liveness).
- **Expression lowerer**:
  - phi predecessors are the branching blocks (spec §8);
  - integer conversions, integer and pointer arithmetic, bitwise and unary operators, and comparisons compute what C11 prescribes;
  - `++`, `--` and compound assignments store and yield what C11 prescribes;
  - identifier, `*`, `[]`, `.`, `->` and `&` expressions yield, in r-value and l-value context, the object and the value C11 gives them;
  - a call and its callee, lowered separately, agree on where each argument is, copy struct arguments, and give the caller C's return value.
- **Driver**:
  - a goto resolves to a label in its own function (spec §8);
  - each file-scope name gets the linkage and value C11 6.2.2 and 6.9.2 give it.
- **Scopes and bindings**:
  - every identifier resolves to the declaration C's scope rules select;
  - a declaration's initializer is stored into the variable it declares;
  - the scope chain implements the abstract scope stack of `ScopeStack` (refinement).
- **Type environment**:
  - every struct or union tag denotes the type C11 6.7.2.3 gives it;
  - every completed layout obeys the layout laws (spec §8);
  - every declarator folds to the type C11 6.7.6 gives the declared name.
- **Initializer compiler**:
  - a global or local initializer produces the object C11 6.7.9 prescribes;
  - `const_gen` gives the same bytes as zero plus stores (spec §8).
- **Planned** for the other components:
  - pointer-type identity.

## 2. Modules

### IrGenStatement.tla

`IrGenStatement.tla` models the statement lowerer, the top-level driver for
function definitions, and the block structure of the short-circuit and
ternary operators.

**The input program.** It is not fixed. Whenever `ir_gen_statement` would be
entered (`mode = "stmt"`), one statement action fires, and each corresponds
to one kind of statement C allows at that point. So TLC enumerates every
program within the bounds. Guards only rule out invalid C:

- `case` and `default` outside a switch;
- a second `default` in a switch;
- a label defined twice in a function;
- `break` or `continue` outside a loop or switch.

**The recursion.** The recursion of `ir_gen_statement` is the variable
`stack`. A construct with a nested statement pushes a frame holding the C
locals that live across the call, such as `before_block`,
`prev_break_target` and `prev_case_labels`. When the nested statement
returns (`mode = "ret"`), a continuation action runs the code after the call
and pops the frame. For example:

- `IfBegin` is lines 653–678, `IfElse` is 679–687 and `IfEnd` is 688–707;
- `WhileEnd` is 825–836 and `ForEnd` is 914–941.

**The IR.** It is abstracted to what the properties tell apart. The
variable `ir` holds:

- per block, a list of instructions, each with an opcode (`op`, `phi`,
  `ret`, `ret_void`, `br`, `cond`), its branch targets, and a phi's
  predecessor blocks;
- the IrFunction each block was allocated for;
- each IrFunction's layout (`function->blocks`);
- the current function and the current block.

`AddBlock` is `add_block`. `PoolBlock` is a `pool_alloc` that is not yet
laid out. `AppendToFunction` and the `InsertAt` in `DispatchChain` are the
later `ARRAY_APPEND` / `ARRAY_INSERT` into `function->blocks`.

**Expressions.** They are small ASTs: `var`, `and`, `or`, `ternary`.
`LowerExpr` is a RECURSIVE operator that follows lines 1302–1396. It
allocates the rhs/after (or then/else/after) blocks first, lowers the
operands, takes the *resultant* blocks after each operand, and builds the
phi. Expressions lower atomically because they contain no statements.
A `sizeof` node follows `SIZEOF_EXPR_EXPR` (lines 1414–1434). `InScratch`
switches the builder to the last block of the scratch function, the first
IrFunction `ir_gen_toplevel` creates (`Scratch`, lines 282–287). The
operand is lowered there, with all its blocks and phis, and `Restored`
puts the builder's function and block back. The scratch function is not
laid out in the output (line 508), so `Finished` leaves it out.

**The driver.**

- `FunctionDef` / `InlineFunctionDef` are the two paths of `case
  FUNCTION_DEF`.
- `ExternInlineDecl` is the `extern inline` declaration that emits a
  deferred body.
- `FunctionEnd` is the implicit `ret_void` of `ir_gen_function`.
- `EndOfUnit` is the fixup loop at lines 489–503. It aborts, as the code's
  assert does, when a label is missing.

**Case constants.** `CaseEnd` appends the case-list entry and then takes
its value from `eval_constant_expr` (`EvalConstantExpr`). That function
lowers the expression in CONST_CONTEXT and asserts that no block was added
to the function and no instruction to the current block (`AddedNothing`). A
leaf constant folds and passes. `&&`, `||` and `?:` call `add_block` in any
context, so they trip the assert, and the model goes to `aborted` with the
function unfinished. Inside `sizeof`, the same expression adds its blocks
to the scratch function, and the check passes; `CaseEnd` keeps what was
added there. `Finished` therefore excludes the function being
lowered until its frames are popped. The folded value is not modelled,
because the folding happens in `ir.c`, outside `src/`.

**History variables.** Two variables record what the code never stores:

- `caseHist` holds every case/default block with the switch it belongs to;
- `switchLog` holds the dispatch each switch built, read back from the IR
  by `ChainOf`.

### MCIrGenStatement.tla

`MCIrGenStatement.tla` defines the expression ASTs each configuration uses. `StmtCaseExprs` gives a case label either a plain constant or `(c ? a : b) && d`.

### IrGenInitializer.tla

`IrGenInitializer.tla` models the initializer compiler (lines 1873–1907,
2392–2430, 2443–2831 and the global declaration path at 460–478).

**Memory.** An object is a sequence of cells, one per scalar; `SizeOf`,
`MemberOffset` and `NumFields` stand for `c_type_size`, the struct layout
and `c_type_num_fields`, which live outside `src/`. Padding is not modelled:
the properties compare which value lands in which scalar, and padding holds
none.

**The CInitializer tree.** A node is `[type, kind, val, sub]`. `sub = <<>>`
is a NULL `sub_elems` and `type = NoType` the NULL type of a slot no
initializer touched; both are what `memset(.., 0, ..)` leaves. Paths of
0-based member indices address nodes (`NodeAt`, `PutAt`).

**Operators, one per C function.**

- `Make` is `make_c_initializer`: the string case allocates `len + 1`
  leaves, the brace case `NumFields` zero slots and then runs `Elems`.
- `Elems` is the element loop. `Designate` is the designator walk, with
  `containing_init`, `curr_elem` and `curr_elem_index` as its arguments;
  sub-elements are allocated lazily there.
- A write through `sub_elems + i` past the allocation yields `UbNode`; an
  assert or `UNIMPLEMENTED` (an expression for an aggregate, which is where
  brace elision ends up) yields `AbortNode`.
- `LeafFor` is the expression leaf. In const context the IrConst of
  `eval_constant_expr` has the IR type of the expression: int for a
  literal, pointer for `&g`. The switch on the target type asserts
  `IR_INT` for an integer target and `IR_POINTER` for a pointer target.
  Otherwise `convert_type` makes any scalar fit.
- `IsFull` is `is_full_initializer`, `Stores` is `ir_gen_c_init`, `ZeroInit`
  is `zero_initializer`, `ConstGen` / `ConstGenArray` / `ConstSlot` are
  `const_gen_c_init` / `const_gen_c_init_array` and their NULL-slot test,
  and `Infer` / `MaxIndex` are `infer_array_size_from_initializer`.
- A read past a `sub_elems` allocation (`ShortAlloc`) is undefined: the
  pool may hold zeros (then the slot looks NULL and is skipped) or anything
  else. The actions choose `past \in {"zero", "junk"}`, and junk is the `ub`
  outcome.

**The reference.** `RefObject` is C11 6.7.9, written independently of the
code. It walks a *position* (a path): a designator list sets it, an
undesignated element takes the next subobject in order (`NextPos` pops out
of finished aggregates), and a scalar at an aggregate position descends to
its first scalar. Unnamed members are zero. A pointer takes a pointer or a
null pointer constant, and an integer takes an integer (`Assignable`,
6.5.16.1). An incomplete array is as long
as its last initialized element requires. `Asts` generates every
initializer within the bounds. `Decls` keeps the valid C ones: an excess
element or a mismatched initializer is rejected.

**Actions.** One declaration (`decl`) is chosen in `Init` and compiled
both ways:

- `GlobalNoInit`: `zero_initializer`.
- `GlobalInit`: infer, `Make` in const context, `const_gen`.
- `LocalAssign`: the plain-assignment branch of `add_decl_to_scope` for an expression initializer.
- `LocalInit`: `ir_gen_initializer`, which is infer, `Make`, memset unless full, and stores into uninitialised (`Junk`) memory.

`Terminated` stutters once both are done.

### IrGenArith.tla

`IrGenArith.tla` models integer conversions and arithmetic:

- `convert_type` (1909–1966) as `Convert`;
- `do_arithmetic_conversions_with_blocks` (1976–2031) as `ArithConv`;
- `ir_gen_add` (1700–1766) as `IrGenAdd`, with `PtrOffset` for pointer plus integer;
- `ir_gen_sub` (1768–1841) as `IrGenSub`;
- `ir_gen_cmp` for integers (1604–1673) as `IrGenCmp`, for all six comparisons;
- `ir_gen_binary_operator` (1684–1698) as `IrGenBinaryOperator`: `+` and `-` go to `IrGenAdd` and `IrGenSub`, and `&`, `|` and `^` act on the converted bit patterns;
- `ir_gen_assign_op` (1496–1534) as `IrGenAssignOp`: the operator's result is converted back to the lvalue's type, stored, and yielded;
- the actions:
  - `Cast` (1436–1441);
  - `Binary` (`ir_gen_binary_expr`);
  - `Cmp` (`ir_gen_cmp_expr`);
  - `Unary` for `-`, `!` and `~` (1117–1143);
  - `AssignOp` for `+=`, `-=`, `&=`, `|=` and `^=` (`ir_gen_assign_expr`);
  - `IncDec` for the four forms of `++` and `--` (`ir_gen_inc_dec`, 1843–1872), which add or subtract the int constant 1 through `ir_gen_assign_op`.

The variable `stored` holds the value an assignment operator stores into
its lvalue. `out` holds the value the expression yields: for `x++` and
`x--`, the value `ir_gen_assign_op` loaded before the store.

**Values.** A term is `[ctype, b, const]`, where `b` is the IR bit pattern
in its type's width. IR instructions are modelled by what they compute:

- `OP_TRUNC` is `Trunc`, `OP_SEXT` is `Sext`, and `OP_ZEXT` keeps the bits;
- `OP_ADD`, `OP_SUB`, `OP_MUL` and `OP_NEG` are taken modulo 2^w;
- `OP_BIT_AND`, `OP_BIT_OR` and `OP_BIT_XOR` are `&`, `|` and `^^` of the `Bitwise` module;
- `OP_BIT_NOT` is `2^w - 1 - b` in the operand's width;
- a signed `OP_DIV` truncates toward zero.

Widths are scaled down but keep the real order: char 2 bits, short 3, int
4, long and long long 6, pointers 6. Scaling changes no case distinction
in the code: every branch compares widths or ranks, and every overflow
needs only "narrower than" or "same width".

**The reference.** `CResult` is C11:

- integer promotions, then the usual arithmetic conversions (`Usual`);
- values modulo 2^w for unsigned types;
- a signed overflow is undefined, and the property says nothing about it;
- a pointer is its address, and p ± i moves by i elements.

`Exprs` enumerates operands at the edge values of their type (min, -1, 0,
1, max). An integer literal (type int, value ≥ 0) is a constant; the code
takes the `OP_FIELD` path for constants. Pointers point into one array of
`ObjLen` elements, and only arithmetic that C defines within that array
(or one past its end) is generated.

### IrGenLvalue.tla

`IrGenLvalue.tla` extends `IrGenArith` with object access. It lowers
these cases of `ir_gen_expr`:

- `IDENTIFIER_EXPR` (1003–1031) as `IrGenIdent`. Functions, arrays and structs, and any identifier in l-value context, give the bound address. An enumerator gives its constant. A scalar variable gives a load.
- `STRUCT_DOT_FIELD_EXPR` and `STRUCT_ARROW_FIELD_EXPR` lower their operand as an r-value and call `ir_gen_struct_field` (1536–1573), modelled as `IrGenStructField`. The field is found by name and its address taken; in r-value context a scalar field is loaded.
- `DEREF_EXPR` calls `ir_gen_deref` (1575–1594), modelled as `IrGenDeref`. The operand is decayed; in r-value context a pointee that is not a struct or an array is loaded.
- `INDEX_EXPR` is `ir_gen_deref` of `IrGenAdd`. `IrGenAdd` now decays array operands first (`DecayToPointer`, lines 1702–1703).
- `ADDRESS_OF_EXPR` lowers its operand in l-value context and gives it the pointer type.
- `INT_LITERAL_EXPR` gives a constant.

`IrGenAccess` dispatches on the expression kind. It starts with the check
that only these five kinds reach l-value context (lines 970–979).

The program is fixed:

```c
struct S { int i; int v[2]; };
int x = 1; int a[2] = {2, 3}; struct S s = {4, {5, 6}};
int *p = &a[1]; struct S *q = &s; enum { E = 3 }; int f(void);
```

It is laid out from `LvBase`, and `Mem` holds its scalars. `build_load`
(`Load`) reads `Mem`, giving -1 where no scalar lives. `build_field`
(`BuildField`) adds the field's offset.

The reference is C11 6.3.2.1 and 6.5.2–6.5.3:

- `CType` is the expression's type;
- `CObj` is the object or function it designates;
- `CVal` is its value, where an aggregate or a function is its address, as the IR represents it.

`AccessAsts` builds every access expression up to `LvDepth` levels that C
defines:

- every `*`, `[]` and `->` reaches an object of the program;
- `&` applies only to l-values;
- an index is `x`, `E`, 0 or 1;
- a pointer to an array is indexed by 0 only. The IR scaling of other constants (line 1731) depends on `c_type.c`, which is outside `src/`.

The action `Access` lowers one expression in the context given with it.
`LvInit` and `LvNext` join these expressions to those of `IrGenArith`.

### IrGenCall.tla

`IrGenCall.tla` extends `IrGenLvalue` with one call, caller and callee
together, as four actions of a single walk:

- `CallBegin` is `FUNCTION_CALL_EXPR` up to `build_call` (1219–1268). The callee `f` or `&f` is lowered and a pointer to function stripped (`CalleeFnType`). `ArgArray` puts a pointer to the caller's local `RetLocal` first when the function returns a struct (`Shift`), then each argument lowered as an r-value and converted to its parameter type; a struct argument is its address.
- `Prologue` is the parameter loop of `ir_gen_function` (540–578). `ParamBind` (`cdecl_to_binding`) gives each parameter a local at `ParamAddr(i)`; `AssignParams` assigns it IR argument `IrArgIndex(i)`, which is `i + 1` after a struct return pointer, through `ir_gen_assign_op` (`AssignArg`: a memcpy for a struct, else a store).
- `Body` runs the body `{ [p1.i = 7;] return R; }`: the optional store through `ir_gen_struct_field`, then `RETURN_STATEMENT` (632–650), which memcpys a struct through IR argument 0 or returns R converted to the return type.
- `CallEnd` is the rest of `FUNCTION_CALL_EXPR` (1270–1281): a struct return yields the caller's local, anything else the returned value.

`Calls` enumerates every type-correct call with up to two parameters of
type int, char, long or `struct S`, arguments among `x`, `s.i`, `E`, `s`
and `*q`, a return type int, char or `struct S`, and R a parameter, `s`
or the literal 5: about 2,000 calls. `mem` holds the globals of
`IrGenLvalue` and the locals. `AllSpec` starts either in the expressions
of `IrGenLvalue` or in one call.

### IrGenScope.tla

`IrGenScope.tla` models the Scope chain and file-scope declarations.

**State.**

- `scopes` holds every Scope entered. A Scope has:
  - its kind;
  - its parent;
  - its bindings, in order;
  - the capacity of its `Array(Binding)` (`ARRAY_INIT`: 10 global, 0 for parameters, 5 for a block, 1 for a for-init);
  - `gen`, which counts how often `ARRAY_APPEND` has moved its storage.
- `cur` is `env->scope`.
- `open` holds the handlers still running, each with the scope it will restore.
- `globals` is the IrGlobal of each file-scope name: its linkage and its initializer.
- `tagOf` is `type_env->struct_types`: the one table of struct and union tags, with no scopes.
- `types` holds each struct CType made so far: complete or not, and its layout (field offsets, sizes and alignments, total size, alignment, packed).

**Actions.**

- `GlobalDecl` models the DECL case of `ir_gen_toplevel` with `ir_global_for_decl`.
- `FunctionDef` models the FUNCTION_DEF case up to the body, together with the parameter loop of `ir_gen_function`.
- `LeaveFunction` restores the scope after the function.
- `BlockDecl` models `add_decl_to_scope`. Its enumerators are appended first, then each declarator: binding, initializer, store.
- `EnterBlock`/`LeaveBlock` model a compound statement.
- `EnterForDecl`/`EnterForExpr`/`LeaveFor` model the for statement's scope handling.
- `Use` models `IDENTIFIER_EXPR` through `binding_for_name`.
- `TagSpecifier` models the struct/union case of `decl_specifier_list_to_c_type` (lines 2215–2302). It is reached from a file-scope declaration without declarators (line 428), a block-scope declaration, or a type name in an expression. `TagTarget` is the search-or-create, and `StructLayout` is the field loop with the total size and alignment. A definition of a tag whose type is complete fails the assert at 2244. A by-value field whose struct the code holds incomplete crashes on the NULL `ir_type`; the model records both as `aborted`.

**The reference.** Beside the code's state the module keeps C's view:

- `ref` is a stack of sets of visible declarations. The parameters and the function body share one C scope (C11 6.2.1p4).
- `hist` holds each file-scope name's declarations. `CLinkage` and `CValue` read linkage and value from it.
- Tags also live in `ref`, and `cdone` is the set of tag types C holds complete. `CTag` is C11 6.7.2.3: `struct t;` and a definition declare `t` in the current scope, while a use denotes the visible `t`.
- Only valid C is generated: no name twice in one C scope, and a file-scope name that is static is static from its first declaration.

**Moving storage.** Where `ARRAY_APPEND` fills an array, realloc may or may not move it. This is modelled by nondeterminism, since `array.h` is not in `src/`. A binding pointer taken before the move and read after it is a read of freed memory, and the store then goes anywhere (`Junk`).

**Refinement.** `ChainOf(cur)` is the `parent_scope` chain from the file scope to `env->scope`. `FramesOf` reads that chain as a stack of frames: a parameter scope and the function body's scope above it make one frame, because C gives them one scope. `Abstract == INSTANCE ScopeStack WITH stack <- FramesOf(ChainOf(cur)), found <- lastUse.got` maps the code's state to the abstract stack. `ScopeChainRefinesStack == Abstract!Spec` is checked as a PROPERTY.

### IrGenDeclarator.tla

`IrGenDeclarator.tla` models declarator folding, `decl_to_cdecl` and
`direct_declarator_to_cdecl` (lines 2066–2193), as two mutually
`RECURSIVE` operators over declarator ASTs of the shape spec section 5
gives:

- `DeclToCdecl` handles a NULL declarator (no name) and a pointer declarator, which wraps the type in `PointerType` and recurses.
- `DirectDeclToCdecl` handles an identifier, which gives the name, and parentheses, which recurse. An array folds its element declarator first and then wraps the result in `ArrayType` (lines 2100–2119). A function builds its type first, in `FunctionType`, and passes it down (2120–2190).
- `FunctionType` counts the `PARAMETER_DECL`s. An ellipsis makes the function variadic. `ParamCType` folds each parameter and applies `decay_to_pointer`. A lone `void` parameter makes the function nullary.
- `ParamAsserts` collects the asserts of the loop: a `void` parameter is first and unnamed, and `(void)` is not variadic.

Types are compared by structure, so the pointer-type cache is not
modelled. The one action, `Fold`, folds the declaration in `decl` into
`cdecl`, or aborts if an assert fires. `CType` is the reference, C11
6.7.6 as the standard states it: `T D[n]` gives the identifier in `D`
the type with `T` replaced by "array of n T". `Declarations` lists the
declarations of `x` whose C type is valid.

### ScopeStack.tla

`ScopeStack.tla` states what lexical scoping promises, with no reference to the code. The state is a stack of frames of bindings and the entity the last lookup gave. It has these steps, each stated as a relation between the stack before and after:

- `Declare` only extends the innermost frame;
- `Enter` pushes a frame;
- `DefineFunction` extends the file scope and pushes the function's frame;
- `Leave` pops back to exactly the stack that was there before;
- `Lookup` resolves a name in the innermost frame that binds it (`Resolve`).

### MCIrGenScope.tla

`MCIrGenScope.tla` defines the programs: one function `f` with at most
one parameter `a`, block-scope names `a` and `b`, the enumerator `A`, and
file-scope objects `x` and `y`, struct tag `s` and union tag `u`.
`PassForms` and `AllForms` give the forms a file-scope declaration may
take. `PassTagForms` allows these tag specifiers:

- at file scope: `struct s;`, `struct s {char c; int i;};`, the same with `__attribute__((packed))`, and `union u {struct s v; char c;};`;
- in a function: casts to `struct s *` and `union u *`.

`ShadowTagForms` also allows `struct s {int i;};` in a function.
`ScopeDeclSpec` starts from either the scope programs or one
declaration of `IrGenDeclarator`, folded from the same initial state.
`ScopeOnlySpec` runs the scope programs alone.

### MCIrGenArith.tla

`MCIrGenArith.tla` extends `IrGenCall` (and through it `IrGenLvalue` and `IrGenArith`). `ArithSpec` runs the expressions of `IrGenArith` alone, with the call state idle; the signed_index run uses it. The module sets the widths and defines the sets of operand types
each configuration uses.

### MCIrGenInitializer.tla

`MCIrGenInitializer.tla` defines the C types:

- `S1 = struct{int x, y}` and `S2 = struct{S1 a; int b}`;
- `int[2]`, `int[2][2]`, `char[3]` and `int[]`;
- `S3 = struct{char s[2]; int n}`;
- `int *` and `S4 = struct{int *p; int n}`. A pointer cell holds 0 or `AddrOfG`, the address of a global `g`.

## 3. Runs

| Run | Config | Checks | Result |
|---|---|---|---|
| statements | MCStatement.cfg | TypeOK, CfgWellFormed, TargetsTrackNesting, SwitchDispatchesOwnCases, InstrsAppendOnly, GotoEventuallyBound | pass, 742k states, ~3 min |
| driver | MCDriver.cfg | CfgWellFormed, TargetsTrackNesting, PhiJoinsPredecessors | pass, 254k states, ~1.5 min |
| goto_scope | MCGoto.cfg | GotoResolvesWithinFunction | violation |
| initializers | MCInitializer.cfg | InitMatchesC, ConstMatchesRuntime | pass, 33k states, ~1 min |
| nested_designator | MCDesignator.cfg | InitMatchesC | violation |
| nested_array_const | MCNestedArray.cfg | ConstMatchesRuntime | violation |
| short_string | MCShortString.cfg | InitMatchesC | violation |
| arithmetic | MCArith.cfg | IntArithMatchesC, CmpMatchesC, PtrArithMatchesC, AssignMatchesC, AccessMatchesC, ParamsMatchC, CallMatchesC | pass, 24k states, 7 s |
| signed_index | MCSignedIndex.cfg | PtrArithMatchesC | violation |
| scopes | MCScope.cfg | LookupMatchesC, GlobalMatchesC, TagMatchesC, LayoutLaws, DeclaratorMatchesC, ScopeChainRefinesStack | pass, 449k states, ~70 s |
| static_linkage | MCLinkage.cfg | GlobalMatchesC | violation |
| declarator | MCDeclarator.cfg | DeclaratorMatchesC | violation |

### The properties

- **CfgWellFormed.** After `ir_gen_function` returns:
  - the function's layout lists each block allocated for it exactly once (the pool-allocated `while.after`, `for.update`, `for.after` and `switch.cmp` blocks included);
  - every block ends in a terminator;
  - no branch leaves the function.
- **TargetsTrackNesting.** `env->break_target` and `env->continue_target` always equal the after/continue block of the innermost open loop or switch, as computed from the frame stack. Outside any function both are NULL.
- **SwitchDispatchesOwnCases.** The compare chain of every switch selects exactly the case blocks written in that switch and not in a nested one. Its final branch goes to that switch's default, or to `switch.after` when there is none. This is hard to get right because cases are registered *after* their bodies, and a nested switch swaps `case_labels` out and back.
- **InstrsAppendOnly.** This is an action property. No step removes a block or an instruction, and no step rewrites an emitted instruction, except one: the fixup pass at the end of `ir_gen_toplevel` sets the NULL target of a branch a goto recorded to the block of a label with the goto's name. The fixup holds its instruction from the `goto` to the end of the unit. Writing through a fixup recorded for the wrong instruction would corrupt an unrelated branch or op; `GotoResolvesWithinFunction` would not notice this when the goto itself still resolves.
- **GotoEventuallyBound.** A liveness property under `FairSpec`. Whenever a block holds the placeholder `br NULL` a goto emitted, eventually no block holds one, or the walk aborted. The goto records a fixup for its instruction; the pass at the end of `ir_gen_toplevel` must bind every recorded one. A goto whose fixup is never recorded leaves a NULL branch for the backend.
- **PhiJoinsPredecessors.** Every phi lists exactly the blocks that branch to its block.
- **InitMatchesC.** A global or local declaration compiles to the object that C prescribes, or the compiler stops on an assert or `UNIMPLEMENTED`. It must never give different contents, and never crash or read out of bounds. Every stage feeds into it:
  - the designator walk;
  - the memset decision;
  - store offsets;
  - const_gen's zero slots;
  - the inferred length.
- **IntArithMatchesC / CmpMatchesC / PtrArithMatchesC.** Each of these expressions, read in the result type the lowering gives it, equals C's value whenever C defines one:
  - a cast, sum, difference or bitwise operation of integers;
  - `-`, `!` or `~`;
  - any of the six comparisons;
  - a pointer ± integer or pointer − pointer.
- **AssignMatchesC.** `++`, `--` and the compound assignments store the value C gives the lvalue into it. For char lvalues this means the result is converted back to the narrow type. The expression yields the stored value, except that the post forms yield the value before the store.
- **AccessMatchesC.** An identifier, `*`, `[]`, `.`, `->` or `&` expression has C's type in either context. In l-value context it yields the address of the object C designates. In r-value context it yields the value C reads, or the address of an aggregate or a function. Each nested `ir_gen_expr` call decides separately whether to load or to keep an address: the `NotLoaded` test of `IDENTIFIER_EXPR`, `ir_gen_struct_field`, `ir_gen_deref`, and the decay in `ir_gen_add`. A wrong choice at one level shows only through the chain above it, as in `q->v[x]`, `(*q).v` and `&s.v[1]`.
- **ParamsMatchC.** When the callee's body starts, each parameter holds the caller's argument converted to the parameter's type; a struct parameter holds the argument's contents. The caller's `arg_array` and the callee's `ir_arg_index` are computed in different functions and must agree, also behind the struct return pointer.
- **CallMatchesC.** After the call the caller holds the value C returns, converted to the return type; a struct is returned through the caller's local. No object of the caller has changed, although a struct argument is passed by address (the `@TODO` at line 1263): the callee's prologue must copy it before the body assigns to it.
- **LookupMatchesC.** Every identifier resolves to the declaration C selects. Compound statements, for statements and `ir_gen_function` must each restore `env->scope` to the right parent.
- **ScopeChainRefinesStack.** Every step of the scope model is a step of `ScopeStack`, or leaves the abstract stack unchanged. A declaration never disturbs an outer scope's bindings. Leaving a block, a for statement or a function restores exactly the outer stack. A use finds what the abstract stack resolves. The property relates every state to the one before it, which `LookupMatchesC` does not: a scope left one level short shows up at the next step, even before a later use reads it.
- **GlobalMatchesC.** After any prefix of the translation unit, each IrGlobal has the linkage and the initial value that C gives the declarations seen so far.
- **TagMatchesC.** Every struct or union specifier resolves to the type C gives the tag. A forward declaration and its later definition are one type, completed in place, and uses inside a function see the file-scope type.
- **LayoutLaws.** This is spec §8. Every completed struct or union has its fields inside the total size, and a struct's fields in order without overlap. A union's fields are at offset 0. A struct's fields are aligned unless it is packed, and the total size is a multiple of the alignment. The union embedding the packed or unpacked `struct s` checks sizes taken from a nested layout.
- **DeclaratorMatchesC.** `decl_to_cdecl` gives every declaration of `x` the name `x` and the type C11 6.7.6 gives it, without tripping an assert. A declaration here can nest pointers, arrays, functions and parentheses up to four levels. Parameters are adjusted to pointers, and `(void)` means no parameters. The fold recurses in two directions: pointer and function declarators pass the derived type down, while an array declarator wraps the result on the way up. Each nesting of one inside the other is checked.
- **ConstMatchesRuntime.** This is spec §8: the global path and the local path give the same outcome for the same initializer.

### The violations

- **goto_scope.** The trace is `void f1(){ l1: ; } void f2(){ l1: goto l1; }`. The goto in `f2` is patched to `f1`'s label block, because the fixup pass runs once over all labels of the unit and takes the first match (lines 489–503 and the `@TODO` there).

- **nested_designator.** The trace is `struct S2 s = {.a.x = 1, 1};`. After the designator list, `containing_init` is reset to the outer brace, but `curr_elem_index` keeps the index of the *last* designator (0, for `.x`). The next element therefore goes to index 1 of the outer struct, `s.b`. C and the spec ("nested designators descend") put it in `s.a.y`. Both paths agree, so only InitMatchesC sees it.
- **nested_array_const.** The trace is `int a[2][2] = {{2}};` at file scope. `const_gen_c_init_array` recurses into the second row, whose CInitializer was never touched and so has a NULL type, and the `assert(type->t == ARRAY_TYPE)` at line 2781 dereferences it. The local version compiles to `2,0,0,0`.
- **short_string.** The trace is `char c[3] = "a";`. It allocates two `sub_elems`, but `is_full_initializer`, `ir_gen_c_init` and `const_gen_c_init_array` all iterate over three. Reading the third reads pool memory past the allocation.

- **signed_index.** The trace is `(-1) + p`: an add whose left operand is the `int` −1 (15 in the model's 4-bit int) and whose right operand is a `char *` p = 17. The index is zero-extended to pointer width (`OP_ZEXT`, line 1748; line 1823 does the same for subtraction) instead of sign-extended, so the IR gives 17 + 15 = 32 in the 6-bit pointer, where C gives p − 1 = 16. In the real widths the pointer moves by 2^32 − 1 elements forward instead of one back.

- **static_linkage.** The trace is `static int x; extern int x;`. The second declaration sets the linkage to `IR_GLOBAL_LINKAGE` (line 445), so `x` is exported. C11 6.2.2p4 keeps the internal linkage of the first declaration. The same happens to `static int f(void);` followed by `int f(void) {...}` (line 311).

- **declarator.** The trace is `char (*x)[2];` (the run folds declarators at most three deep, and the only other declaration of x it finds wrong is `int (*x)[2];`, of the same shape). The array declarator's element declarator is the parenthesised `*x`. `direct_declarator_to_cdecl` folds it first, which gives `x` the type pointer to char, and then wraps that in `array_type` (lines 2103–2106). So `x` becomes an array of two pointers to char. C11 6.7.6.2p3 gives a pointer to an array of two char. Pointer and function declarators are passed down correctly; only the array case wraps after recursing. No parser avoids this, because the parentheses sit inside the array's element declarator. With unequal lengths, `int a[2][3]` is folded as `int[3][2]` too, if the parser nests the dimensions as C's grammar does.

More disagreements came up while modelling. They are kept as hazards
rather than runs:

- `int x = 1; int x;` at file scope compiles `x` as 0. The tentative definition resets the initializer (line 463).
- `for (int a = sizeof(enum {A}); ...)`: lowering the initializer appends `A` to the one-slot for-init array. The array grows, and `binding->term` is read through the old pointer (line 2422). `InitStoresToDeclared` in IrGenScope states that every initializer's store goes to the variable being declared. No run checks it: in every other program the model reaches it holds by construction (the brace path receives `binding->term` before lowering, and no block grows past three of its five slots). With `ForDecls` overridden in MCScope.cfg by a definition equal to `{SizeofEnumFor}` and `INVARIANT InitStoresToDeclared` added, TLC finds it violated in a three-state trace.
- `struct s {char c; int i;}; void f(void) { struct s {int i;}; }`: the inner definition finds the file-scope `s` in the single `struct_types` table (line 2228) and trips "redefinition of struct or union type". C11 6.7.2.3 makes it a new type in the block scope, and the `@TODO` at 2225 names the fix. Set `TagForms <- ShadowTagForms` in `MCScope.cfg` to see TagMatchesC fail.
- `extern int x = 1;` trips `assert(!is_extern)` (line 466).
- `case (1 ? 2 : 3) && 4:` trips the sanity assert of `eval_constant_expr` (line 2047), because `?:` and `&&` add blocks even in CONST_CONTEXT. The statements run reaches this abort. Under `MCDriver.cfg` with `MaxDepth = 4`, `MaxItems = 3` and `CaseExprs <- StmtCaseExprs`, the invariant `mode # "aborted"` fails in 2 s.
- `if (c) return;` puts a `br` after the `ret` in `if.then` (line 700), against the spec's "exactly one terminator". `ExactlyOneTerminator` states the rule. The code only guarantees that the last instruction is a terminator, which CfgWellFormed checks.
- `(signed char)-1 + (unsigned char)0` gives 255 where C gives -1, because `do_arithmetic_conversions` skips the integer promotions (line 1984). Spec §4.3.1 states the code's rule. Set `IntTypes <- NarrowTypes` to see IntArithMatchesC fail.

- `long long` against `unsigned long`, which have equal width. The code converts to the signed type, where C converts both operands to `unsigned long long`. So `LLONG_MIN < 0UL` is 1. Set `IntTypes <- EqualWidthTypes` to see it. The spec states the code's rule.
- Pointer difference cast to int before the division (the `@TODO ptrdiff_t` at line 1793). It fails once an array spans 2^31 bytes, or with `ObjLen = 4` and `PointeeSizes = {2}` in the scaled widths.

- `~x` is typed int whatever `x` is (line 1119, with a `@TODO` above it). `OP_BIT_NOT` keeps the operand's IR type. So `~0u` reads as -1, `(long)~0u` is -1, and `~0u > 5` is 0. Set `BitNotTypes <- WideTypes` to see IntArithMatchesC fail.
- `int *p = 0;` at file scope trips `assert(konst->type.t == IR_POINTER)` (line 2582). `eval_constant_expr` types the literal 0 as `IR_INT`, while a block-scope `int *p = 0;` compiles through `convert_type`. Set `PtrInits = {"null", "addr"}` in `MCInitializer.cfg` to see ConstMatchesRuntime fail.
- `*f`, `*&f` and the callee of `(*fp)()` load from the function's code: `ir_gen_deref` loads every pointee that is not a struct or an array (line 1587). In C these expressions give the function designator (6.5.3.2p4). Set `FnDerefs = TRUE` in `MCArith.cfg` to see AccessMatchesC fail on `*f`.
- `-x` keeps `x`'s type without promotion (line 1141). So `-(unsigned char)3` is 253 where C gives -3. Set `IntTypes <- NarrowTypes` to see it.

The passing arithmetic run therefore uses:

- `IntTypes = {int, unsigned, long, unsigned long}`;
- `~` of int only, and `++`/`--` also of `char` and `unsigned char`. There the int 1 is converted to before the add and the sum converted back, so the result is right;
- indexes whose zero-extension is harmless (`unsigned char`, `unsigned`, and the pointer-width `long`s);
- arrays of at most 6 bytes.

### Mutants

Each property of a passing run is shown to be breakable by a plausible
bug. The mutant operator sits in the module just before the definition it
replaces:

| Mutant | Bug | Breaks |
|---|---|---|
| `LabelBlockNoAdd` | the label block made current without `add_block` | TypeOK |
| `NeedsRetVoidEmptyOnly` | the implicit `ret_void` only for an empty last block | CfgWellFormed |
| `RestoreBreakOnly` | `continue_target` not restored after a loop | TargetsTrackNesting |
| `CloseSwitchKeepCases` | `case_labels` not restored after a switch | SwitchDispatchesOwnCases |
| `FixupAtOffByOne` | the fixup pass looks up the instruction one before the goto's branch | InstrsAppendOnly |
| `LowerExprStaleLhs` | `lhs_resultant_block` read before lowering the lhs | PhiJoinsPredecessors |
| `IsFullNullIsFull` | a NULL-typed slot counted as full, so the memset is skipped | InitMatchesC |
| `ConvertExtByTarget` | sign- or zero-extension chosen by the target type's signedness | IntArithMatchesC |
| `IrGenCmpKeepSigned` | the `CMP_S*` to `CMP_U*` switch dropped | CmpMatchesC |
| `IrGenAssignOpUnconverted` | the result stored without `convert_type` to the lvalue's type | AssignMatchesC |
| `PtrOffsetUnscaled` | the index not multiplied by `sizeof *pointee` | PtrArithMatchesC |
| `IrGenStructFieldLoadAll` | `ir_gen_struct_field` loads array and struct fields too | AccessMatchesC |
| `LeaveForKeepScope` | `env->scope = prev_scope` dropped at the end of a for | LookupMatchesC |
| `LeaveFunctionOneLevel` | after a function only the body's scope is left, so `env->scope` stays at the parameter scope | ScopeChainRefinesStack |
| `GlobalDeclZeroExtern` | the `!is_extern` test dropped before the zero initializer | GlobalMatchesC |
| `TagTargetFresh` | a definition makes a new type instead of completing the forward-declared one | TagMatchesC |
| `StructLayoutUnaligned` | the `align_to` of each struct field's offset dropped | LayoutLaws |
| `GotoNoFixup` | a goto emits its placeholder branch without recording the fixup | GotoEventuallyBound |
| `IrArgIndexNoShift` | `ir_arg_index` not moved past the struct return pointer | ParamsMatchC |
| `ParamBindByAddress` | a struct parameter bound to the caller's object, not copied into a local | CallMatchesC |
| `ParamCTypeNoDecay` | a parameter's type kept without `decay_to_pointer`, so an array or function parameter stays one | DeclaratorMatchesC |
| `ConstSlotNoNullCheck` | `const_gen_c_init` without the `sub_init->type == NULL` test | ConstMatchesRuntime |

## 4. Bounds

- **MaxDepth** bounds the frames on the stack; the function and its body compound are two of them.
- **MaxItems** bounds, per function, the block items plus the statements that nest another (if, switch, case, loops, compound, labels).

The statement run uses MaxDepth 4 and MaxItems 4. That reaches:

- a loop inside a loop;
- a switch inside a switch with a default;
- a case whose body is a loop;
- goto forward and backward to a label.

Case constants also include `sizeof((c ? a : b) && d)`, whose blocks go to the scratch function.
These are the shapes each mutant above needs. With depth 5 the run takes
about 4 minutes and finds nothing new.

Expressions:

- The statement run uses only a plain operand, since block structure comes from statements.
- The driver run puts `(c ? a : b) && d` in every expression position, under depth 3. It is the least nesting at which the `&&` reads a resultant block (the `?:`'s join) that differs from the block where the lhs started. It also exercises both phis: the one of `?:` and the one of `&&`. `||` shares the `&&` code path, with only the constant flipped.

The driver run uses two function names, so it covers:

- two definitions;
- an inline definition plus an `extern inline` declaration;
- a definition after an emitted function.

The initializer runs bound brace lists to `MaxElems = 2` elements,
nesting to `MaxBraces = 2`, and values to `{1, 2}`. Two values tell a
misplaced element from a correctly placed one, and zero and `Junk` are
distinct from both. The passing run allows one designator per element
(`MaxDesig = 1`). With two, the nested_designator bug is found, so the
passing run uses one to check everything else. Its string lengths
(`{2, 3}`) fill `char[3]` exactly or leave room only for the NUL, which
avoids the short_string over-read. `S3` carries a string inside braces.
Pointers are initialized only by `&g` (`PtrInits = {"addr"}`), because a
null pointer constant aborts the global path (see the hazards). Pointer
initializers are offered only inside types that have a pointer member;
offering them at every position made the enumeration take 11 minutes.
Larger bounds make the initial-state enumeration (every initializer of
every type) exceed several minutes without adding a new shape.

The arithmetic runs use:

- scaled widths: char 2, short 3, int 4, long 6, pointer 6 bits;
- operands at the five edge values of each type;
- `Base = 16` and `ObjLen = 3` with element sizes 1 and 2, so every pointer difference fits in the scaled int;
- access expressions nested `LvDepth = 4` deep: about 1,600 of them. Two levels already mix every pair of cases (`q->v`, `a[x]`, `&s.i`); four reach chains like `&(*q).v[1]` and `*&q->v[0]`. The globals, 2-byte ints and pointers placed from address 32, lie inside the 6-bit address space.

The call part bounds signatures to two parameters: enough for a struct
return pointer to move two arguments, and for a struct and a scalar
parameter to be side by side. Each parameter local is one `struct S` in
size, placed from `CalleeBase = 8`, below the globals.

Two operand types and one operator are enough for each wrong case the
code has. The enumeration is every pair of types, so adding types grows
the run quadratically without adding a new branch of the code.

The declarator part folds every declaration of `x` with base `int` or
`char` and up to `MaxDeclDepth = 4` derived declarators: 356
declarations. Lengths are the single literal 2. Parameter lists are:

- `(void)`, `(int p)` and `(int p, ...)`;
- `(int q, P)`, with `P` a named int, an abstract char, an array, an abstract pointer or a function.

Four levels reach a function returning a pointer to a function
(`int (*x(void))(void)`). The
passing run lets an array declarator wrap only an identifier or another
array of the same length, where the order of wrapping cannot be seen.
The declarator run also lets it wrap a parenthesised pointer, with at
most `MaxDeclDepth = 3` derived declarators: then the only declarations
it folds wrongly are `char (*x)[2]` and `int (*x)[2]`. Incomplete
lengths (`[]`) are left out: with them, `int a[][2]` has the same
parser-dependent order as unequal lengths.

The scope runs bound the program to `MaxItems = 5` items. Closing a
block, a for or a function does not count as an item. Five items reach:

- a parameter shadowed by a for-init variable and used after the loop;
- a definition followed by an extern declaration;
- a for-init whose second declarator grows the array;
- a brace initializer whose `sizeof(enum {A})` grows it under a held pointer.

Names are distinct within a C scope, so a block never gets past three
bindings and never reaches its capacity of 5. The for-init scope, with
capacity 1, is where growth happens.

The passing run:

- gives `x` a definition and extern declarations;
- gives `y` only static tentative definitions;
- gives `f` only non-static declarations.

It thereby avoids the static_linkage and tentative-after-definition bugs
and checks everything else.

Tags in the passing run are declared and defined only at file scope and
only used in functions. A tag declared or defined in a function would hit
the unscoped table (see the hazards). The two forms of `s` cover
padding (offsets 0 and 4, size 8) and packing (offsets 0 and 1, size 5,
alignment 1). `u` embeds whichever one was chosen.

## 5. Fairness and liveness

The compiler is a sequential tree walk that waits on nothing: when a step
of the walk is enabled, the code takes it. `IrGenStatement` therefore
states `FairSpec == Spec /\ WF_vars(Next)`, weak fairness of its next-state
relation, and the statements run checks `GotoEventuallyBound` under it.
The property is not true by the shape of the model: it depends on every
goto recording its fixup and on the pass at the end of the unit binding
it, and the `GotoNoFixup` mutant violates it. The other modules state no
liveness. Their walks end by the bounds of the model, and the only
eventual obligation in them, that a lowering finishes, holds whatever the
code does. The `Terminated` action lets finished behaviours stutter, so
deadlock checking stays on and reports any state in which the code would
be stuck.

## 6. What is not modelled, and the plan

Not modelled:

- **Values and types in the statement model.** `IrGenStatement` keeps control flow, not values or types; `IrGenArith` and `IrGenInitializer` model the values. Pointer conditions (the `OP_CAST` in `if`) and the `assert`s that a condition is an integer are outside it.
- **Declarations in the statement model.** `IrGenScope` models declarations as scope actions. `IrGenStatement` does not, because they add instructions to the current block but no blocks, except through initializers that contain `&&` or `?:`.
- **Typedefs and enum tags.** Typedef names, enum tags, anonymous structs and pointer fields that name a tag are not modelled. Declarator folding is modelled on the AST shape of spec section 5. Where that shape leaves the parser a choice, the runs avoid the case: multidimensional arrays of unequal lengths, and `[]` inside another array.
- **A second `extern inline` declaration** of the same function. The code would emit the body again; the model emits each deferred body once.
- **The parser** and **`part_000`**.

Planned, in order:

1. **Initializer compiler (done in part).** Still missing:
   - address constants with an offset (`&a[1]`, `&s.f`); pointer leaves of `&g` and `0` are done;
   - struct-valued expression initializers, the memcpy leaf of `ir_gen_c_init`;
   - expressions other than integer literals.
2. **Pointer and integer arithmetic (done in part).** Still missing:
   - multiplication, division, modulo and shifts, whose signedness is decided in the IR backend outside `src/`;
   - pointer comparisons against null and globals;
   - plain assignment and stores through the access expressions of `IrGenLvalue`, and string literals;
   - variadic calls, calls without a prototype, the `va_*` builtins and calls through a function pointer variable. Direct calls of `f` and `&f` are done (`IrGenCall`).
3. **Type environment (done in part).** Tags and struct layout are done. Declarator folding is done as well. Still missing: the pointer-type cache, enum tags and typedef names.
4. **Scopes and bindings (done).** The scope chain is shown to refine the abstract `ScopeStack`.
