--------------------------- MODULE IrGenStatement ---------------------------
(***************************************************************************)
(* The statement lowerer and top-level driver of src/src/ir_gen.c: how     *)
(* ir_gen_toplevel, ir_gen_function and ir_gen_statement build the basic   *)
(* blocks of every function, keep Env's break/continue targets and case    *)
(* list, and record goto labels and fixups that are patched at the end of  *)
(* the translation unit.                                                   *)
(*                                                                         *)
(* The C source being compiled is not fixed in advance: at each point      *)
(* where ir_gen_statement is entered, the next statement is chosen from    *)
(* the kinds C allows there, so TLC walks every program within the bounds. *)
(* ir_gen_statement is recursive; its C call stack is the variable stack,  *)
(* one frame per statement whose lowering waits for a nested statement,    *)
(* holding the locals the code keeps across that call (prev_break_target,  *)
(* before_block, ...).  An action is the code between two such calls.      *)
(*                                                                         *)
(* Data is abstracted away: an instruction keeps only its opcode, its      *)
(* branch targets and (for a phi) its predecessor blocks; an expression    *)
(* keeps only the operators that build blocks (&&, ||, ?:).               *)
(***************************************************************************)
EXTENDS Naturals, Sequences, SequencesExt, FiniteSets

CONSTANTS
    Funcs,      \* names of the functions the translation unit defines
    Labels,     \* goto label names
    Exprs,      \* expression ASTs met as conditions and expression statements
    CaseExprs,  \* expression ASTs met as the constant of a case label
    MaxDepth,   \* bound on nested statements (frames on the C call stack)
    MaxItems    \* bound on block items and nesting statements per function

NoBlock == 0          \* a NULL IrBlock *
NoExpr == [t |-> "none"]

ASSUME MaxDepth \in Nat /\ MaxItems \in Nat

VARIABLES
    ir,          \* the IrBuilder and the IR it built: see below
    breakT,      \* env->break_target
    contT,       \* env->continue_target
    cases,       \* env->case_labels: <<[default, block]>>
    gotoLabels,  \* env->goto_labels: <<[name, block]>>
    gotoFixups,  \* env->goto_fixups: <<[name, block, idx]>> (the branch instr)
    inlineFns,   \* env->inline_functions: names of deferred inline bodies
    defined,     \* functions whose definition the driver has met
    emitted,     \* inline functions whose body an extern inline decl emitted
    stack,       \* frames of ir_gen_statement / ir_gen_function in progress
    mode,        \* "top" | "stmt" (entering ir_gen_statement) | "ret"
                 \* (returned to the frame on top) | "done" | "aborted"
    items,       \* block items and nesting statements begun in this function
    caseHist,    \* history: every case/default block and its switch
    switchLog    \* history: the dispatch every lowered switch built

vars == <<ir, breakT, contT, cases, gotoLabels, gotoFixups, inlineFns,
          defined, emitted, stack, mode, items, caseHist, switchLog>>

(***************************************************************************)
(* The IR.  ir.code[b] is the instruction list of block b (block ids are   *)
(* allocation order), ir.owner[b] the IrFunction b was allocated for,      *)
(* ir.layout[e] the block list (function->blocks) of IrFunction e, ir.fn   *)
(* and ir.cur are builder->current_function and builder->current_block.   *)
(***************************************************************************)
Instr(op, to, from) == [op |-> op, to |-> to, from |-> from]
Terminators == {"ret", "ret_void", "br", "cond"}

\* add_block: a new empty block appended to the current function.
NewBlockId(b) == Len(b.code) + 1
AddBlock(b) ==
    [b EXCEPT !.code = Append(@, <<>>), !.owner = Append(@, b.fn),
              !.layout[b.fn] = Append(@, NewBlockId(b))]
\* pool_alloc of an IrBlock: it exists but is not in function->blocks yet.
PoolBlock(b) == [b EXCEPT !.code = Append(@, <<>>), !.owner = Append(@, b.fn)]
\* *ARRAY_APPEND(&function->blocks) = blk; block_init(blk, ...)
AppendToFunction(b, blk) == [b EXCEPT !.layout[b.fn] = Append(@, blk)]
Emit(b, i) == [b EXCEPT !.code[b.cur] = Append(@, i)]
SetCur(b, blk) == [b EXCEPT !.cur = blk]
Branch(b, target) == Emit(b, Instr("br", <<target>>, <<>>))
Cond(b, t, f) == Emit(b, Instr("cond", <<t, f>>, <<>>))
Op(b) == Emit(b, Instr("op", <<>>, <<>>))
\* env->scratch_function, the first IrFunction ir_gen_toplevel adds
\* (lines 282-287); its blocks are never laid out in the output, as
\* "__scratch" is removed from the globals at the end (line 508)
Scratch == 1
\* SIZEOF_EXPR_EXPR (lines 1414-1434): the operand is lowered into the last
\* block of the scratch function, then the builder's function and block
\* are restored; the value is a constant and emits nothing
InScratch(b) == [b EXCEPT !.fn = Scratch, !.cur = Last(b.layout[Scratch])]
Restored(b1, b) == [b1 EXCEPT !.fn = b.fn, !.cur = b.cur]

(***************************************************************************)
(* ir_gen_expr, restricted to what changes blocks.  A leaf is any          *)
(* expression lowered into the current block; && and || open rhs/after    *)
(* blocks and join with a phi, ?: opens then/else/after and joins.         *)
(***************************************************************************)
\* mutant: lhs_resultant_block read before the lhs is lowered
RECURSIVE LowerExprStaleLhs(_, _)
LowerExprStaleLhs(b, e) ==
    CASE e.t = "var" -> Op(b)
      [] e.t \in {"and", "or"} ->
            LET rhs   == NewBlockId(b)
                after == rhs + 1
                b1 == LowerExprStaleLhs(AddBlock(AddBlock(b)), e.l)
                b2 == IF e.t = "or" THEN Cond(b1, after, rhs)
                                    ELSE Cond(b1, rhs, after)
                b3 == Branch(Op(LowerExprStaleLhs(SetCur(b2, rhs), e.r)), after)
            IN Emit(SetCur(b3, after), Instr("phi", <<>>, <<b.cur, b3.cur>>))
      [] e.t = "ternary" ->
            LET then  == NewBlockId(b)
                b1 == Cond(LowerExprStaleLhs(AddBlock(AddBlock(AddBlock(b))), e.c),
                           then, then + 1)
                b2 == LowerExprStaleLhs(SetCur(b1, then), e.l)
                b3 == LowerExprStaleLhs(SetCur(b2, then + 1), e.r)
                b4 == Branch(SetCur(Branch(SetCur(b3, b2.cur), then + 2),
                                    b3.cur), then + 2)
            IN Emit(SetCur(b4, then + 2), Instr("phi", <<>>, <<b2.cur, b3.cur>>))
      [] e.t = "sizeof" -> Restored(LowerExprStaleLhs(InScratch(b), e.e), b)

RECURSIVE LowerExpr(_, _)
LowerExpr(b, e) ==
    CASE e.t = "var" -> Op(b)
      [] e.t \in {"and", "or"} ->
            LET rhs   == NewBlockId(b)
                after == rhs + 1
                b1 == LowerExpr(AddBlock(AddBlock(b)), e.l)
                b2 == IF e.t = "or" THEN Cond(b1, after, rhs)
                                    ELSE Cond(b1, rhs, after)
                lhsRes == b2.cur
                b3 == Branch(Op(LowerExpr(SetCur(b2, rhs), e.r)), after)
                rhsRes == b3.cur
            IN Emit(SetCur(b3, after), Instr("phi", <<>>, <<lhsRes, rhsRes>>))
      [] e.t = "ternary" ->
            LET then  == NewBlockId(b)
                else  == then + 1
                after == then + 2
                b1 == Cond(LowerExpr(AddBlock(AddBlock(AddBlock(b))), e.c),
                           then, else)
                b2 == LowerExpr(SetCur(b1, then), e.l)
                thenRes == b2.cur
                b3 == LowerExpr(SetCur(b2, else), e.r)
                elseRes == b3.cur
                b4 == Branch(SetCur(Branch(SetCur(b3, thenRes), after),
                                    elseRes), after)
            IN Emit(SetCur(b4, after), Instr("phi", <<>>, <<thenRes, elseRes>>))
      [] e.t = "sizeof" -> Restored(LowerExpr(InScratch(b), e.e), b)

\* A NULL expression (absent for-condition, init or update) emits nothing.
LowerOpt(b, e) == IF e = NoExpr THEN b ELSE LowerExpr(b, e)

(***************************************************************************)
(* Frames and the constructs that are open.                                *)
(***************************************************************************)
Top == stack[Len(stack)]
Push(f) == Append(stack, f)
Pop == Front(stack)
Breakable == {"switch", "while", "dowhile", "for"}
Loops == {"while", "dowhile", "for"}
InnermostIdx(kinds) == SelectLastInSeq(stack, LAMBDA f : f.kind \in kinds)
\* the block a break / continue must reach, from the open constructs
BreakExpected ==
    IF InnermostIdx(Breakable) = 0 THEN NoBlock
    ELSE stack[InnermostIdx(Breakable)].after
ContinueExpected ==
    IF InnermostIdx(Loops) = 0 THEN NoBlock
    ELSE stack[InnermostIdx(Loops)].cont
CanNest == Len(stack) < MaxDepth /\ items < MaxItems
\* labels already defined in the function being lowered
LabelsHere == {l.name : l \in {x \in ToSet(gotoLabels) : ir.owner[x.block] = ir.fn}}

(***************************************************************************)
(* The top-level driver: ir_gen_toplevel and ir_gen_function.              *)
(***************************************************************************)
Init ==
    /\ ir = [code |-> <<<<>>>>, owner |-> <<Scratch>>, layout |-> <<<<1>>>>,
             fn |-> 0, cur |-> NoBlock]
    /\ breakT = NoBlock
    /\ contT = NoBlock
    /\ cases = <<>>
    /\ gotoLabels = <<>>
    /\ gotoFixups = <<>>
    /\ inlineFns = <<>>
    /\ defined = {}
    /\ emitted = {}
    /\ stack = <<>>
    /\ mode = "top"
    /\ items = 0
    /\ caseHist = {}
    /\ switchLog = {}

\* add_init_to_function gives the function its entry block; ir_gen_function
\* makes it current and lowers the body, a compound statement.
NewFunction(b) ==
    LET e == Len(b.layout) + 1
    IN [b EXCEPT !.code = Append(@, <<>>), !.owner = Append(@, e),
                 !.layout = Append(@, <<NewBlockId(b)>>), !.fn = e,
                 !.cur = NewBlockId(b)]
BeginBody ==
    /\ ir' = NewFunction(ir)
    /\ stack' = <<[kind |-> "function"], [kind |-> "compound"]>>
    /\ mode' = "ret"
    /\ items' = 0

\* A FUNCTION_DEF without inline: its body is lowered at once.
FunctionDef ==
    /\ mode = "top"
    /\ \E f \in Funcs \ defined :
         /\ defined' = defined \cup {f}
         /\ BeginBody
    /\ UNCHANGED <<breakT, contT, cases, gotoLabels, gotoFixups, inlineFns,
                   emitted, caseHist, switchLog>>

\* A FUNCTION_DEF with inline: the body is deferred in env.inline_functions.
InlineFunctionDef ==
    /\ mode = "top"
    /\ \E f \in Funcs \ defined :
         /\ defined' = defined \cup {f}
         /\ inlineFns' = Append(inlineFns, f)
    /\ UNCHANGED <<ir, breakT, contT, cases, gotoLabels, gotoFixups, emitted,
                   stack, mode, items, caseHist, switchLog>>

\* A DECL "extern inline f(...);": the matching deferred body is lowered now.
\* A second such declaration of f is outside the model (see README).
ExternInlineDecl ==
    /\ mode = "top"
    /\ \E f \in ToSet(inlineFns) \ emitted :
         /\ emitted' = emitted \cup {f}
         /\ BeginBody
    /\ UNCHANGED <<breakT, contT, cases, gotoLabels, gotoFixups, inlineFns,
                   defined, caseHist, switchLog>>

\* End of ir_gen_function: a block not ending in ret/ret_void gets ret_void.
\* mutant: the ret_void only for an empty block
NeedsRetVoidEmptyOnly(instrs) == instrs = <<>>
NeedsRetVoid(instrs) ==
    instrs = <<>> \/ Last(instrs).op \notin {"ret", "ret_void"}
FunctionEnd ==
    /\ mode = "ret"
    /\ Top.kind = "function"
    /\ ir' = IF NeedsRetVoid(ir.code[ir.cur])
             THEN Emit(ir, Instr("ret_void", <<>>, <<>>))
             ELSE ir
    /\ stack' = Pop
    /\ mode' = "top"
    /\ UNCHANGED <<breakT, contT, cases, gotoLabels, gotoFixups, inlineFns,
                   defined, emitted, items, caseHist, switchLog>>

\* The fixup pass after the last top-level: each goto branch takes the block
\* of the first label in env.goto_labels with its name; none is an abort.
LabelFor(name) == SelectInSeq(gotoLabels, LAMBDA l : l.name = name)
\* mutant: the fixup's instruction index read one past the one it recorded
FixupAtOffByOne(blk, i) ==
    SelectInSeq(gotoFixups, LAMBDA x : x.block = blk /\ x.idx = i + 1)
FixupAt(blk, i) ==
    SelectInSeq(gotoFixups, LAMBDA x : x.block = blk /\ x.idx = i)
PatchGotos(code) ==
    [blk \in DOMAIN code |-> [i \in DOMAIN code[blk] |->
        LET k == FixupAt(blk, i) IN
        IF k = 0 \/ LabelFor(gotoFixups[k].name) = 0 THEN code[blk][i]
        ELSE [code[blk][i] EXCEPT
                 !.to = <<gotoLabels[LabelFor(gotoFixups[k].name)].block>>]]]
EndOfUnit ==
    /\ mode = "top"
    /\ ir' = [ir EXCEPT !.code = PatchGotos(@)]
    /\ mode' = IF \A k \in DOMAIN gotoFixups : LabelFor(gotoFixups[k].name) # 0
               THEN "done" ELSE "aborted"
    /\ UNCHANGED <<breakT, contT, cases, gotoLabels, gotoFixups, inlineFns,
                   defined, emitted, stack, items, caseHist, switchLog>>

\* After the translation unit the compiler has stopped.
Terminated ==
    /\ mode \in {"done", "aborted"}
    /\ UNCHANGED vars

(***************************************************************************)
(* ir_gen_statement.  A statement action fires with mode = "stmt"; a       *)
(* leaf sets mode to "ret", a statement with a nested one pushes a frame    *)
(* and leaves mode "stmt", and its continuation fires with mode = "ret"    *)
(* and that frame on top.                                                  *)
(***************************************************************************)
Frozen == UNCHANGED <<inlineFns, defined, emitted>>
Leaf == /\ mode = "stmt" /\ mode' = "ret"
Enter(f) == /\ CanNest /\ stack' = Push(f) /\ mode' = "stmt" /\ items' = items + 1
Resume(kind) == /\ mode = "ret" /\ stack # <<>> /\ Top.kind = kind

\* COMPOUND_STATEMENT: the loop over block items (declarations: see README).
CompoundBegin ==
    /\ mode = "stmt" /\ CanNest
    /\ stack' = Push([kind |-> "compound"]) /\ mode' = "ret"
    /\ items' = items + 1
    /\ Frozen
    /\ UNCHANGED <<ir, breakT, contT, cases, gotoLabels, gotoFixups,
                   caseHist, switchLog>>
CompoundItem ==
    /\ Resume("compound") /\ items < MaxItems
    /\ items' = items + 1 /\ mode' = "stmt"
    /\ Frozen
    /\ UNCHANGED <<ir, breakT, contT, cases, gotoLabels, gotoFixups, stack,
                   caseHist, switchLog>>
CompoundEnd ==
    /\ Resume("compound")
    /\ stack' = Pop /\ mode' = "ret"
    /\ Frozen
    /\ UNCHANGED <<ir, breakT, contT, cases, gotoLabels, gotoFixups, items,
                   caseHist, switchLog>>

\* EXPR_STATEMENT, RETURN_STATEMENT and EMPTY_STATEMENT.
ExprStmt ==
    /\ Leaf
    /\ \E e \in Exprs : ir' = LowerExpr(ir, e)
    /\ Frozen
    /\ UNCHANGED <<breakT, contT, cases, gotoLabels, gotoFixups, stack, items,
                   caseHist, switchLog>>
Return ==
    /\ Leaf
    /\ \/ ir' = Emit(ir, Instr("ret_void", <<>>, <<>>))
       \/ \E e \in Exprs : ir' = Emit(LowerExpr(ir, e), Instr("ret", <<>>, <<>>))
    /\ Frozen
    /\ UNCHANGED <<breakT, contT, cases, gotoLabels, gotoFixups, stack, items,
                   caseHist, switchLog>>
Empty ==
    /\ Leaf
    /\ Frozen
    /\ UNCHANGED <<ir, breakT, contT, cases, gotoLabels, gotoFixups, stack,
                   items, caseHist, switchLog>>

\* IF_STATEMENT: condition into the current block (before_block), then
\* if.then; the else part and the joins follow the nested statements.
IfBegin ==
    /\ mode = "stmt"
    /\ \E e \in Exprs, hasElse \in BOOLEAN :
         LET b1 == LowerExpr(ir, e)
             then == NewBlockId(b1)
         IN /\ ir' = SetCur(AddBlock(b1), then)
            /\ Enter([kind |-> "if", before |-> b1.cur, then |-> then,
                      hasElse |-> hasElse, thenRes |-> NoBlock,
                      else |-> NoBlock])
    /\ Frozen
    /\ UNCHANGED <<breakT, contT, cases, gotoLabels, gotoFixups,
                   caseHist, switchLog>>
IfElse ==
    /\ Resume("if") /\ Top.hasElse /\ Top.else = NoBlock
    /\ LET els == NewBlockId(ir) IN
         /\ ir' = SetCur(AddBlock(ir), els)
         /\ stack' = [stack EXCEPT ![Len(stack)].thenRes = ir.cur,
                                   ![Len(stack)].else = els]
    /\ mode' = "stmt"
    /\ Frozen
    /\ UNCHANGED <<breakT, contT, cases, gotoLabels, gotoFixups, items,
                   caseHist, switchLog>>
IfEnd ==
    /\ Resume("if") /\ (Top.hasElse => Top.else # NoBlock)
    /\ LET f == Top
           after == NewBlockId(ir)
           b1 == SetCur(AddBlock(ir), f.before)
           b2 == IF f.hasElse THEN Cond(b1, f.then, f.else)
                              ELSE Cond(b1, f.then, after)
           thenRes == IF f.hasElse THEN f.thenRes ELSE ir.cur
           b3 == Branch(SetCur(b2, thenRes), after)
           b4 == IF f.hasElse THEN Branch(SetCur(b3, ir.cur), after) ELSE b3
       IN ir' = SetCur(b4, after)
    /\ stack' = Pop /\ mode' = "ret"
    /\ Frozen
    /\ UNCHANGED <<breakT, contT, cases, gotoLabels, gotoFixups, items,
                   caseHist, switchLog>>

\* SWITCH_STATEMENT: a fresh case list and break target around the body,
\* then the controlling expression and the compare chain in switch_entry.
SwitchBegin ==
    /\ mode = "stmt"
    /\ \E e \in Exprs :
         LET after == NewBlockId(ir)
             body == after + 1
         IN /\ ir' = SetCur(AddBlock(AddBlock(ir)), body)
            /\ Enter([kind |-> "switch", entry |-> ir.cur,
                      pos |-> Len(ir.layout[ir.fn]) + 1, after |-> after,
                      prevBreak |-> breakT, prevCases |-> cases, e |-> e])
            /\ breakT' = after
            /\ cases' = <<>>
    /\ Frozen
    /\ UNCHANGED <<contT, gotoLabels, gotoFixups, caseHist, switchLog>>

\* One "switch.cmp" block per non-default case, in case-list order, each
\* inserted into function->blocks at before_body (ahead of switch.after).
RECURSIVE DispatchChain(_, _, _)
DispatchChain(b, cs, pos) ==
    IF cs = <<>> THEN b
    ELSE IF Head(cs).default THEN DispatchChain(b, Tail(cs), pos)
    ELSE LET next == NewBlockId(b)
             b1 == Cond(Op(PoolBlock(b)), Head(cs).block, next)
             b2 == [b1 EXCEPT !.cur = next,
                              !.layout[b.fn] = InsertAt(@, pos, next)]
         IN DispatchChain(b2, Tail(cs), pos + 1)

\* The dispatch a compare chain starting in block blk performs, read back
\* from the code: the blocks its conds select and its final branch.
RECURSIVE ChainOf(_, _)
ChainOf(code, blk) ==
    LET i == Last(code[blk]) IN
    IF i.op = "cond"
    THEN [targets |-> {i.to[1]} \cup ChainOf(code, i.to[2]).targets,
          fallback |-> ChainOf(code, i.to[2]).fallback]
    ELSE [targets |-> {}, fallback |-> i.to[1]]

\* mutant: env->case_labels left as the body's list
CloseSwitchKeepCases(f) == /\ breakT' = f.prevBreak /\ cases' = cases
\* env->break_target and env->case_labels put back after the switch body.
CloseSwitch(f) == /\ breakT' = f.prevBreak /\ cases' = f.prevCases

SwitchEnd ==
    /\ Resume("switch")
    /\ LET f == Top
           b1 == LowerExpr(SetCur(Branch(ir, f.after), f.entry), f.e)
           b2 == DispatchChain(b1, cases, f.pos)
           d == SelectLastInSeq(cases, LAMBDA c : c.default)
           b3 == Branch(b2, IF d = 0 THEN f.after ELSE cases[d].block)
       IN /\ ir' = SetCur(b3, f.after)
          /\ switchLog' = switchLog \cup
                 {[sw |-> f.after] @@ ChainOf(b3.code, b1.cur)}
          /\ CloseSwitch(f)
    /\ stack' = Pop /\ mode' = "ret"
    /\ Frozen
    /\ UNCHANGED <<contT, gotoLabels, gotoFixups, items, caseHist>>

\* The innermost enclosing switch, to which C attaches case and default.
SwitchIdx == InnermostIdx({"switch"})
\* A new block the current one branches to; it becomes current.
\* mutant: the label block is made current without add_block
LabelBlockNoAdd(b) == SetCur(Branch(b, NewBlockId(b)), NewBlockId(b))
LabelBlock(b) == SetCur(Branch(AddBlock(b), NewBlockId(b)), NewBlockId(b))

\* CASE_STATEMENT: the case is registered after its statement is lowered.
CaseBegin ==
    /\ mode = "stmt" /\ SwitchIdx # 0
    /\ ir' = LabelBlock(ir)
    /\ Enter([kind |-> "case", block |-> NewBlockId(ir),
              sw |-> stack[SwitchIdx].after])
    /\ Frozen
    /\ UNCHANGED <<breakT, contT, cases, gotoLabels, gotoFixups,
                   caseHist, switchLog>>
\* eval_constant_expr (lines 2033-2065): ir_gen_expr in CONST_CONTEXT.  A
\* leaf constant folds to an IrConst and emits nothing; &&, || and ?: add
\* their blocks whatever the context.
EvalConstantExpr(b, e) == IF e.t = "var" THEN b ELSE LowerExpr(b, e)
\* Its sanity check: no block added to the function, no instruction to the
\* current block.
AddedNothing(b, b1) ==
    /\ Len(b1.layout[b.fn]) = Len(b.layout[b.fn])
    /\ Len(b1.code[b.cur]) = Len(b.code[b.cur])

\* CASE_STATEMENT after its statement: the case-list entry, then its value
\* from eval_constant_expr, whose failed sanity assert stops the compiler.
CaseEnd ==
    /\ Resume("case")
    /\ cases' = Append(cases, [default |-> FALSE, block |-> Top.block])
    /\ caseHist' = caseHist \cup {[default |-> FALSE, block |-> Top.block,
                                   sw |-> Top.sw]}
    /\ \E e \in CaseExprs :
         LET b1 == EvalConstantExpr(ir, e) IN
         \/ /\ AddedNothing(ir, b1)
            /\ stack' = Pop /\ mode' = "ret"
            /\ ir' = b1
         \/ /\ ~AddedNothing(ir, b1)
            /\ ir' = b1 /\ mode' = "aborted"
            /\ UNCHANGED stack
    /\ Frozen
    /\ UNCHANGED <<breakT, contT, gotoLabels, gotoFixups, items, switchLog>>

\* LABELED_STATEMENT named "default": a case-list entry, made at once.
Default ==
    /\ mode = "stmt" /\ items < MaxItems
    /\ items' = items + 1 /\ SwitchIdx # 0
    /\ ~\E h \in caseHist : h.default /\ h.sw = stack[SwitchIdx].after
    /\ ir' = LabelBlock(ir)
    /\ cases' = Append(cases, [default |-> TRUE, block |-> NewBlockId(ir)])
    /\ caseHist' = caseHist \cup {[default |-> TRUE, block |-> NewBlockId(ir),
                                   sw |-> stack[SwitchIdx].after]}
    /\ Frozen
    /\ UNCHANGED <<breakT, contT, gotoLabels, gotoFixups, stack, mode,
                   switchLog>>

\* Any other LABELED_STATEMENT: an entry of env->goto_labels.
Label ==
    /\ mode = "stmt" /\ items < MaxItems
    /\ items' = items + 1
    /\ \E l \in Labels \ LabelsHere :
         gotoLabels' = Append(gotoLabels, [name |-> l, block |-> NewBlockId(ir)])
    /\ ir' = LabelBlock(ir)
    /\ Frozen
    /\ UNCHANGED <<breakT, contT, cases, gotoFixups, stack, mode,
                   caseHist, switchLog>>

\* mutant: the fixup of the goto's branch not recorded
GotoNoFixup ==
    /\ Leaf
    /\ \E l \in Labels : UNCHANGED gotoFixups
    /\ LET b1 == Branch(ir, NoBlock) IN
         ir' = SetCur(AddBlock(b1), NewBlockId(b1))
    /\ Frozen
    /\ UNCHANGED <<breakT, contT, cases, gotoLabels, stack, items, caseHist,
                   switchLog>>
\* GOTO_STATEMENT: a branch to NULL, its fixup, and a fresh goto.after.
Goto ==
    /\ Leaf
    /\ \E l \in Labels :
         gotoFixups' = Append(gotoFixups, [name |-> l, block |-> ir.cur,
                                           idx |-> Len(ir.code[ir.cur]) + 1])
    /\ LET b1 == Branch(ir, NoBlock) IN
         ir' = SetCur(AddBlock(b1), NewBlockId(b1))
    /\ Frozen
    /\ UNCHANGED <<breakT, contT, cases, gotoLabels, stack, items, caseHist,
                   switchLog>>

\* BREAK_STATEMENT / CONTINUE_STATEMENT inside a construct C allows them in;
\* the code asserts the target is set and branches to it.
Break ==
    /\ Leaf /\ InnermostIdx(Breakable) # 0 /\ breakT # NoBlock
    /\ ir' = Branch(ir, breakT)
    /\ Frozen
    /\ UNCHANGED <<breakT, contT, cases, gotoLabels, gotoFixups, stack, items,
                   caseHist, switchLog>>
Continue ==
    /\ Leaf /\ InnermostIdx(Loops) # 0 /\ contT # NoBlock
    /\ ir' = Branch(ir, contT)
    /\ Frozen
    /\ UNCHANGED <<breakT, contT, cases, gotoLabels, gotoFixups, stack, items,
                   caseHist, switchLog>>

\* Entering a loop body: break to after, continue to the given block; the
\* previous targets are kept in the frame.
LoopFrame(kind, ph, after, cont) ==
    [kind |-> kind, ph |-> ph, after |-> after, cont |-> cont,
     prevBreak |-> breakT, prevCont |-> contT]
EnterLoop(f) == /\ Enter(f) /\ breakT' = f.after /\ contT' = f.cont
\* mutant: env->continue_target not restored
RestoreBreakOnly(f) == /\ breakT' = f.prevBreak /\ contT' = contT
\* env->break_target and env->continue_target put back after the body.
RestoreTargets(f) == /\ breakT' = f.prevBreak /\ contT' = f.prevCont

\* WHILE_STATEMENT: while.ph holds the condition; while.after is allocated
\* first and put into function->blocks only after the body.
While ==
    /\ mode = "stmt"
    /\ \E e \in Exprs :
         LET ph == NewBlockId(ir)
             after == ph + 1
             b1 == LowerExpr(SetCur(Branch(PoolBlock(AddBlock(ir)), ph), ph), e)
             body == NewBlockId(b1)
         IN /\ ir' = SetCur(Cond(AddBlock(b1), body, after), body)
            /\ EnterLoop(LoopFrame("while", ph, after, ph))
    /\ Frozen
    /\ UNCHANGED <<cases, gotoLabels, gotoFixups, caseHist, switchLog>>
WhileEnd ==
    /\ Resume("while")
    /\ ir' = SetCur(AppendToFunction(Branch(ir, Top.ph), Top.after), Top.after)
    /\ RestoreTargets(Top)
    /\ stack' = Pop /\ mode' = "ret"
    /\ Frozen
    /\ UNCHANGED <<cases, gotoLabels, gotoFixups, items, caseHist, switchLog>>

\* DO_WHILE_STATEMENT: ph, body and after are laid out in that order; the
\* condition is lowered into ph before the body.
DoWhile ==
    /\ mode = "stmt"
    /\ \E e \in Exprs :
         LET ph == NewBlockId(ir)
             body == ph + 1
             after == ph + 2
             b1 == Branch(AddBlock(AddBlock(AddBlock(ir))), body)
         IN /\ ir' = SetCur(Cond(LowerExpr(SetCur(b1, ph), e), body, after),
                            body)
            /\ EnterLoop(LoopFrame("dowhile", ph, after, ph))
    /\ Frozen
    /\ UNCHANGED <<cases, gotoLabels, gotoFixups, caseHist, switchLog>>
DoWhileEnd ==
    /\ Resume("dowhile")
    /\ ir' = SetCur(Branch(ir, Top.ph), Top.after)
    /\ RestoreTargets(Top)
    /\ stack' = Pop /\ mode' = "ret"
    /\ Frozen
    /\ UNCHANGED <<cases, gotoLabels, gotoFixups, items, caseHist, switchLog>>

\* FOR_STATEMENT with an expression (or no) init; an absent condition is the
\* constant 1.  for.update and for.after are laid out after the body.
For ==
    /\ mode = "stmt"
    /\ \E init, c, upd \in Exprs \cup {NoExpr} :
         LET ph == NewBlockId(ir)
             body == ph + 1
             update == ph + 2
             after == ph + 3
             b1 == LowerOpt(PoolBlock(PoolBlock(AddBlock(AddBlock(ir)))), init)
             b2 == LowerOpt(SetCur(Branch(b1, ph), ph), c)
         IN /\ ir' = SetCur(Cond(b2, body, after), body)
            /\ EnterLoop(LoopFrame("for", ph, after, update) @@ [upd |-> upd])
    /\ Frozen
    /\ UNCHANGED <<cases, gotoLabels, gotoFixups, caseHist, switchLog>>
ForEnd ==
    /\ Resume("for")
    /\ LET f == Top
           b1 == AppendToFunction(SetCur(Branch(ir, f.cont), f.cont), f.cont)
           b2 == Branch(LowerOpt(b1, f.upd), f.ph)
       IN ir' = AppendToFunction(SetCur(b2, f.after), f.after)
    /\ RestoreTargets(Top)
    /\ stack' = Pop /\ mode' = "ret"
    /\ Frozen
    /\ UNCHANGED <<cases, gotoLabels, gotoFixups, items, caseHist, switchLog>>

Statement ==
    \/ CompoundBegin \/ ExprStmt \/ Return \/ Empty \/ IfBegin \/ SwitchBegin
    \/ CaseBegin \/ Default \/ Label \/ Goto \/ Break \/ Continue
    \/ While \/ DoWhile \/ For
Continuation ==
    \/ CompoundItem \/ CompoundEnd \/ IfElse \/ IfEnd \/ SwitchEnd \/ CaseEnd
    \/ WhileEnd \/ DoWhileEnd \/ ForEnd
Driver ==
    \/ FunctionDef \/ InlineFunctionDef \/ ExternInlineDecl \/ FunctionEnd
    \/ EndOfUnit \/ Terminated

Next == Driver \/ Statement \/ Continuation
Spec == Init /\ [][Next]_vars

\* The compiler is one thread walking the AST: it waits on nothing, so a
\* step it can take it takes (weak fairness of the whole walk).
FairSpec == Spec /\ WF_vars(Next)

(***************************************************************************)
(* Properties.                                                             *)
(***************************************************************************)
Blocks == DOMAIN ir.code
OwnedBy(e) == {blk \in Blocks : ir.owner[blk] = e}
\* IrFunctions whose body ir_gen_function has finished
\* (an assert inside a body stops the compiler with it unfinished)
Finished == {e \in DOMAIN ir.layout \ {Scratch} : e # ir.fn \/ stack = <<>>}
TargetsOf(blk) == UNION {ToSet(i.to) : i \in ToSet(ir.code[blk])} \ {NoBlock}
Preds(blk) == {p \in Blocks : blk \in TargetsOf(p)}
FrameKinds == {"function", "compound", "if", "switch", "case", "while",
               "dowhile", "for"}

TypeOK ==
    /\ ir.fn \in 0..Len(ir.layout)
    /\ mode \in {"stmt", "ret"} => ir.cur \in OwnedBy(ir.fn)
    /\ \A blk \in Blocks : ir.owner[blk] \in DOMAIN ir.layout
    /\ \A blk \in Blocks : \A i \in ToSet(ir.code[blk]) :
         /\ i.op \in Terminators \cup {"op", "phi"}
         /\ ToSet(i.to) \subseteq Blocks \cup {NoBlock}
    /\ breakT \in Blocks \cup {NoBlock} /\ contT \in Blocks \cup {NoBlock}
    /\ \A k \in DOMAIN cases : cases[k].block \in Blocks
    /\ \A k \in DOMAIN gotoFixups :
         gotoFixups[k].idx \in DOMAIN ir.code[gotoFixups[k].block]
    /\ \A k \in DOMAIN stack : stack[k].kind \in FrameKinds
    /\ mode \in {"top", "stmt", "ret", "done", "aborted"}
    /\ items \in 0..MaxItems

\* Spec 4.5/8: once ir_gen_function returns, function->blocks lists each
\* block allocated for the function exactly once (the pool-allocated
\* while/for/switch blocks included), every block ends in a terminator,
\* and no branch leaves the function.
CfgWellFormed ==
    \A e \in Finished :
        /\ IsInjective(ir.layout[e])
        /\ ToSet(ir.layout[e]) = OwnedBy(e)
        /\ \A blk \in OwnedBy(e) :
             /\ ir.code[blk] # <<>>
             /\ Last(ir.code[blk]).op \in Terminators
             /\ TargetsOf(blk) \subseteq OwnedBy(e)

\* Spec 8: every block ends with exactly one terminator.  The code appends
\* the if/loop/case joins and the statements after a return, break or
\* continue to a block that may already end in one.
ExactlyOneTerminator ==
    \A e \in Finished : \A blk \in OwnedBy(e) :
        /\ Len(SelectSeq(ir.code[blk], LAMBDA i : i.op \in Terminators)) = 1
        /\ Last(ir.code[blk]).op \in Terminators

\* While a body is lowered, env->break_target and env->continue_target are
\* the after / continue blocks of the innermost enclosing loop or switch,
\* after any number of nested constructs have saved and restored them.
TargetsTrackNesting ==
    /\ mode \in {"stmt", "ret"} =>
         /\ breakT = BreakExpected
         /\ contT = ContinueExpected
    /\ stack = <<>> => breakT = NoBlock /\ contT = NoBlock

\* The compare chain a switch builds (read back from the IR) selects exactly
\* the case blocks written inside that switch and not inside a nested one,
\* and falls back to its default block, or to switch.after without one.
SwitchDispatchesOwnCases ==
    \A s \in switchLog :
        LET own == {h \in caseHist : h.sw = s.sw}
            dflt == {h.block : h \in {x \in own : x.default}}
        IN /\ s.targets = {h.block : h \in {x \in own : ~x.default}}
           /\ s.fallback \in (IF dflt = {} THEN {s.sw} ELSE dflt)

\* Spec 8: the predecessors a phi of &&, || or ?: names are exactly the
\* blocks that branch to its block, however deeply the operands nest.
PhiJoinsPredecessors ==
    \A blk \in Blocks : \A i \in ToSet(ir.code[blk]) :
        i.op = "phi" => ToSet(i.from) = Preds(blk)

\* Spec 8: a goto whose function defines its label branches, after the
\* fixup pass, to that function's label block.
GotoResolvesWithinFunction ==
    mode = "done" =>
        \A k \in DOMAIN gotoFixups :
            LET x == gotoFixups[k]
                mine == {l \in ToSet(gotoLabels) :
                            l.name = x.name /\ ir.owner[l.block] = ir.owner[x.block]}
            IN mine # {} =>
                 ir.code[x.block][x.idx].to \in {<<l.block>> : l \in mine}

\* The builder only ever appends: no block disappears, no block loses an
\* instruction, and an instruction once emitted is never rewritten, except
\* by the goto fixup pass of ir_gen_toplevel, which sets the NULL target of
\* a goto's recorded branch to the block of a label with the goto's name.
\* Every fixup is applied at most once, since it rewrites only a NULL branch.
InstrsAppendOnly ==
    [][\A blk \in Blocks :
         /\ blk \in DOMAIN ir'.code
         /\ Len(ir'.code[blk]) >= Len(ir.code[blk])
         /\ \A i \in DOMAIN ir.code[blk] :
              ir'.code[blk][i] # ir.code[blk][i] =>
                /\ ir.code[blk][i] = Instr("br", <<NoBlock>>, <<>>)
                /\ \E x \in ToSet(gotoFixups), l \in ToSet(gotoLabels) :
                     /\ x.block = blk /\ x.idx = i /\ l.name = x.name
                     /\ ir'.code[blk][i] = Instr("br", <<l.block>>, <<>>)]_vars

\* Every goto's branch to NULL is eventually given a block, unless the
\* compiler stops on a label no function defines: GOTO_STATEMENT records a
\* fixup for the branch it emits, and the pass after the last top-level of
\* ir_gen_toplevel rewrites every recorded branch, so no NULL target reaches
\* the backend.
HasPlaceholder ==
    \E blk \in Blocks : Instr("br", <<NoBlock>>, <<>>) \in ToSet(ir.code[blk])
GotoEventuallyBound ==
    HasPlaceholder ~> (~HasPlaceholder \/ mode = "aborted")

=============================================================================
