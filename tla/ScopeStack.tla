----------------------------- MODULE ScopeStack -----------------------------
(***************************************************************************)
(* What lexical scoping promises the lowering: the declarations in scope   *)
(* form a stack of frames, one per C scope, the file scope at the bottom.  *)
(* A declaration only adds to the innermost frame; entering a scope pushes *)
(* a frame (already holding what its header declares: a function's        *)
(* parameters, a for statement's declaration); leaving it gives back       *)
(* exactly the stack that was there before; and an identifier denotes its  *)
(* binding in the innermost frame that has one.                            *)
(*                                                                         *)
(* The steps are stated as relations between the stack before and after,  *)
(* so that a detailed specification can be checked against them.          *)
(***************************************************************************)
EXTENDS Sequences, SequencesExt

CONSTANTS
  Names,      \* the identifiers that may be looked up
  NotFound    \* what a lookup of an undeclared identifier gives

VARIABLES
  stack,      \* the frames, each a sequence of [name, ent] bindings
  found       \* the entity the last lookup gave

avars == <<stack, found>>

\* The entity n denotes: its first binding in the innermost frame that has one.
Resolve(st, n) ==
  LET has(f) == \E i \in 1..Len(f) : f[i].name = n
      k == SelectLastInSeq(st, has)
  IN IF k = 0 THEN NotFound
     ELSE st[k][SelectInSeq(st[k], LAMBDA b : b.name = n)].ent

Init ==
  /\ stack = <<<<>>>>
  /\ found = NotFound

\* A declaration adds bindings to the innermost frame; those below stay.
Declare ==
  /\ Len(stack') = Len(stack)
  /\ Front(stack') = Front(stack)
  /\ IsPrefix(Last(stack), Last(stack'))
  /\ UNCHANGED found

\* A scope is entered: a new frame on top of the unchanged stack.
Enter ==
  /\ Front(stack') = stack
  /\ UNCHANGED found

\* A function definition at file scope declares its name there and enters
\* the scope of its body, whose frame holds the parameters.
DefineFunction ==
  /\ Len(stack) = 1
  /\ Len(stack') = 2
  /\ IsPrefix(stack[1], stack'[1])
  /\ UNCHANGED found

\* A scope is left: the stack is what it was when the scope was entered.
Leave ==
  /\ Len(stack) > 1
  /\ stack' = Front(stack)
  /\ UNCHANGED found

\* An identifier is resolved in the current stack.
Lookup ==
  /\ \E n \in Names : found' = Resolve(stack, n)
  /\ UNCHANGED stack

Next == Declare \/ Enter \/ DefineFunction \/ Leave \/ Lookup

Spec == Init /\ [][Next]_avars
====
