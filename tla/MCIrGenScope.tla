---------------------------- MODULE MCIrGenScope ----------------------------
(* Programs for IrGenScope: one function f with at most one parameter a,  *)
(* block-scope names a, b and enumerator A, file-scope objects x and y,   *)
(* struct tag s and union tag u.                                          *)
EXTENDS IrGenScope, IrGenDeclarator

CONSTANTS x, y, f, a, b, A, s, u

\* Declarators: a name, its initializer kind, the enumerators it defines.
Dcl(n, init, es) == [name |-> n, init |-> init, enums |-> es]

\* int a = e;   enum {A} b;   int b = sizeof(enum {A});
ExprDecl == [enums |-> <<>>, vars |-> <<Dcl(a, "expr", <<>>)>>]
EnumDecl == [enums |-> <<A>>, vars |-> <<Dcl(b, "none", <<>>)>>]
SizeofEnumDecl == [enums |-> <<>>, vars |-> <<Dcl(b, "expr", <<A>>)>>]
MCBlockDecls == {ExprDecl, EnumDecl, SizeofEnumDecl}

\* for (int a = e, b; ...)   for (int a = {sizeof(enum {A})}; ...)
TwoVarFor == [enums |-> <<>>, vars |-> <<Dcl(a, "expr", <<>>), Dcl(b, "none", <<>>)>>]
BraceEnumFor == [enums |-> <<>>, vars |-> <<Dcl(a, "brace", <<A>>)>>]
MCForDecls == {TwoVarFor, BraceEnumFor}

\* for (int a = sizeof(enum {A}); ...)
SizeofEnumFor == [enums |-> <<>>, vars |-> <<Dcl(a, "expr", <<A>>)>>]

MCParams == {<<>>, <<a>>}

Form(st, init) == [st |-> st, init |-> init]

\* x is defined once and declared extern; y only has static tentative
\* definitions; f is prototyped and defined without a storage class.
PassForms(n) ==
  CASE n = x -> {Form("none", "v1"), Form("extern", "none")}
    [] n = y -> {Form("static", "none")}
    [] n = f -> {Form("none", "none")}

\* Every storage class with and without an initializer, except an extern
\* declaration with one.
AllForms(n) ==
  IF n = f THEN {Form("none", "none"), Form("static", "none")}
  ELSE {Form(st, i) : st \in {"none", "static", "extern"}, i \in {"none", "v1"}}
         \ {Form("extern", "v1")}

Fwd(t) == [op |-> "forward", t |-> t, body |-> "none"]
UseTag(t) == [op |-> "use", t |-> t, body |-> "none"]
Def(t, kind, packed, fs) ==
  [op |-> "def", t |-> t, body |-> [kind |-> kind, packed |-> packed, fields |-> fs]]

\* At file scope: struct s;  struct s {char c; int i;};
\* struct s __attribute__((packed)) {char c; int i;};
\* union u {struct s v; char c;};  in a function: (struct s *) and
\* (union u *) casts.
PassTagForms(pos) ==
  IF pos = "top"
  THEN {Fwd(s), Def(s, "struct", FALSE, <<"char", "int">>),
        Def(s, "struct", TRUE, <<"char", "int">>), Def(u, "union", FALSE, <<s, "char">>)}
  ELSE {UseTag(s), UseTag(u)}

\* As PassTagForms, with struct s {int i;}; also allowed in a function.
ShadowTagForms(pos) ==
  PassTagForms(pos) \cup IF pos = "top" THEN {} ELSE {Def(s, "struct", FALSE, <<"int">>)}

NoTagForms(pos) == {}

\* The scope programs, or one declarator folded from the initial state.
ScopeDeclInit == Init /\ (DeclIdle \/ DeclInit)
ScopeDeclNext ==
  \/ Next /\ cdecl.st = "idle" /\ UNCHANGED dvars
  \/ (Fold \/ DeclDone) /\ UNCHANGED vars
ScopeOnlySpec == Init /\ DeclIdle /\ [][Next /\ UNCHANGED dvars]_<<vars, dvars>>
ScopeDeclSpec == ScopeDeclInit /\ [][ScopeDeclNext]_<<vars, dvars>>
====
