CONSTANTS
  x = x
  y = y
  f = f
  a = a
  b = b
  A = A
  s = s
  u = u
  Tags = {s, u}
  TagForms <- PassTagForms
  Objects = {x, y}
  Functions = {f}
  DeclForms <- PassForms
  DefStorages = {"none"}
  Params <- MCParams
  BlockDecls <- MCBlockDecls
  ForDecls <- MCForDecls
  MaxItems = 5
  Lengths = {2}
  ArrayElemKinds = {"id", "array"}
  MaxDeclDepth = 4
SPECIFICATION ScopeDeclSpec
INVARIANT LookupMatchesC
INVARIANT GlobalMatchesC
INVARIANT TagMatchesC
INVARIANT LayoutLaws
INVARIANT DeclaratorMatchesC
PROPERTY ScopeChainRefinesStack
