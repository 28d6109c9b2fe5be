CONSTANTS
  x = x
  y = y
  f = f
  a = a
  b = b
  A = A
  s = s
  u = u
  Tags = {s, u}
  TagForms <- NoTagForms
  Objects = {x, y}
  Functions = {f}
  DeclForms <- AllForms
  DefStorages = {"none", "static"}
  Params <- MCParams
  BlockDecls <- MCBlockDecls
  ForDecls <- MCForDecls
  MaxItems = 5
  Lengths = {2}
  ArrayElemKinds = {"id"}
  MaxDeclDepth = 0
SPECIFICATION ScopeOnlySpec
INVARIANT GlobalMatchesC
