\* a pointer to an array: an array declarator around a parenthesised pointer,
\* three derived declarators deep, so that T (*x)[2] is the shortest case
CONSTANTS
  x = x
  y = y
  f = f
  a = a
  b = b
  A = A
  s = s
  u = u
  Tags = {}
  TagForms <- NoTagForms
  Objects = {}
  Functions = {}
  DeclForms <- PassForms
  DefStorages = {"none"}
  Params <- MCParams
  BlockDecls = {}
  ForDecls = {}
  MaxItems = 0
  Lengths = {2}
  ArrayElemKinds = {"id", "array", "nested"}
  MaxDeclDepth = 3
SPECIFICATION ScopeDeclSpec
INVARIANT DeclaratorMatchesC
