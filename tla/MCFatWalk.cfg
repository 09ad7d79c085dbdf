SPECIFICATION Spec
CONSTANTS
  None = None
  root = root
  a = a
  b = b
  c = c
  e = e
  f = f
  g = g
  Node = {root, a, b, c, e, f, g}
  Root = root
  DirNode = {root, a, b, c, e}
  Children <- MCChildren
  MaxRecursion = 4
  Limits = {0, 1, 2, 3, 5}
  Buffer = {1, 2, 3, 4}
INVARIANTS
  TypeOK
  WalkIsListing
  PathMatchesEntry
  OneBuffer
PROPERTY WalkAdvances
