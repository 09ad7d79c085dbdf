SPECIFICATION Spec
CONSTANTS
  None = None
  root = root
  top = top
  sub = sub
  f = f
  g = g
  Node = {root, top, sub, f, g}
  Root = root
  DirNode = {root, top, sub}
  Children <- MCChildren
  Paths <- MCPaths
  MaxHandles = 4
INVARIANTS
  HandlesAccounted
  CurrentDirIsDir
  LookupSound
CHECK_DEADLOCK FALSE
