SPECIFICATION Spec
CONSTANTS
  None = None
  root = root
  top = top
  sub = sub
  low = low
  deep = deep
  yon = yon
  e = e
  g = g
  h = h
  File = {root, top, sub, low, deep, yon, e, g, h}
  Root = root
  Dir = {root, top, sub, low, deep, yon, e}
  Small = {top, sub, low, deep, yon, e}
  Name = {".", "e", "yon", "YON~1", "top", "TOP~1", "h", "sub", "low", "deep", "g", "link", "none"}
  Entries <- MCEntries
  Unlisted <- MCUnlisted
  FirstName <- MCFirstName
  Paths <- MCPaths
  MaxHandles = 4
  MaxRecursion = 5
  PageSize = 24
  Limits = {0, 2, 3, 6}
INVARIANTS
  TypeOK
  HandlesAccounted
  LookupSound
  WalkIsListing
  PathLeadsBack
PROPERTIES
  LsEnds
  LsAdvances
CHECK_DEADLOCK FALSE
