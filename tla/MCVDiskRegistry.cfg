SPECIFICATION Spec
CONSTANTS
  None = None
  a = a
  aliasOfA = aliasOfA
  b = b
  fa = fa
  fb = fb
  Path = {a, aliasOfA, b}
  File = {fa, fb}
  FileOf <- MCFileOf
  Image <- MCImage
  Id = {r1, r2, r3, r4}
  MaxParts = 1
SYMMETRY Symmetry
INVARIANTS
  Ownership
  PathsUnique
  ExclusiveFile
  VhdDriverMapped
  FlagsMatchDriver
  FsOnOpenDisk
PROPERTY OneEntryPerCommand
CHECK_DEADLOCK FALSE
