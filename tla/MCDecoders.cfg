SPECIFICATION Spec
CONSTANTS
  Base = 4
  Word = 4
  Unit = 4
  Clusters = 40
  TableSectors = 32
  Layouts <- MCLayouts
  Memory <- MCMemory
  Keys = {"a", "b", "c", "k"}
  Readers <- MCReaders
  Disks <- MCDisks
  MaxFound = 9
INVARIANTS
  RunsRead
  ScanReturnsEntries
  ProtectiveMbr
CHECK_DEADLOCK FALSE
