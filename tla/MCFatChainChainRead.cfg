SPECIFICATION FairSpec
CONSTANTS
  NClus = 6
  Bad = 7
  CacheSize = 3
  MaxClusters = 4
  Word = 16
CHECK_DEADLOCK FALSE
INVARIANT ChainRead
