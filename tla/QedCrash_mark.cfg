SPECIFICATION Spec
CONSTANTS
  Modes <- PlainVolatile
  NVirt = 3
  TableNElems = 2
  TableSize = 2
  MaxClusters = 13
  MaxWrites = 3
  MaxCrashes = 2
INVARIANT DirtyBeforeInconsistent
