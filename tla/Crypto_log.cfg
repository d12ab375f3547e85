SPECIFICATION Spec

CONSTANTS
  HashSectors = 2
  MaxSize = 24
  MaxLog = 3
  Workloads <- Files

INVARIANTS
  TypeOK
  LayoutFits
  FetchesInside
  ReadsBack

PROPERTIES
  DurableSpec

\* The requests are bounded: at the end there is nothing left to do.
CHECK_DEADLOCK FALSE
