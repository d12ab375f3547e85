SPECIFICATION Spec

CONSTANTS
  HashSectors = 2
  MaxSize = 24
  MaxLog = 3
  Workloads <- Regrown

INVARIANTS
  FetchesInside

\* The requests are bounded: at the end there is nothing left to do.
CHECK_DEADLOCK FALSE
