SPECIFICATION Spec

CONSTANTS
  Workloads <- LocalFull
  MaxTask = 9

INVARIANTS
  CountsEntries

\* The requests are bounded: at the end there is nothing left to do.
CHECK_DEADLOCK FALSE
