SPECIFICATION Spec

CONSTANTS
  Workloads <- Calm
  MaxTask = 9

INVARIANTS
  CountsEntries
  EntriesHaveTasks
  WaitsForIds
  NoneRefused
  Converged

PROPERTIES
  DriveSpec

\* The requests are bounded: at the end there is nothing left to do.
CHECK_DEADLOCK FALSE
