SPECIFICATION FairSpec

CONSTANTS
  Workloads <- Faulty
  MaxTask = 12

INVARIANTS
  ConvergedAfterFaults

PROPERTIES
  RestartKeepsView
  DrainsAfterFaults

\* The requests are bounded: at the end there is nothing left to do.
CHECK_DEADLOCK FALSE
