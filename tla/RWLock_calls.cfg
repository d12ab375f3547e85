SPECIFICATION FairSpec

CONSTANTS
  Threads = {"t1", "t2", "t3", "t4"}
  MaxDepth = 2
  Requests <- FewCalls

\* The requests are bounded: at the end there is nothing left to do.
CHECK_DEADLOCK FALSE

INVARIANTS
  TypeOK
  MutualExclusion
  CountersAgree
  NoLostWakeup

PROPERTIES
  ImplementsContract
  EveryCallReturns
