SPECIFICATION FairSpec

CONSTANTS
  Readers = {"r1", "r2"}
  Fetchers = {"f1", "f2"}
  Flushers = {"x1"}
  CachePages = 4
  DbPages = 2
  Word = 16
  Workloads <- Scripts

CHECK_DEADLOCK FALSE

INVARIANTS
  PagesAccounted
  ReadsTrue

PROPERTIES
  EveryReadReturns
