SPECIFICATION Spec

CONSTANTS
  PageUnits = 2
  ConvertLimit = 3
  DirectLimit = 3
  Workloads <- Scripts

INVARIANTS
  TypeOK
  ReadsLastWritten
  UploadsLastWritten
  ServerHasVersions
  PagesAreTrue

CHECK_DEADLOCK FALSE
