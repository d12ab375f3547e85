SPECIFICATION Spec

CONSTANTS
  MaxUploads = 1
  Workloads <- EditedAndDeleted

INVARIANTS
  InSync
