SPECIFICATION Spec

CONSTANTS
  MaxUploads = 1
  Workloads <- Scripts

INVARIANTS
  TypeOK
  DownloadsKeepEdits
  UploadsKeepEdits
  Converged
  OneChangeArrives
  RowsKnowTheirFiles
