SPECIFICATION FairSpec

CONSTANTS
  MaxUploads = 1
  Workloads <- Single

PROPERTIES
  Settles
