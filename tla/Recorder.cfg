SPECIFICATION Spec
CHECK_DEADLOCK FALSE
CONSTANTS
  Procs <- MCProcs
  Libs = {"own", "other"}
  Names = {"f", "g"}
  Counts = {1, 2, 4, 5, 7}
  Jobs <- MCJobs
  Library = "own"
  Ring = 3
  NoCount = NoCount
INVARIANTS
  ProfileComplete
  RecorderInv
PROPERTY
  RecordsReturn
