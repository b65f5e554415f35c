CONSTANTS
  NPages       = 4
  PageCells    = 2
  Zero         = "0"
  Source       <- MCSource
  ProgramId    = "program"
  ProgramStart = 1
  Programs     <- MCPrograms
  MaxArgs      = 2
  Values       = {"v"}
  Loads        <- MCLoads
  MaxSteps     = 2
SPECIFICATION Spec
INVARIANTS
  SnapshotTypeOK
  TrackedPageIsSource
  OmittedPageIsFresh
  SnapshotAccepted
PROPERTIES
  ResumesAsSaved
