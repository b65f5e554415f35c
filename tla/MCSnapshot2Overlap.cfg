CONSTANTS
  NPages       = 4
  PageCells    = 2
  Zero         = "0"
  Source       <- MCSource
  ProgramId    = "program"
  ProgramStart = 1
  Programs     <- MCOverlappingPrograms
  MaxArgs      = 2
  Values       = {"v"}
  Loads        <- MCLoads
  MaxSteps     = 2
SPECIFICATION Spec
INVARIANTS
  TrackedPageIsSource
