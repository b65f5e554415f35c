CONSTANTS
  NPages     = 6
  PageCells  = 2
  Zero       = "0"
  FramePages = 3
  Junk       = "junk"
  Segments   <- MCSegments
  Values     = {"v"}
  Accesses   <- MCAccesses
  FlagSets   <- MCFlagSets
  MaxOps     = 3
SPECIFICATION Spec
INVARIANTS
  AsmTypeOK
  InitedFrameIsClean
  LastWritePageIsOpen
  LastReadFrameIsInited
PROPERTIES
  ImplementsFlatMemory
