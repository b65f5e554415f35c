SPECIFICATION Spec
CONSTANTS
  MemorySize = 12
  PageParcels = 6
  AccLimit = 4
  U64Max = 12
  U32Range = 16
  Images <- MCImages
  LoadedCode <- MCLoadedCode
  SyscallCycles = 3
  Setups <- MCSetups
  FirstLimit = 4
  Limits <- MCLimits
  TraceSize = 2
  TraceItemLength = 2
  CacheSize = 4
  CacheLocal = 2
  CacheRegion = 4
INVARIANTS RunTypeOK CachedIsCurrent CyclesWithinLimit
PROPERTIES ImplementsDirectMachine InterruptStops RunReturns
